--------------------------- MODULE WorkThreadsProofs ---------------------------
(***************************************************************************)
(* Proofs about WorkThreads, for any number of threads, callers, runners   *)
(* and lines: a thread has one agent at a time, its link and the room's    *)
(* map agree, no more are live than MAX_LIVE, nothing said in a thread is  *)
(* lost as its agent parks, ends or starts again, and what is archived     *)
(* stays archived.                                                         *)
(*                                                                         *)
(* The argument has four layers.  ...Does: what an action does, in terms   *)
(* of the few things the invariant is about (...Effect), from the types    *)
(* alone.  ...Steps: the same for a state of the invariant, where what the *)
(* action works on exists.  ...Frame: what it leaves alone, so that each   *)
(* part of the invariant is only argued for the actions that disturb it.   *)
(* ...Moves: which those are for one part; ...Kept: that every step keeps  *)
(* the part.  The parts need each other: a step keeps one from all of them *)
(* (IInv, at the end).                                                     *)
(***************************************************************************)
EXTENDS WorkThreads, FiniteSetTheorems, TLAPS

(* The types.  Those of WorkThreads's TypeOK, with the fields of each      *)
(* record spelt out.                                                       *)
Phases == {"open", "parking", "closing"}
Goings == {"no", "claimed", "silent", "written", "gone"}
LiveSides ==
  [thread : Threads \cup {None}, phase : Phases, going : Goings,
   to : {"none", "parked", "closed", "prior"}, idly : BOOLEAN,
   agent : {"none", "up", "stopped"}, lease : Int, running : BOOLEAN,
   waiting : Seq(Lines), marking : BOOLEAN, fresh : BOOLEAN,
   prior : BOOLEAN, slipped : BOOLEAN]

Tasks ==
  [pc : {"idle", "knock", "look", "reserve", "evict", "evicting", "publish",
         "mark", "marked", "say"},
   thread : Threads \cup {None}, line : Lines \cup {None},
   side : Sides \cup {Nothing}, lease : Int,
   continuing : BOOLEAN, prior : BOOLEAN]

Loops == [pc : {"free", "door", "turn", "next", "stop", "rest"},
          side : Sides \cup {Nothing}, line : Lines \cup {None},
          ending : BOOLEAN]

StarterTypes == starter \in [Sides -> {"none", "building", "up", "take",
                                       "failed", "done"}]
RoomTypes == /\ scene \in Scenes
             /\ link \in [Threads -> {"none", "live", "parked", "closed"}]
             /\ live \in [Threads -> Sides \cup {Nothing}]
             /\ starting \in Int /\ made \in 0 .. MaxSides
             /\ waking \in Callers \cup {None}
             /\ StarterTypes
             /\ carried \subseteq Threads \X Lines
             /\ owed \subseteq Threads /\ ended \subseteq Threads
             /\ epoch \in Nat /\ revoking \in BOOLEAN
             /\ dropping \subseteq Sides /\ marks \in Nat
SideTypes == side \in [Sides -> LiveSides]
CallerTypes == caller \in [Callers -> Tasks]
RunnerTypes == runner \in [Runners -> Loops]
LineTypes == lines \in [Lines -> {"unsaid", "unused", "said", "heard",
                                  "refused", "dropped", "lost"}]
Types == RoomTypes /\ SideTypes /\ CallerTypes /\ RunnerTypes /\ LineTypes
(* The live sides there are.                                               *)
Made == 1 .. made
-----------------------------------------------------------------------------
(* A side's phase, what its ending is to come to and how far it has come   *)
(* say the same.                                                           *)
SidesAgree ==
  \A s \in Made :
    /\ side[s].thread \in Threads
    /\ side[s].phase = "open" <=> side[s].going = "no"
    /\ side[s].phase = "open" <=> side[s].to = "none"
    /\ side[s].phase = "parking" <=> side[s].to = "parked"
    /\ side[s].idly = TRUE => side[s].phase = "parking"

(* What is not made yet is nowhere.                                        *)
Unborn ==
  /\ \A s \in Sides : s \notin Made => /\ side[s].phase = "open"
                                      /\ side[s].going = "no"
                                      /\ side[s].marking = FALSE
                                      /\ starter[s] = "none"
  /\ \A r \in Runners : runner[r].pc # "free" => /\ runner[r].side \in Made
                                               /\ runner[r].line \in Lines
  /\ dropping \subseteq Made

CallersAgree ==
  \A k \in Callers :
    /\ At(k, "idle") => caller[k] = Idle
    /\ ~At(k, "idle") => caller[k].thread \in Threads /\ caller[k].line \in Lines
    /\ caller[k].pc \in {"mark", "marked", "say", "evict", "evicting"}
         => caller[k].side \in Made

Known == SidesAgree /\ Unborn /\ CallersAgree

(* Inner.live has every live side until it is gone, and no other.          *)
MapAgrees ==
  /\ \A s \in Made : side[s].going # "gone" => live[side[s].thread] = s
  /\ \A t \in Threads : live[t] # Nothing =>
       /\ live[t] \in Made
       /\ side[live[t]].thread = t
       /\ side[live[t]].going # "gone"

(* A thread with a state on its link, or lines carried to it, has had a    *)
(* live side.                                                              *)
Has(t) == \E s \in Made : side[s].thread = t
HasThread ==
  /\ \A t \in Threads : link[t] # "none" => Has(t)
  /\ \A t \in Threads, l \in Lines : <<t, l>> \in carried => Has(t)

(* Who comes to start a thread has Sides.waking, or a thread nobody else   *)
(* knows of yet, and no live side is there meanwhile.                      *)
Starts(k) == caller[k].pc \in {"reserve", "evict", "evicting", "publish"}
Alone(k) == /\ ~Has(caller[k].thread)
            /\ \A j \in Callers : j # k => caller[j].thread # caller[k].thread
AdmissionOf(k) ==
  /\ At(k, "look") => waking = k
  /\ Starts(k) => /\ live[caller[k].thread] = Nothing
                  /\ waking = k \/ Alone(k)
Admission == \A k \in Callers : AdmissionOf(k)

(* Inner.starting counts the starts under way, and those that have a place *)
(* granted and no side yet still fit beside the live ones.                 *)
Published == {k \in Callers : caller[k].pc \in {"publish", "mark", "marked"}}
Granted == {k \in Callers : caller[k].pc = "publish"}
PlacesAgree ==
  /\ starting = Cardinality(Published)
  /\ Cardinality(Held) + Cardinality(Granted) <= scene.places

(* The link says live as long as the map has an open side, and says so     *)
(* without one only where a start that failed put back what was there.     *)
PutBack(t) == \E q \in Made : side[q].thread = t /\ side[q].to = "prior"
LinkOfNone == \A t \in Threads :
                live[t] = Nothing /\ link[t] = "live" => PutBack(t)
LinkOfLive == \A t \in Threads :
                live[t] # Nothing /\ side[live[t]].phase = "open" /\ ~Brought(t)
                  => link[t] = "live"
LinkWritten == \A s \in Made :
                 side[s].going = "written" /\ link[side[s].thread] = "live"
                   => PutBack(side[s].thread)
LateMarks == \A s \in Made :
               side[s].marking = TRUE /\ side[s].going \in {"written", "gone"}
                 => side[s].to = "prior"
MarkedLinks == \A k \in Callers :
                 At(k, "marked") /\ side[caller[k].side].phase = "open"
                   => \/ side[caller[k].side].marking = TRUE
                      \/ link[side[caller[k].side].thread] = "live"
LinkAgrees == /\ LinkOfNone /\ LinkOfLive /\ LinkWritten /\ LateMarks
              /\ MarkedLinks

(* Leases are of authorities that were open, none is from the future, and  *)
(* an authority that ended has ended what it covered, or is about to.      *)
Even(lease) == lease % 2 = 0
SideLease(s) == /\ side[s].lease <= epoch
                /\ side[s].lease = -1 \/ Even(side[s].lease)
                /\ side[s].phase = "open" => Even(side[s].lease)
CallerLease(k) == /\ caller[k].lease <= epoch
                  /\ caller[k].lease = -1 \/ Even(caller[k].lease)
                  /\ Starts(k) => Even(caller[k].lease)
                  /\ caller[k].pc \in {"knock", "look"} => caller[k].lease = -1
Leases ==
  /\ epoch <= scene.epochs
  /\ RevokedIsEnded
  /\ \A s \in Made : SideLease(s)
  /\ \A k \in Callers : CallerLease(k)

(* A start has one owner until it is handed over, and no agent before      *)
(* that; an agent that is up as its side ends is its starter's to stop.    *)
Owns(k) == caller[k].pc \in {"mark", "marked", "say"} /\ caller[k].lease # -1
Agents ==
  /\ \A k \in Callers : Owns(k) => starter[caller[k].side] = "none"
  /\ \A k, j \in Callers : Owns(k) /\ Owns(j) /\ caller[k].side = caller[j].side
                             => k = j
  /\ \A s \in Made :
       /\ starter[s] \in {"none", "building"} => side[s].agent = "none"
       /\ side[s].agent = "up" /\ side[s].going \in {"silent", "written", "gone"}
            => starter[s] = "up"

(* A queue with something in it is driven, by one runner at a time;        *)
(* nothing waits in a thread that parks.                                   *)
Busy(r, s) == runner[r].side = s /\ runner[r].pc \notin {"free", "rest"}
Drives(s) == \E r \in Runners : /\ runner[r].side = s
                                /\ runner[r].pc \in {"door", "turn", "next"}
Turns ==
  \A s \in Made :
    /\ Answering(s) /\ (side[s].waiting # <<>> \/ side[s].running = TRUE)
         => Drives(s) \/ starter[s] # "done"
    /\ starter[s] # "done" =>
         /\ side[s].running = TRUE
         /\ \A r \in Runners : runner[r].pc # "free" => runner[r].side # s
    /\ side[s].slipped = FALSE =>
         /\ \A r, q \in Runners : Busy(r, s) /\ Busy(q, s) => r = q
         /\ \A r \in Runners : Busy(r, s) => side[s].running = TRUE
    /\ side[s].idly = TRUE /\ side[s].slipped = FALSE =>
         /\ side[s].waiting = <<>> /\ starter[s] = "done"
         /\ \A r \in Runners : ~Busy(r, s)
    /\ side[s].phase = "parking" /\ side[s].going # "claimed"
         => side[s].waiting = <<>>

(* What was said is somewhere: with its caller, carried, at a runner's     *)
(* door or in a queue; until it is heard, refused or dropped.              *)
LosesNothing == \A l \in Lines : lines[l] # "lost"

Holds(s, l) == \E i \in 1 .. Len(side[s].waiting) : side[s].waiting[i] = l
Placed(l) ==
  \/ \E k \in Callers : ~At(k, "idle") /\ caller[k].line = l
  \/ \E t \in Threads : <<t, l>> \in carried
  \/ \E r \in Runners : runner[r].pc = "door" /\ runner[r].line = l
  \/ \E s \in Made : Holds(s, l)
SaidIsPlaced == \A l \in Lines : lines[l] = "said" => Placed(l)

(* The end of an archived thread is not overwritten by a park.             *)
ClosedIsWritten == \A s \in Made :
                     side[s].going = "written" /\ side[s].phase = "closing"
                       => link[side[s].thread] # "parked"
EndedIsOver == \A t \in ended \ owed :
                 /\ live[t] = Nothing => link[t] # "parked"
                 /\ live[t] # Nothing => side[live[t]].phase = "closing"
EndsHold == ClosedIsWritten /\ EndedIsOver

-----------------------------------------------------------------------------
(* A record of a type stays of it, whichever of its fields a step sets.    *)
LEMMA SideSet ==
  ASSUME NEW x \in LiveSides
  PROVE  /\ \A g \in Goings : [x EXCEPT !.going = g] \in LiveSides
         /\ \A b \in BOOLEAN : /\ [x EXCEPT !.marking = b] \in LiveSides
                               /\ [x EXCEPT !.running = b] \in LiveSides
         /\ \A q \in Seq(Lines) : [x EXCEPT !.waiting = q] \in LiveSides
         /\ \A a \in {"none", "up", "stopped"} :
              [x EXCEPT !.agent = a] \in LiveSides
         /\ \A b, c \in BOOLEAN :
              [x EXCEPT !.running = b, !.slipped = c] \in LiveSides
  <1>1. \A g \in Goings : [x EXCEPT !.going = g] \in LiveSides
    BY ZenonT(30) DEF LiveSides
  <1>2. \A b \in BOOLEAN : [x EXCEPT !.marking = b] \in LiveSides
    BY ZenonT(30) DEF LiveSides
  <1>3. \A b \in BOOLEAN : [x EXCEPT !.running = b] \in LiveSides
    BY ZenonT(30) DEF LiveSides
  <1>4. \A q \in Seq(Lines) : [x EXCEPT !.waiting = q] \in LiveSides
    BY ZenonT(30) DEF LiveSides
  <1>5. \A a \in {"none", "up", "stopped"} : [x EXCEPT !.agent = a] \in LiveSides
    BY ZenonT(30) DEF LiveSides
  <1>6. \A b, c \in BOOLEAN :
          [x EXCEPT !.running = b, !.slipped = c] \in LiveSides
    BY ZenonT(30) DEF LiveSides
  <1> QED
    BY Zenon, <1>1, <1>2, <1>3, <1>4, <1>5, <1>6

(* The records that a step makes of a live side: let go of, claimed, new.  *)
LEMMA SideLetGo ==
  ASSUME NEW x \in LiveSides, NEW q \in Seq(Lines),
         NEW a \in {"none", "up", "stopped"}, NEW n \in Int
  PROVE  [x EXCEPT !.going = "silent", !.waiting = q, !.lease = n,
                   !.agent = a] \in LiveSides
  <1>1. "silent" \in Goings
    BY DEF Goings
  <1> QED
    BY <1>1, ZenonT(30) DEF LiveSides

LEMMA SideClaimed ==
  ASSUME NEW x \in LiveSides, NEW p \in Phases,
         NEW to \in {"none", "parked", "closed", "prior"}, NEW b \in BOOLEAN
  PROVE  [x EXCEPT !.phase = p, !.going = "claimed", !.to = to,
                   !.idly = b] \in LiveSides
  <1>1. "claimed" \in Goings
    BY DEF Goings
  <1> QED
    BY <1>1, ZenonT(30) DEF LiveSides

LEMMA SideNew ==
  ASSUME NEW t \in Threads, NEW n \in Int, NEW b \in BOOLEAN,
         NEW c \in BOOLEAN
  PROVE  [Unmade EXCEPT !.thread = t, !.lease = n, !.running = TRUE,
                        !.fresh = b, !.prior = c] \in LiveSides
  <1>1. <<>> \in Seq(Lines)
    OBVIOUS
  <1> QED
    BY <1>1 DEF LiveSides, Unmade, Phases, Goings

(* Setting one side keeps the sides typed.                                 *)
LEMMA OneSide ==
  ASSUME SideTypes, NEW s, NEW v \in LiveSides,
         side' = [side EXCEPT ![s] = v]
  PROVE  SideTypes'
  BY DEF SideTypes

LEMMA ClaimTyped ==
  ASSUME SideTypes, NEW s \in Sides, NEW p \in Phases,
         NEW to \in {"none", "parked", "closed", "prior"}, NEW b \in BOOLEAN,
         Claims(s, p, to, b) \/ Ends(s, p, to)
  PROVE  SideTypes'
  <1>1. CASE UNCHANGED side
    BY <1>1 DEF SideTypes
  <1>2. CASE \E c \in BOOLEAN : Claims(s, p, to, c)
    <2>1. PICK c \in BOOLEAN : Claims(s, p, to, c)
      BY <1>2
    <2> DEFINE v == [side[s] EXCEPT !.phase = p, !.going = "claimed",
                                    !.to = to, !.idly = c]
    <2>2. v \in LiveSides
      BY Zenon, SideClaimed DEF SideTypes
    <2>3. side' = [side EXCEPT ![s] = v]
      BY <2>1 DEF Claims, SideTypes, LiveSides
    <2> HIDE DEF v
    <2> QED
      BY <2>2, <2>3, OneSide
  <1> QED
    BY <1>1, <1>2 DEF Ends

(* What is made is among the sides.                                        *)
LEMMA MadeSides ==
  ASSUME RoomTypes
  PROVE  Made \subseteq Sides
  BY BoundsAssumption DEF RoomTypes, Made, Sides

(* A queue without its head, and with one more line, is a queue.           *)
LEMMA Queues ==
  ASSUME NEW S, NEW q \in Seq(S)
  PROVE  /\ \A x \in S : Append(q, x) \in Seq(S)
         /\ q # <<>> => Tail(q) \in Seq(S) /\ Head(q) \in S
  <1>1. \A x \in S : Append(q, x) \in Seq(S)
    OBVIOUS
  <1>2. q # <<>> => Tail(q) \in Seq(S) /\ Head(q) \in S
    OBVIOUS
  <1> QED
    BY <1>1, <1>2

(* Every action keeps the live sides typed.                                *)
LEMMA SidesTyped ==
  ASSUME Types, Known, Next
  PROVE  SideTypes'
  <1>0. /\ SideTypes
        /\ \A s \in Sides : /\ side[s] \in LiveSides
                            /\ side[s].waiting \in Seq(Lines)
                            /\ side[s].agent \in {"none", "up", "stopped"}
        /\ <<>> \in Seq(Lines)
    BY DEF Types, SideTypes, LiveSides
  <1>1. Made \subseteq Sides
    BY MadeSides DEF Types
  <1>LetGo. ASSUME NEW s \in Sides, LetGo(s)
       PROVE  SideTypes'
    <2> DEFINE a == IF side[s].agent = "up" THEN "stopped" ELSE side[s].agent
               v == [side[s] EXCEPT !.going = "silent", !.waiting = <<>>,
                                    !.lease = -1, !.agent = a]
    <2>1. v \in LiveSides
      <3>1. a \in {"none", "up", "stopped"} /\ -1 \in Int
        BY <1>0
      <3> HIDE DEF a
      <3> QED
        BY Zenon, <1>0, <3>1, SideLetGo
    <2>2. side' = [side EXCEPT ![s] = v]
      BY <1>0, <1>LetGo DEF LetGo, SideTypes, LiveSides
    <2> HIDE DEF v
    <2> QED
      BY <1>0, <2>1, <2>2, OneSide
  <1>WriteEnd. ASSUME NEW s \in Sides, WriteEnd(s)
       PROVE  SideTypes'
    <2> DEFINE v == [side[s] EXCEPT !.going = "written"]
    <2>1. v \in LiveSides
      BY Zenon, <1>0, SideSet DEF Goings
    <2>2. side' = [side EXCEPT ![s] = v]
      BY <1>0, <1>WriteEnd DEF WriteEnd, Writes, SideTypes, LiveSides
    <2> HIDE DEF v
    <2> QED
      BY <1>0, <2>1, <2>2, OneSide
  <1>Leave. ASSUME NEW s \in Sides, Leave(s)
       PROVE  SideTypes'
    <2> DEFINE v == [side[s] EXCEPT !.going = "gone"]
    <2>1. v \in LiveSides
      BY Zenon, <1>0, SideSet DEF Goings
    <2>2. side' = [side EXCEPT ![s] = v]
      BY <1>0, <1>Leave DEF Leave, SideTypes, LiveSides
    <2> HIDE DEF v
    <2> QED
      BY <1>0, <2>1, <2>2, OneSide
  <1>Marked. ASSUME NEW s \in Sides, Marked(s)
       PROVE  SideTypes'
    <2> DEFINE v == [side[s] EXCEPT !.marking = FALSE]
    <2>1. v \in LiveSides
      BY Zenon, <1>0, SideSet DEF Goings
    <2>2. side' = [side EXCEPT ![s] = v]
      BY <1>0, <1>Marked DEF Marked, SideTypes, LiveSides
    <2> HIDE DEF v
    <2> QED
      BY <1>0, <2>1, <2>2, OneSide
  <1>Built. ASSUME NEW s \in Sides, Built(s)
       PROVE  SideTypes'
    <2>1. CASE UNCHANGED side
      BY <1>0, <2>1 DEF SideTypes
    <2>2. CASE side' = [side EXCEPT ![s].agent = "up"]
      <3> DEFINE v == [side[s] EXCEPT !.agent = "up"]
      <3>1. v \in LiveSides
        BY Zenon, <1>0, SideSet
      <3>2. side' = [side EXCEPT ![s] = v]
        BY <2>2
      <3> HIDE DEF v
      <3> QED
        BY <1>0, <3>1, <3>2, OneSide
    <2> QED
      BY <1>Built, <2>1, <2>2 DEF Built
  <1>LooksUp. ASSUME NEW s \in Sides, LooksUp(s)
       PROVE  SideTypes'
    <2>1. CASE UNCHANGED side
      BY <1>0, <2>1 DEF SideTypes
    <2>2. CASE side' = [side EXCEPT ![s].agent = "stopped"]
      <3> DEFINE v == [side[s] EXCEPT !.agent = "stopped"]
      <3>1. v \in LiveSides
        BY Zenon, <1>0, SideSet
      <3>2. side' = [side EXCEPT ![s] = v]
        BY <2>2
      <3> HIDE DEF v
      <3> QED
        BY <1>0, <3>1, <3>2, OneSide
    <2> QED
      BY <1>LooksUp, <2>1, <2>2 DEF LooksUp
  <1>TakesFirst. ASSUME NEW s \in Sides, TakesFirst(s)
       PROVE  SideTypes'
    <2>1. CASE side[s].waiting = <<>>
      <3> DEFINE v == [side[s] EXCEPT !.running = FALSE]
      <3>1. v \in LiveSides
        BY Zenon, <1>0, SideSet
      <3>2. side' = [side EXCEPT ![s] = v]
        BY <1>TakesFirst, <2>1 DEF TakesFirst
      <3> HIDE DEF v
      <3> QED
        BY <1>0, <3>1, <3>2, OneSide
    <2>2. CASE side[s].waiting # <<>>
      <3> DEFINE v == [side[s] EXCEPT !.waiting = Tail(side[s].waiting)]
      <3>1. v \in LiveSides
        BY Zenon, <1>0, <2>2, SideSet, Queues
      <3>2. side' = [side EXCEPT ![s] = v]
        BY <1>TakesFirst, <2>2 DEF TakesFirst
      <3> HIDE DEF v
      <3> QED
        BY <1>0, <3>1, <3>2, OneSide
    <2> QED
      BY <2>1, <2>2
  <1>StartFails. ASSUME NEW s \in Sides, StartFails(s)
       PROVE  SideTypes'
    BY <1>0, <1>StartFails, ClaimTyped DEF StartFails, Phases
  <1>Drop. ASSUME NEW s \in Sides, Drop(s)
       PROVE  SideTypes'
    BY <1>0, <1>Drop, ClaimTyped DEF Drop, Phases
  <1>Begin. ASSUME NEW r \in Runners, Begin(r)
       PROVE  SideTypes'
    BY <1>0, <1>Begin DEF Begin, SideTypes
  <1>EndTurn. ASSUME NEW r \in Runners, EndTurn(r)
       PROVE  SideTypes'
    <2>1. runner[r].side \in Sides
      BY <1>1, <1>EndTurn DEF EndTurn, Known, Unborn, Types
    <2>2. UNCHANGED side \/ Ends(runner[r].side, "closing", "closed")
      BY <1>EndTurn DEF EndTurn
    <2> QED
      BY <1>0, <2>1, <2>2, ClaimTyped DEF SideTypes, Phases
  <1>Stops. ASSUME NEW r \in Runners, Stops(r)
       PROVE  SideTypes'
    BY <1>0, <1>Stops DEF Stops, SideTypes
  <1>NextLine. ASSUME NEW r \in Runners, NextLine(r)
       PROVE  SideTypes'
    <2> DEFINE s == runner[r].side
    <2>0. s \in Sides
      BY <1>1, <1>NextLine DEF NextLine, Known, Unborn, Types
    <2>1. CASE side[s].waiting = <<>>
      <3> DEFINE v == [side[s] EXCEPT !.running = FALSE]
      <3>1. v \in LiveSides
        BY Zenon, <1>0, <2>0, SideSet
      <3>2. side' = [side EXCEPT ![s] = v]
        BY <1>NextLine, <2>1 DEF NextLine
      <3> HIDE DEF v
      <3> QED
        BY <1>0, <3>1, <3>2, OneSide
    <2>2. CASE side[s].waiting # <<>>
      <3> DEFINE v == [side[s] EXCEPT !.waiting = Tail(side[s].waiting)]
      <3>1. v \in LiveSides
        BY Zenon, <1>0, <2>0, <2>2, SideSet, Queues
      <3>2. side' = [side EXCEPT ![s] = v]
        BY <1>NextLine, <2>2 DEF NextLine
      <3> HIDE DEF v
      <3> QED
        BY <1>0, <3>1, <3>2, OneSide
    <2> QED
      BY <2>1, <2>2
  <1>Rests. ASSUME NEW r \in Runners, Rests(r)
       PROVE  SideTypes'
    <2> DEFINE s == runner[r].side
               c == side[s].slipped \/ \E q \in Runners \ {r} :
                      /\ runner[q].side = s
                      /\ runner[q].pc # "rest"
               v == [side[s] EXCEPT !.running = FALSE, !.slipped = c]
    <2>0. s \in Sides
      BY <1>1, <1>Rests DEF Rests, Rest, Known, Unborn, Types
    <2>a. c \in BOOLEAN
      BY <1>0, <2>0 DEF LiveSides
    <2>1. v \in LiveSides
      <3> HIDE DEF c
      <3> QED
        BY Zenon, <1>0, <2>0, <2>a, SideSet
    <2>2. side' = [side EXCEPT ![s] = v]
      BY <1>0, <1>Rests DEF Rests, Rest, SideTypes, LiveSides
    <2> HIDE DEF v
    <2> QED
      BY <1>0, <2>1, <2>2, OneSide
  <1>Reopen. ASSUME NEW k \in Callers, Reopen(k)
       PROVE  SideTypes'
    BY <1>0, <1>Reopen DEF Reopen, SideTypes
  <1>Admitted. ASSUME NEW k \in Callers, Admitted(k)
       PROVE  SideTypes'
    BY <1>0, <1>Admitted DEF Admitted, SideTypes
  <1>Looks. ASSUME NEW k \in Callers, Looks(k)
       PROVE  SideTypes'
    BY <1>0, <1>Looks DEF Looks, SideTypes
  <1>Reserve. ASSUME NEW k \in Callers, Reserve(k)
       PROVE  SideTypes'
    BY <1>0, <1>Reserve DEF Reserve, SideTypes
  <1>Evict. ASSUME NEW k \in Callers, Evict(k)
       PROVE  SideTypes'
    <2>1. caller[k].side \in Sides
      BY <1>1, <1>Evict DEF Evict, At, Known, CallersAgree, Types
    <2>2. Valid(side[caller[k].side].lease) \in BOOLEAN
      BY DEF Valid
    <2>3. UNCHANGED side \/ ParkIdle(caller[k].side)
      BY <1>Evict DEF Evict
    <2> QED
      BY <1>0, <2>1, <2>2, <2>3, ClaimTyped DEF SideTypes, ParkIdle, Phases
  <1>Evicted. ASSUME NEW k \in Callers, Evicted(k)
       PROVE  SideTypes'
    BY <1>0, <1>Evicted DEF Evicted, SideTypes
  <1>Publish. ASSUME NEW k \in Callers, Publish(k)
       PROVE  SideTypes'
    <2>1. CASE Current(k)
      <3> DEFINE t == caller[k].thread
                 b == link[t] = "none"
                 c == caller[k].prior
                 v == [Unmade EXCEPT !.thread = t, !.lease = caller[k].lease,
                          !.running = TRUE, !.fresh = b, !.prior = c]
      <3>1. t \in Threads /\ caller[k].lease \in Int /\ c \in BOOLEAN
        BY <1>Publish DEF Publish, At, Known, CallersAgree, Types, CallerTypes, Tasks
      <3>2. b \in BOOLEAN
        OBVIOUS
      <3>3. v \in LiveSides
        <4> HIDE DEF t, b, c
        <4> QED
          BY Zenon, <3>1, <3>2, SideNew
      <3>4. side' = [side EXCEPT ![made'] = v]
        BY <1>Publish, <2>1 DEF Publish
      <3> HIDE DEF v
      <3> QED
        BY <1>0, <3>3, <3>4, OneSide
    <2>2. CASE ~Current(k)
      BY <1>0, <1>Publish, <2>2 DEF Publish, SideTypes
    <2> QED
      BY <2>1, <2>2
  <1>MarksLive. ASSUME NEW k \in Callers, MarksLive(k)
       PROVE  SideTypes'
    <2> DEFINE s == caller[k].side
               b == Markable(s)
               v == [side[s] EXCEPT !.marking = b]
    <2>0. s \in Sides
      BY <1>1, <1>MarksLive DEF MarksLive, At, Known, CallersAgree, Types
    <2>a. b \in BOOLEAN
      BY DEF Markable
    <2>1. v \in LiveSides
      <3> HIDE DEF b
      <3> QED
        BY Zenon, <1>0, <2>0, <2>a, SideSet
    <2>2. side' = [side EXCEPT ![s] = v]
      BY <1>MarksLive DEF MarksLive
    <2> HIDE DEF v
    <2> QED
      BY <1>0, <2>1, <2>2, OneSide
  <1>BroughtUp. ASSUME NEW k \in Callers, BroughtUp(k)
       PROVE  SideTypes'
    BY <1>0, <1>BroughtUp DEF BroughtUp, SideTypes
  <1>Say. ASSUME NEW k \in Callers, Say(k)
       PROVE  SideTypes'
    <2> DEFINE s == caller[k].side
    <2>0. s \in Sides /\ caller[k].line \in Lines
      BY <1>1, <1>Say DEF Say, At, Known, CallersAgree, Types
    <2>1. CASE UNCHANGED side
      BY <1>0, <2>1 DEF SideTypes
    <2>2. CASE side' = [side EXCEPT ![s].running = TRUE]
      <3> DEFINE v == [side[s] EXCEPT !.running = TRUE]
      <3>1. v \in LiveSides
        BY Zenon, <1>0, <2>0, SideSet
      <3>2. side' = [side EXCEPT ![s] = v]
        BY <2>2
      <3> HIDE DEF v
      <3> QED
        BY <1>0, <3>1, <3>2, OneSide
    <2>3. CASE side' = [side EXCEPT ![s].waiting = Append(@, caller[k].line)]
      <3> DEFINE q == Append(side[s].waiting, caller[k].line)
                 v == [side[s] EXCEPT !.waiting = q]
      <3>0. q \in Seq(Lines)
        BY <1>0, <2>0, Queues
      <3>1. v \in LiveSides
        <4> HIDE DEF q
        <4> QED
          BY Zenon, <1>0, <2>0, <3>0, SideSet
      <3>2. side' = [side EXCEPT ![s] = v]
        BY <2>3
      <3> HIDE DEF v
      <3> QED
        BY <1>0, <3>1, <3>2, OneSide
    <2> QED
      BY <1>Say, <2>1, <2>2, <2>3 DEF Say, Queue, Claim
  <1>ArchiveOwed. ASSUME NEW t \in Threads, ArchiveOwed(t)
       PROVE  SideTypes'
    <2>1. CASE live[t] = Nothing
      BY <1>0, <1>ArchiveOwed, <2>1 DEF ArchiveOwed, SideTypes
    <2>2. CASE live[t] # Nothing
      <3>1. live[t] \in Sides
        BY <2>2 DEF Types, RoomTypes
      <3>2. UNCHANGED side \/ Ends(live[t], "closing", "closed")
        BY <1>ArchiveOwed, <2>2 DEF ArchiveOwed
      <3> QED
        BY <1>0, <3>1, <3>2, ClaimTyped DEF SideTypes, Phases
    <2> QED
      BY <2>1, <2>2
  <1>Drops. ASSUME Drops
       PROVE  SideTypes'
    BY <1>0, <1>Drops DEF Drops, SideTypes
  <1>Ask. ASSUME NEW k \in Callers, NEW t \in Threads, NEW l \in Lines,
                 NEW c \in BOOLEAN, Ask(k, t, l, c)
       PROVE  SideTypes'
    BY <1>0, <1>Ask DEF Ask, SideTypes
  <1>Open. ASSUME NEW k \in Callers, NEW t \in Threads, NEW l \in Lines, Open(k, t, l)
       PROVE  SideTypes'
    BY <1>0, <1>Open DEF Open, SideTypes
  <1>Park. ASSUME NEW t \in Threads, Park(t)
       PROVE  SideTypes'
    <2>1. live[t] \in Sides
      BY <1>Park DEF Park, Types, RoomTypes
    <2>2. Valid(side[live[t]].lease) \in BOOLEAN
      BY DEF Valid
    <2> QED
      BY <1>0, <1>Park, <2>1, <2>2, ClaimTyped DEF Park, ParkIdle, Phases
  <1>Archive. ASSUME NEW t \in Threads, Archive(t)
       PROVE  SideTypes'
    <2>1. CASE live[t] = Nothing
      BY <1>0, <1>Archive, <2>1 DEF Archive, CloseSide, SideTypes
    <2>2. CASE live[t] # Nothing
      <3>1. live[t] \in Sides
        BY <2>2 DEF Types, RoomTypes
      <3>2. UNCHANGED side \/ Ends(live[t], "closing", "closed")
        BY <1>Archive, <2>2 DEF Archive, CloseSide
      <3> QED
        BY <1>0, <3>1, <3>2, ClaimTyped DEF SideTypes, Phases
    <2> QED
      BY <2>1, <2>2
  <1>Mark. ASSUME NEW s \in Sides, Mark(s)
       PROVE  SideTypes'
    <2> DEFINE v == [side[s] EXCEPT !.marking = TRUE]
    <2>1. v \in LiveSides
      BY Zenon, <1>0, SideSet DEF Goings
    <2>2. side' = [side EXCEPT ![s] = v]
      BY <1>0, <1>Mark DEF Mark, Markable, InRoom, SideTypes, LiveSides
    <2> HIDE DEF v
    <2> QED
      BY <1>0, <2>1, <2>2, OneSide
  <1>Stop. ASSUME NEW s \in Sides, Stop(s)
       PROVE  SideTypes'
    <2> DEFINE v == [side[s] EXCEPT !.waiting = <<>>]
    <2>1. v \in LiveSides
      BY Zenon, <1>0, SideSet DEF Goings
    <2>2. side' = [side EXCEPT ![s] = v]
      BY <1>0, <1>Stop DEF Stop, Fate, SideTypes, LiveSides
    <2> HIDE DEF v
    <2> QED
      BY <1>0, <2>1, <2>2, OneSide
  <1>Invalidate. ASSUME Invalidate
       PROVE  SideTypes'
    BY <1>0, <1>Invalidate DEF Invalidate, SideTypes
  <1>Reattach. ASSUME Reattach
       PROVE  SideTypes'
    BY <1>0, <1>Reattach DEF Reattach, SideTypes
  <1> QED
    BY <1>LetGo, <1>WriteEnd, <1>Leave, <1>Marked, <1>Built, <1>LooksUp,
       <1>TakesFirst, <1>StartFails, <1>Drop, <1>Begin, <1>EndTurn, <1>Stops,
       <1>NextLine, <1>Rests, <1>Reopen, <1>Admitted, <1>Looks, <1>Reserve,
       <1>Evict, <1>Evicted, <1>Publish, <1>MarksLive, <1>BroughtUp, <1>Say,
       <1>ArchiveOwed, <1>Drops, <1>Ask, <1>Open, <1>Park, <1>Archive, <1>Mark,
       <1>Stop, <1>Invalidate, <1>Reattach
    DEF Next, Owed, AgentSteps, Going, Start, RunQueue, Call
-----------------------------------------------------------------------------
(* The same for the callers.                                               *)
Pcs == {"idle", "knock", "look", "reserve", "evict", "evicting", "publish",
        "mark", "marked", "say"}

LEMMA TaskSet ==
  ASSUME NEW x \in Tasks, NEW p \in Pcs
  PROVE  /\ [x EXCEPT !.pc = p] \in Tasks
         /\ \A s \in Sides \cup {Nothing} :
              [x EXCEPT !.pc = p, !.side = s] \in Tasks
         /\ \A n \in Int : [x EXCEPT !.pc = p, !.lease = n] \in Tasks
         /\ \A b \in BOOLEAN : [x EXCEPT !.pc = p, !.prior = b] \in Tasks
  <1>1. [x EXCEPT !.pc = p] \in Tasks
    BY ZenonT(30) DEF Tasks, Pcs
  <1>2. \A s \in Sides \cup {Nothing} :
          [x EXCEPT !.pc = p, !.side = s] \in Tasks
    BY ZenonT(30) DEF Tasks, Pcs
  <1>3. \A n \in Int : [x EXCEPT !.pc = p, !.lease = n] \in Tasks
    BY ZenonT(30) DEF Tasks, Pcs
  <1>4. \A b \in BOOLEAN : [x EXCEPT !.pc = p, !.prior = b] \in Tasks
    BY ZenonT(30) DEF Tasks, Pcs
  <1> QED
    BY Zenon, <1>1, <1>2, <1>3, <1>4

LEMMA TaskNew ==
  ASSUME NEW t \in Threads, NEW l \in Lines
  PROVE  /\ Idle \in Tasks
         /\ \A b \in BOOLEAN :
              [Idle EXCEPT !.pc = "knock", !.thread = t, !.line = l,
                           !.continuing = b] \in Tasks
         /\ [Idle EXCEPT !.pc = "knock", !.thread = t, !.line = l] \in Tasks
         /\ \A n \in Int :
              [Idle EXCEPT !.pc = "reserve", !.thread = t, !.line = l,
                           !.lease = n] \in Tasks
  <1>1. Idle \in Tasks
    BY DEF Idle, Tasks, Sides, Nothing
  <1>2. ASSUME NEW b \in BOOLEAN
        PROVE  [Idle EXCEPT !.pc = "knock", !.thread = t, !.line = l,
                           !.continuing = b] \in Tasks
    BY <1>1, ZenonT(30) DEF Tasks
  <1>3. [Idle EXCEPT !.pc = "knock", !.thread = t, !.line = l] \in Tasks
    BY <1>1, ZenonT(30) DEF Tasks
  <1>4. ASSUME NEW n \in Int
        PROVE  [Idle EXCEPT !.pc = "reserve", !.thread = t, !.line = l,
                           !.lease = n] \in Tasks
    BY <1>1, ZenonT(30) DEF Tasks
  <1> QED
    BY Zenon, <1>1, <1>2, <1>3, <1>4

LEMMA IdleTyped == Idle \in Tasks
  BY DEF Idle, Tasks, Sides, Nothing

LEMMA OneCaller ==
  ASSUME CallerTypes, NEW k, NEW v \in Tasks,
         caller' = [caller EXCEPT ![k] = v]
  PROVE  CallerTypes'
  BY DEF CallerTypes

LEMMA CallersTyped ==
  ASSUME Types, Known, Next
  PROVE  CallerTypes'
  <1>0. /\ CallerTypes
        /\ \A k \in Callers : caller[k] \in Tasks /\ caller[k].side \in Sides \cup {Nothing}
        /\ epoch \in Int /\ live \in [Threads -> Sides \cup {Nothing}]
    BY DEF Types, CallerTypes, Tasks, RoomTypes
  <1>LetGo. ASSUME NEW s \in Sides, LetGo(s)
       PROVE  CallerTypes'
    BY <1>0, <1>LetGo DEF LetGo, CallerTypes, room, tasks, rest, archives
  <1>WriteEnd. ASSUME NEW s \in Sides, WriteEnd(s)
       PROVE  CallerTypes'
    BY <1>0, <1>WriteEnd DEF WriteEnd, CallerTypes, room, tasks, rest, archives
  <1>Leave. ASSUME NEW s \in Sides, Leave(s)
       PROVE  CallerTypes'
    BY <1>0, <1>Leave DEF Leave, CallerTypes, room, tasks, rest, archives
  <1>Marked. ASSUME NEW s \in Sides, Marked(s)
       PROVE  CallerTypes'
    BY <1>0, <1>Marked DEF Marked, CallerTypes, room, tasks, rest, archives
  <1>Built. ASSUME NEW s \in Sides, Built(s)
       PROVE  CallerTypes'
    BY <1>0, <1>Built DEF Built, CallerTypes, room, tasks, rest, archives
  <1>LooksUp. ASSUME NEW s \in Sides, LooksUp(s)
       PROVE  CallerTypes'
    BY <1>0, <1>LooksUp DEF LooksUp, CallerTypes, room, tasks, rest, archives
  <1>TakesFirst. ASSUME NEW s \in Sides, TakesFirst(s)
       PROVE  CallerTypes'
    BY <1>0, <1>TakesFirst DEF TakesFirst, CallerTypes, room, tasks, rest, archives
  <1>StartFails. ASSUME NEW s \in Sides, StartFails(s)
       PROVE  CallerTypes'
    BY <1>0, <1>StartFails DEF StartFails, CallerTypes, room, tasks, rest, archives
  <1>Drop. ASSUME NEW s \in Sides, Drop(s)
       PROVE  CallerTypes'
    BY <1>0, <1>Drop DEF Drop, CallerTypes, room, tasks, rest, archives
  <1>Begin. ASSUME NEW r \in Runners, Begin(r)
       PROVE  CallerTypes'
    BY <1>0, <1>Begin DEF Begin, CallerTypes, room, tasks, rest, archives
  <1>EndTurn. ASSUME NEW r \in Runners, EndTurn(r)
       PROVE  CallerTypes'
    BY <1>0, <1>EndTurn DEF EndTurn, CallerTypes, room, tasks, rest, archives
  <1>Stops. ASSUME NEW r \in Runners, Stops(r)
       PROVE  CallerTypes'
    BY <1>0, <1>Stops DEF Stops, CallerTypes, room, tasks, rest, archives
  <1>NextLine. ASSUME NEW r \in Runners, NextLine(r)
       PROVE  CallerTypes'
    BY <1>0, <1>NextLine DEF NextLine, CallerTypes, room, tasks, rest, archives
  <1>Rests. ASSUME NEW r \in Runners, Rests(r)
       PROVE  CallerTypes'
    BY <1>0, <1>Rests DEF Rests, CallerTypes, room, tasks, rest, archives
  <1>Reopen. ASSUME NEW k \in Callers, Reopen(k)
       PROVE  CallerTypes'
    <2>1. PICK c \in carried :
            caller' = [caller EXCEPT ![k] = [Idle EXCEPT !.pc = "knock",
                                             !.thread = c[1], !.line = c[2]]]
      BY Zenon, <1>Reopen DEF Reopen
    <2>2. c[1] \in Threads /\ c[2] \in Lines
      BY DEF Types, RoomTypes
    <2> DEFINE v == [Idle EXCEPT !.pc = "knock", !.thread = c[1],
                                 !.line = c[2]]
    <2>3. v \in Tasks
      BY Zenon, <2>2, TaskNew
    <2>4. caller' = [caller EXCEPT ![k] = v]
      BY <2>1
    <2> HIDE DEF v
    <2> QED
      BY Zenon, <1>0, <2>3, <2>4, OneCaller
  <1>Admitted. ASSUME NEW k \in Callers, Admitted(k)
       PROVE  CallerTypes'
    <2> DEFINE v == [caller[k] EXCEPT !.pc = "look"]
    <2>a. v \in Tasks
      BY Zenon, <1>0, TaskSet DEF Pcs
    <2>b. caller' = [caller EXCEPT ![k] = v]
      BY <1>0, <1>Admitted DEF Admitted, At, Goes, CallerTypes, Tasks
    <2> HIDE DEF v
    <2> QED
      BY Zenon, <1>0, <2>a, <2>b, OneCaller
  <1>Looks. ASSUME NEW k \in Callers, Looks(k)
       PROVE  CallerTypes'
    <2>1. CASE Refuses(k)
      BY <1>0, <2>1, IdleTyped, OneCaller DEF Refuses, Leaves
    <2>2. CASE ~Refuses(k)
      <3> DEFINE x == live[caller[k].thread]
                 u == [caller[k] EXCEPT !.pc = "say", !.side = x]
                 v == [caller[k] EXCEPT !.pc = "reserve", !.lease = epoch]
      <3>1. caller' = [caller EXCEPT ![k] = u] \/ caller' = [caller EXCEPT ![k] = v]
        BY <1>Looks, <2>2 DEF Looks
      <3>2. x \in Sides \cup {Nothing}
        BY <1>0, <1>Looks DEF Looks, At, Known, CallersAgree
      <3>3. u \in Tasks
        <4> HIDE DEF x
        <4> QED
          BY Zenon, <1>0, <3>2, TaskSet DEF Pcs
      <3>4. v \in Tasks
        BY Zenon, <1>0, TaskSet DEF Pcs
      <3> HIDE DEF u, v
      <3> QED
        BY <1>0, <3>1, <3>3, <3>4, OneCaller
    <2> QED
      BY <2>1, <2>2
  <1>Reserve. ASSUME NEW k \in Callers, Reserve(k)
       PROVE  CallerTypes'
    <2>1. CASE Refuses(k)
      BY <1>0, <2>1, IdleTyped, OneCaller DEF Refuses, Leaves
    <2>2. CASE Places < scene.places
      <3> DEFINE b == link[caller[k].thread] = "closed"
                 v == [caller[k] EXCEPT !.pc = "publish", !.prior = b]
      <3>1. v \in Tasks
        <4>1. b \in BOOLEAN
          OBVIOUS
        <4> HIDE DEF b
        <4> QED
          BY Zenon, <1>0, <4>1, TaskSet DEF Pcs
      <3>2. caller' = [caller EXCEPT ![k] = v]
        BY <1>Reserve, <2>2 DEF Reserve
      <3> HIDE DEF v
      <3> QED
        BY <1>0, <3>1, <3>2, OneCaller
    <2>3. CASE ~(Places < scene.places) /\ ~Refuses(k)
      <3>1. PICK t \in Held :
              caller' = [caller EXCEPT ![k].pc = "evict", ![k].side = live[t]]
        BY <1>Reserve, <2>3 DEF Reserve
      <3> DEFINE x == live[t]
                 v == [caller[k] EXCEPT !.pc = "evict", !.side = x]
      <3>2. x \in Sides \cup {Nothing}
        BY <1>0 DEF Held
      <3>3. v \in Tasks
        <4> HIDE DEF x
        <4> QED
          BY Zenon, <1>0, <3>2, TaskSet DEF Pcs
      <3>4. caller' = [caller EXCEPT ![k] = v]
        BY <3>1
      <3> HIDE DEF v
      <3> QED
        BY <1>0, <3>3, <3>4, OneCaller
    <2> QED
      BY <2>1, <2>2, <2>3
  <1>Evict. ASSUME NEW k \in Callers, Evict(k)
       PROVE  CallerTypes'
    <2> DEFINE v(p) == [caller[k] EXCEPT !.pc = p]
    <2>1. v("reserve") \in Tasks /\ v("evicting") \in Tasks
      BY Zenon, <1>0, TaskSet DEF Pcs
    <2>2. \/ caller' = [caller EXCEPT ![k] = v("reserve")]
          \/ caller' = [caller EXCEPT ![k] = v("evicting")]
      BY <1>Evict DEF Evict, Goes
    <2> HIDE DEF v
    <2> QED
      BY Zenon, <1>0, <2>1, <2>2, OneCaller
  <1>Evicted. ASSUME NEW k \in Callers, Evicted(k)
       PROVE  CallerTypes'
    <2> DEFINE v == [caller[k] EXCEPT !.pc = "reserve"]
    <2>a. v \in Tasks
      BY Zenon, <1>0, TaskSet DEF Pcs
    <2>b. caller' = [caller EXCEPT ![k] = v]
      BY <1>0, <1>Evicted DEF Evicted, At, Goes, CallerTypes, Tasks
    <2> HIDE DEF v
    <2> QED
      BY <1>0, <2>a, <2>b, OneCaller
  <1>Publish. ASSUME NEW k \in Callers, Publish(k)
       PROVE  CallerTypes'
    <2>1. CASE Current(k)
      <3> DEFINE x == made'
                 v == [caller[k] EXCEPT !.pc = "mark", !.side = x]
      <3>1. x \in Sides
        BY BoundsAssumption, <1>Publish, <2>1 DEF Publish, Types, RoomTypes, Sides
      <3>2. v \in Tasks
        <4> HIDE DEF x
        <4> QED
          BY Zenon, <1>0, <3>1, TaskSet DEF Pcs
      <3>3. caller' = [caller EXCEPT ![k] = v]
        BY <1>Publish, <2>1 DEF Publish
      <3> HIDE DEF v
      <3> QED
        BY <1>0, <3>2, <3>3, OneCaller
    <2>2. CASE ~Current(k)
      BY <1>0, <1>Publish, <2>2, IdleTyped, OneCaller DEF Publish, Refuses, Leaves
    <2> QED
      BY <2>1, <2>2
  <1>MarksLive. ASSUME NEW k \in Callers, MarksLive(k)
       PROVE  CallerTypes'
    <2> DEFINE v == [caller[k] EXCEPT !.pc = "marked"]
    <2>a. v \in Tasks
      BY Zenon, <1>0, TaskSet DEF Pcs
    <2>b. caller' = [caller EXCEPT ![k] = v]
      BY <1>0, <1>MarksLive DEF MarksLive, At, Goes, Markable, CallerTypes, Tasks
    <2> HIDE DEF v
    <2> QED
      BY <1>0, <2>a, <2>b, OneCaller
  <1>BroughtUp. ASSUME NEW k \in Callers, BroughtUp(k)
       PROVE  CallerTypes'
    <2> DEFINE v == [caller[k] EXCEPT !.pc = "say"]
    <2>a. v \in Tasks
      BY Zenon, <1>0, TaskSet DEF Pcs
    <2>b. caller' = [caller EXCEPT ![k] = v]
      BY <1>0, <1>BroughtUp DEF BroughtUp, At, Goes, GivesBack, CallerTypes, Tasks
    <2> HIDE DEF v
    <2> QED
      BY <1>0, <2>a, <2>b, OneCaller
  <1>Say. ASSUME NEW k \in Callers, Say(k)
       PROVE  CallerTypes'
    BY <1>0, <1>Say, IdleTyped, OneCaller DEF Say, Leaves
  <1>ArchiveOwed. ASSUME NEW t \in Threads, ArchiveOwed(t)
       PROVE  CallerTypes'
    BY <1>0, <1>ArchiveOwed DEF ArchiveOwed, CallerTypes, room, tasks, rest, archives
  <1>Drops. ASSUME Drops
       PROVE  CallerTypes'
    BY <1>0, <1>Drops DEF Drops, CallerTypes, room, tasks, rest, archives
  <1>Ask. ASSUME NEW k \in Callers, NEW t \in Threads, NEW l \in Lines,
                 NEW c \in BOOLEAN, Ask(k, t, l, c)
       PROVE  CallerTypes'
    <2> DEFINE v == [Idle EXCEPT !.pc = "knock", !.thread = t, !.line = l,
                                 !.continuing = c]
    <2>1. v \in Tasks
      BY Zenon, TaskNew
    <2>2. caller' = [caller EXCEPT ![k] = v]
      BY <1>Ask DEF Ask
    <2> HIDE DEF v
    <2> QED
      BY Zenon, <1>0, <2>1, <2>2, OneCaller
  <1>Open. ASSUME NEW k \in Callers, NEW t \in Threads, NEW l \in Lines, Open(k, t, l)
       PROVE  CallerTypes'
    <2> DEFINE v == [Idle EXCEPT !.pc = "reserve", !.thread = t, !.line = l,
                                 !.lease = epoch]
    <2>1. v \in Tasks
      BY Zenon, <1>0, TaskNew
    <2>2. caller' = [caller EXCEPT ![k] = v]
      BY <1>Open DEF Open
    <2> HIDE DEF v
    <2> QED
      BY Zenon, <1>0, <2>1, <2>2, OneCaller
  <1>Park. ASSUME NEW t \in Threads, Park(t)
       PROVE  CallerTypes'
    BY <1>0, <1>Park DEF Park, CallerTypes, room, tasks, rest, archives
  <1>Archive. ASSUME NEW t \in Threads, Archive(t)
       PROVE  CallerTypes'
    BY <1>0, <1>Archive DEF Archive, CallerTypes, room, tasks, rest, archives
  <1>Mark. ASSUME NEW s \in Sides, Mark(s)
       PROVE  CallerTypes'
    BY <1>0, <1>Mark DEF Mark, CallerTypes, room, tasks, rest, archives
  <1>Stop. ASSUME NEW s \in Sides, Stop(s)
       PROVE  CallerTypes'
    BY <1>0, <1>Stop DEF Stop, CallerTypes, room, tasks, rest, archives
  <1>Invalidate. ASSUME Invalidate
       PROVE  CallerTypes'
    BY <1>0, <1>Invalidate DEF Invalidate, CallerTypes, room, tasks, rest, archives
  <1>Reattach. ASSUME Reattach
       PROVE  CallerTypes'
    BY <1>0, <1>Reattach DEF Reattach, CallerTypes, room, tasks, rest, archives
  <1> QED
    BY <1>LetGo, <1>WriteEnd, <1>Leave, <1>Marked, <1>Built, <1>LooksUp,
       <1>TakesFirst, <1>StartFails, <1>Drop, <1>Begin, <1>EndTurn, <1>Stops,
       <1>NextLine, <1>Rests, <1>Reopen, <1>Admitted, <1>Looks, <1>Reserve,
       <1>Evict, <1>Evicted, <1>Publish, <1>MarksLive, <1>BroughtUp, <1>Say,
       <1>ArchiveOwed, <1>Drops, <1>Ask, <1>Open, <1>Park, <1>Archive, <1>Mark,
       <1>Stop, <1>Invalidate, <1>Reattach
    DEF Next, Owed, AgentSteps, Going, Start, RunQueue, Call
-----------------------------------------------------------------------------
(* The same for the runners.                                               *)
LEMMA LoopSet ==
  ASSUME NEW s \in Sides, NEW l \in Lines
  PROVE  /\ Free \in Loops
         /\ [Free EXCEPT !.pc = "door", !.side = s, !.line = l] \in Loops
         /\ \A x \in Loops :
              /\ \A p \in {"door", "turn", "next", "stop", "rest"} :
                   [x EXCEPT !.pc = p] \in Loops
              /\ \A b \in BOOLEAN : [x EXCEPT !.pc = "stop", !.ending = b] \in Loops
              /\ [x EXCEPT !.pc = "door", !.line = l] \in Loops
  <1>1. /\ Free \in Loops
        /\ [Free EXCEPT !.pc = "door", !.side = s, !.line = l] \in Loops
    BY DEF Free, Loops
  <1>2. ASSUME NEW x \in Loops
        PROVE  /\ \A p \in {"door", "turn", "next", "stop", "rest"} :
                   [x EXCEPT !.pc = p] \in Loops
               /\ \A b \in BOOLEAN : [x EXCEPT !.pc = "stop", !.ending = b] \in Loops
               /\ [x EXCEPT !.pc = "door", !.line = l] \in Loops
    BY Zenon DEF Loops
  <1> QED
    BY Zenon, <1>1, <1>2

LEMMA OneRunner ==
  ASSUME RunnerTypes, NEW r, NEW v \in Loops,
         runner' = [runner EXCEPT ![r] = v]
  PROVE  RunnerTypes'
  BY DEF RunnerTypes


LEMMA RunnersTyped ==
  ASSUME Types, Known, Next
  PROVE  RunnerTypes'
  <1>0. /\ RunnerTypes /\ SideTypes
        /\ \A r \in Runners : runner[r] \in Loops
        /\ \A s \in Sides : side[s].waiting \in Seq(Lines)
    BY DEF Types, RunnerTypes, SideTypes, LiveSides
  <1>1. Made \subseteq Sides
    BY MadeSides DEF Types
  <1>2. ASSUME NEW r \in Runners, runner[r].pc # "free"
        PROVE  runner[r].side \in Sides /\ runner[r].line \in Lines
    BY <1>1, <1>2 DEF Known, Unborn
  <1>3. ASSUME NEW r \in Runners, NEW p \in {"door", "turn", "next", "stop", "rest"},
               runner[r].pc # "free", Runs(r, p)
        PROVE  RunnerTypes'
    <2> DEFINE v == [runner[r] EXCEPT !.pc = p]
    <2>1. v \in Loops
      BY Zenon, <1>0, <1>2, <1>3, LoopSet
    <2>2. runner' = [runner EXCEPT ![r] = v]
      BY <1>3 DEF Runs
    <2> HIDE DEF v
    <2> QED
      BY Zenon, <1>0, <2>1, <2>2, OneRunner
  <1>LetGo. ASSUME NEW s \in Sides, LetGo(s)
       PROVE  RunnerTypes'
    BY <1>0, <1>LetGo DEF LetGo, RunnerTypes, room, tasks, rest, archives
  <1>WriteEnd. ASSUME NEW s \in Sides, WriteEnd(s)
       PROVE  RunnerTypes'
    BY <1>0, <1>WriteEnd DEF WriteEnd, RunnerTypes, room, tasks, rest, archives
  <1>Leave. ASSUME NEW s \in Sides, Leave(s)
       PROVE  RunnerTypes'
    BY <1>0, <1>Leave DEF Leave, RunnerTypes, room, tasks, rest, archives
  <1>Marked. ASSUME NEW s \in Sides, Marked(s)
       PROVE  RunnerTypes'
    BY <1>0, <1>Marked DEF Marked, RunnerTypes, room, tasks, rest, archives
  <1>Built. ASSUME NEW s \in Sides, Built(s)
       PROVE  RunnerTypes'
    BY <1>0, <1>Built DEF Built, RunnerTypes, room, tasks, rest, archives
  <1>LooksUp. ASSUME NEW s \in Sides, LooksUp(s)
       PROVE  RunnerTypes'
    BY <1>0, <1>LooksUp DEF LooksUp, RunnerTypes, room, tasks, rest, archives
  <1>TakesFirst. ASSUME NEW s \in Sides, TakesFirst(s)
       PROVE  RunnerTypes'
    <2>0. s \in Sides
      OBVIOUS
    <2>1. CASE UNCHANGED runner
      BY <1>0, <2>1 DEF RunnerTypes
    <2>2. CASE side[s].waiting # <<>>
      <3> DEFINE l == Head(side[s].waiting)
                 v == [Free EXCEPT !.pc = "door", !.side = s, !.line = l]
      <3>1. l \in Lines
        BY <1>0, <2>2, Queues
      <3>2. v \in Loops
        <4> HIDE DEF l
        <4> QED
          BY Zenon, <2>0, <3>1, LoopSet
      <3>3. PICK r \in Runners : runner' = [runner EXCEPT ![r] = v]
        BY <1>TakesFirst, <2>2 DEF TakesFirst
      <3> HIDE DEF v
      <3> QED
        BY Zenon, <1>0, <3>2, <3>3, OneRunner
    <2> QED
      BY <1>TakesFirst, <2>1, <2>2 DEF TakesFirst
  <1>StartFails. ASSUME NEW s \in Sides, StartFails(s)
       PROVE  RunnerTypes'
    BY <1>0, <1>StartFails DEF StartFails, RunnerTypes, room, tasks, rest, archives
  <1>Drop. ASSUME NEW s \in Sides, Drop(s)
       PROVE  RunnerTypes'
    BY <1>0, <1>Drop DEF Drop, RunnerTypes, room, tasks, rest, archives
  <1>Begin. ASSUME NEW r \in Runners, Begin(r)
       PROVE  RunnerTypes'
    BY <1>0, <1>3, <1>Begin DEF Begin, Fate
  <1>EndTurn. ASSUME NEW r \in Runners, EndTurn(r)
       PROVE  RunnerTypes'
    <2>1. CASE Runs(r, "next")
      BY <1>3, <1>EndTurn, <2>1 DEF EndTurn
    <2>2. CASE ~Runs(r, "next")
      <3> DEFINE b == side[runner[r].side].phase = "open"
                 v == [runner[r] EXCEPT !.pc = "stop", !.ending = b]
      <3>1. v \in Loops
        <4>1. b \in BOOLEAN
          OBVIOUS
        <4>2. runner[r].side \in Sides /\ runner[r].line \in Lines
          BY <1>2, <1>EndTurn DEF EndTurn
        <4> HIDE DEF b
        <4> QED
          BY Zenon, <1>0, <4>1, <4>2, LoopSet
      <3>2. runner' = [runner EXCEPT ![r] = v]
        BY <1>EndTurn, <2>2 DEF EndTurn
      <3> HIDE DEF v
      <3> QED
        BY Zenon, <1>0, <3>1, <3>2, OneRunner
    <2> QED
      BY <2>1, <2>2
  <1>Stops. ASSUME NEW r \in Runners, Stops(r)
       PROVE  RunnerTypes'
    BY <1>0, <1>3, <1>Stops DEF Stops, Fate
  <1>NextLine. ASSUME NEW r \in Runners, NextLine(r)
       PROVE  RunnerTypes'
    <2> DEFINE s == runner[r].side
    <2>0. s \in Sides
      BY <1>2, <1>NextLine DEF NextLine
    <2>1. CASE side[s].waiting = <<>>
      BY <1>3, <1>NextLine, <2>1 DEF NextLine
    <2>2. CASE side[s].waiting # <<>>
      <3> DEFINE l == Head(side[s].waiting)
                 v == [runner[r] EXCEPT !.pc = "door", !.line = l]
      <3>1. l \in Lines
        BY <1>0, <2>0, <2>2, Queues
      <3>2. v \in Loops
        <4> HIDE DEF l
        <4> QED
          BY Zenon, <1>0, <2>0, <3>1, LoopSet
      <3>3. runner' = [runner EXCEPT ![r] = v]
        BY <1>NextLine, <2>2 DEF NextLine
      <3> HIDE DEF v
      <3> QED
        BY Zenon, <1>0, <3>2, <3>3, OneRunner
    <2> QED
      BY <2>1, <2>2
  <1>Rests. ASSUME NEW r \in Runners, Rests(r)
       PROVE  RunnerTypes'
    <2>1. Free \in Loops
      BY DEF Free, Loops, Sides, Nothing
    <2> QED
      BY <1>0, <1>Rests, <2>1, OneRunner DEF Rests
  <1>Reopen. ASSUME NEW k \in Callers, Reopen(k)
       PROVE  RunnerTypes'
    BY <1>0, <1>Reopen DEF Reopen, RunnerTypes, room, tasks, rest, archives
  <1>Admitted. ASSUME NEW k \in Callers, Admitted(k)
       PROVE  RunnerTypes'
    BY <1>0, <1>Admitted DEF Admitted, RunnerTypes, room, tasks, rest, archives
  <1>Looks. ASSUME NEW k \in Callers, Looks(k)
       PROVE  RunnerTypes'
    BY <1>0, <1>Looks DEF Looks, RunnerTypes, room, tasks, rest, archives
  <1>Reserve. ASSUME NEW k \in Callers, Reserve(k)
       PROVE  RunnerTypes'
    BY <1>0, <1>Reserve DEF Reserve, RunnerTypes, room, tasks, rest, archives
  <1>Evict. ASSUME NEW k \in Callers, Evict(k)
       PROVE  RunnerTypes'
    BY <1>0, <1>Evict DEF Evict, RunnerTypes, room, tasks, rest, archives
  <1>Evicted. ASSUME NEW k \in Callers, Evicted(k)
       PROVE  RunnerTypes'
    BY <1>0, <1>Evicted DEF Evicted, RunnerTypes, room, tasks, rest, archives
  <1>Publish. ASSUME NEW k \in Callers, Publish(k)
       PROVE  RunnerTypes'
    BY <1>0, <1>Publish DEF Publish, RunnerTypes, room, tasks, rest, archives
  <1>MarksLive. ASSUME NEW k \in Callers, MarksLive(k)
       PROVE  RunnerTypes'
    BY <1>0, <1>MarksLive DEF MarksLive, RunnerTypes, room, tasks, rest, archives
  <1>BroughtUp. ASSUME NEW k \in Callers, BroughtUp(k)
       PROVE  RunnerTypes'
    BY <1>0, <1>BroughtUp DEF BroughtUp, RunnerTypes, room, tasks, rest, archives
  <1>Say. ASSUME NEW k \in Callers, Say(k)
       PROVE  RunnerTypes'
    <2> DEFINE s == caller[k].side
    <2>0. s \in Sides /\ caller[k].line \in Lines
      BY <1>1, <1>Say DEF Say, At, Known, CallersAgree
    <2>1. CASE UNCHANGED runner
      BY <1>0, <2>1 DEF RunnerTypes
    <2>2. CASE ~UNCHANGED runner
      <3> DEFINE l == caller[k].line
                 v == [Free EXCEPT !.pc = "door", !.side = s, !.line = l]
      <3>1. l \in Lines
        BY <2>0
      <3>2. v \in Loops
        <4> HIDE DEF l
        <4> QED
          BY Zenon, <2>0, <3>1, LoopSet
      <3>3. PICK r \in Runners : runner' = [runner EXCEPT ![r] = v]
        BY <1>Say, <2>2 DEF Say, Queue, Claim
      <3> HIDE DEF v
      <3> QED
        BY Zenon, <1>0, <3>2, <3>3, OneRunner
    <2> QED
      BY <2>1, <2>2
  <1>ArchiveOwed. ASSUME NEW t \in Threads, ArchiveOwed(t)
       PROVE  RunnerTypes'
    BY <1>0, <1>ArchiveOwed DEF ArchiveOwed, RunnerTypes, room, tasks, rest, archives
  <1>Drops. ASSUME Drops
       PROVE  RunnerTypes'
    BY <1>0, <1>Drops DEF Drops, RunnerTypes, room, tasks, rest, archives
  <1>Ask. ASSUME NEW k \in Callers, NEW t \in Threads, NEW l \in Lines,
                 NEW c \in BOOLEAN, Ask(k, t, l, c)
       PROVE  RunnerTypes'
    BY <1>0, <1>Ask DEF Ask, RunnerTypes, room, tasks, rest, archives
  <1>Open. ASSUME NEW k \in Callers, NEW t \in Threads, NEW l \in Lines, Open(k, t, l)
       PROVE  RunnerTypes'
    BY <1>0, <1>Open DEF Open, RunnerTypes, room, tasks, rest, archives
  <1>Park. ASSUME NEW t \in Threads, Park(t)
       PROVE  RunnerTypes'
    BY <1>0, <1>Park DEF Park, RunnerTypes, room, tasks, rest, archives
  <1>Archive. ASSUME NEW t \in Threads, Archive(t)
       PROVE  RunnerTypes'
    BY <1>0, <1>Archive DEF Archive, RunnerTypes, room, tasks, rest, archives
  <1>Mark. ASSUME NEW s \in Sides, Mark(s)
       PROVE  RunnerTypes'
    BY <1>0, <1>Mark DEF Mark, RunnerTypes, room, tasks, rest, archives
  <1>Stop. ASSUME NEW s \in Sides, Stop(s)
       PROVE  RunnerTypes'
    BY <1>0, <1>Stop DEF Stop, RunnerTypes, room, tasks, rest, archives
  <1>Invalidate. ASSUME Invalidate
       PROVE  RunnerTypes'
    BY <1>0, <1>Invalidate DEF Invalidate, RunnerTypes, room, tasks, rest, archives
  <1>Reattach. ASSUME Reattach
       PROVE  RunnerTypes'
    BY <1>0, <1>Reattach DEF Reattach, RunnerTypes, room, tasks, rest, archives
  <1> QED
    BY <1>LetGo, <1>WriteEnd, <1>Leave, <1>Marked, <1>Built, <1>LooksUp,
       <1>TakesFirst, <1>StartFails, <1>Drop, <1>Begin, <1>EndTurn, <1>Stops,
       <1>NextLine, <1>Rests, <1>Reopen, <1>Admitted, <1>Looks, <1>Reserve,
       <1>Evict, <1>Evicted, <1>Publish, <1>MarksLive, <1>BroughtUp, <1>Say,
       <1>ArchiveOwed, <1>Drops, <1>Ask, <1>Open, <1>Park, <1>Archive, <1>Mark,
       <1>Stop, <1>Invalidate, <1>Reattach
    DEF Next, Owed, AgentSteps, Going, Start, RunQueue, Call
-----------------------------------------------------------------------------
(* The types of everything else, and of the fate of each line.             *)
LEMMA RoomTyped ==
  ASSUME Types, Known, Next
  PROVE  RoomTypes'
  <1> USE DEF Types
  <1>0. RoomTypes
    OBVIOUS
  <1>1. Made \subseteq Sides
    BY MadeSides
  <1>LetGo. ASSUME NEW s \in Sides, LetGo(s)
       PROVE  RoomTypes'
    BY BoundsAssumption, NoneAssumption, <1>LetGo
    DEF RoomTypes, StarterTypes, LetGo, Fate, Dropped, room, tasks, rest,
        archives
  <1>WriteEnd. ASSUME NEW s \in Sides, WriteEnd(s)
       PROVE  RoomTypes'
    BY BoundsAssumption, NoneAssumption, <1>WriteEnd
    DEF RoomTypes, StarterTypes, WriteEnd, Writes, room, tasks, rest, archives
  <1>Leave. ASSUME NEW s \in Sides, Leave(s)
       PROVE  RoomTypes'
    BY BoundsAssumption, NoneAssumption, <1>Leave
    DEF RoomTypes, StarterTypes, Leave, room, tasks, rest, archives
  <1>Marked. ASSUME NEW s \in Sides, Marked(s)
       PROVE  RoomTypes'
    BY BoundsAssumption, NoneAssumption, <1>Marked
    DEF RoomTypes, StarterTypes, Marked, room, tasks, rest, archives
  <1>Built. ASSUME NEW s \in Sides, Built(s)
       PROVE  RoomTypes'
    BY BoundsAssumption, NoneAssumption, <1>Built
    DEF RoomTypes, StarterTypes, Built, room, tasks, rest, archives
  <1>LooksUp. ASSUME NEW s \in Sides, LooksUp(s)
       PROVE  RoomTypes'
    BY BoundsAssumption, NoneAssumption, <1>LooksUp
    DEF RoomTypes, StarterTypes, LooksUp, room, tasks, rest, archives
  <1>TakesFirst. ASSUME NEW s \in Sides, TakesFirst(s)
       PROVE  RoomTypes'
    BY BoundsAssumption, NoneAssumption, <1>TakesFirst
    DEF RoomTypes, StarterTypes, TakesFirst, Free, room, tasks, rest, archives
  <1>StartFails. ASSUME NEW s \in Sides, StartFails(s)
       PROVE  RoomTypes'
    BY BoundsAssumption, NoneAssumption, <1>StartFails
    DEF RoomTypes, StarterTypes, StartFails, Ends, Claims, room, tasks, rest,
        archives
  <1>Drop. ASSUME NEW s \in Sides, Drop(s)
       PROVE  RoomTypes'
    BY BoundsAssumption, NoneAssumption, <1>Drop
    DEF RoomTypes, StarterTypes, Drop, Ends, Claims, room, tasks, rest, archives
  <1>Begin. ASSUME NEW r \in Runners, Begin(r)
       PROVE  RoomTypes'
    BY BoundsAssumption, NoneAssumption, <1>Begin
    DEF RoomTypes, StarterTypes, Begin, Runs, Fate, Dropped, room, tasks, rest,
        archives
  <1>EndTurn. ASSUME NEW r \in Runners, EndTurn(r)
       PROVE  RoomTypes'
    BY BoundsAssumption, NoneAssumption, <1>EndTurn
    DEF RoomTypes, StarterTypes, EndTurn, Runs, Ends, Claims, room, tasks,
        rest, archives
  <1>Stops. ASSUME NEW r \in Runners, Stops(r)
       PROVE  RoomTypes'
    BY BoundsAssumption, NoneAssumption, <1>Stops
    DEF RoomTypes, StarterTypes, Stops, Runs, room, tasks, rest, archives
  <1>NextLine. ASSUME NEW r \in Runners, NextLine(r)
       PROVE  RoomTypes'
    BY BoundsAssumption, NoneAssumption, <1>NextLine
    DEF RoomTypes, StarterTypes, NextLine, Runs, room, tasks, rest, archives
  <1>Rests. ASSUME NEW r \in Runners, Rests(r)
       PROVE  RoomTypes'
    BY BoundsAssumption, NoneAssumption, <1>Rests
    DEF RoomTypes, StarterTypes, Rests, Rest, Free, room, tasks, rest, archives
  <1>Reopen. ASSUME NEW k \in Callers, Reopen(k)
       PROVE  RoomTypes'
    BY BoundsAssumption, NoneAssumption, <1>Reopen
    DEF RoomTypes, StarterTypes, Reopen, At, Idle, room, tasks, rest, archives
  <1>Admitted. ASSUME NEW k \in Callers, Admitted(k)
       PROVE  RoomTypes'
    BY BoundsAssumption, NoneAssumption, <1>Admitted
    DEF RoomTypes, StarterTypes, Admitted, At, Goes, room, tasks, rest, archives
  <1>Looks. ASSUME NEW k \in Callers, Looks(k)
       PROVE  RoomTypes'
    BY BoundsAssumption, NoneAssumption, <1>Looks
    DEF RoomTypes, StarterTypes, Looks, At, Refuses, Leaves, Fate, Idle, room,
        tasks, rest, archives
  <1>Reserve. ASSUME NEW k \in Callers, Reserve(k)
       PROVE  RoomTypes'
    BY BoundsAssumption, NoneAssumption, <1>Reserve
    DEF RoomTypes, StarterTypes, Reserve, At, Refuses, Leaves, Fate, Idle,
        room, tasks, rest, archives
  <1>Evict. ASSUME NEW k \in Callers, Evict(k)
       PROVE  RoomTypes'
    BY BoundsAssumption, NoneAssumption, <1>Evict
    DEF RoomTypes, StarterTypes, Evict, At, Goes, ParkIdle, Claims, room,
        tasks, rest, archives
  <1>Evicted. ASSUME NEW k \in Callers, Evicted(k)
       PROVE  RoomTypes'
    BY BoundsAssumption, NoneAssumption, <1>Evicted
    DEF RoomTypes, StarterTypes, Evicted, At, Goes, room, tasks, rest, archives
  <1>Publish. ASSUME NEW k \in Callers, Publish(k)
       PROVE  RoomTypes'
    <2>1. CASE Current(k)
      <3>1. made' \in 0 .. MaxSides /\ made' \in Sides
        BY BoundsAssumption, <1>Publish, <2>1
        DEF Publish, RoomTypes, StarterTypes, Sides
      <3>2. live' \in [Threads -> Sides \cup {Nothing}]
        BY <1>Publish, <2>1, <3>1 DEF Publish, RoomTypes
      <3> QED
        BY <1>Publish, <2>1, <3>1, <3>2 DEF RoomTypes, StarterTypes, Publish, rest
    <2>2. CASE ~Current(k)
      BY <1>Publish, <2>2
      DEF RoomTypes, StarterTypes, Publish, GivesBack, Refuses, Leaves, rest
    <2> QED
      BY <2>1, <2>2
  <1>MarksLive. ASSUME NEW k \in Callers, MarksLive(k)
       PROVE  RoomTypes'
    BY BoundsAssumption, NoneAssumption, <1>MarksLive
    DEF RoomTypes, StarterTypes, MarksLive, At, Goes, Markable, room, tasks,
        rest, archives
  <1>BroughtUp. ASSUME NEW k \in Callers, BroughtUp(k)
       PROVE  RoomTypes'
    BY BoundsAssumption, NoneAssumption, <1>BroughtUp
    DEF RoomTypes, StarterTypes, BroughtUp, At, Goes, GivesBack, room, tasks,
        rest, archives
  <1>Say. ASSUME NEW k \in Callers, Say(k)
       PROVE  RoomTypes'
    <2>1. caller[k].side \in Made /\ caller[k].line \in Lines
      BY <1>Say DEF Say, Known, CallersAgree, At
    <2>2. caller[k].side \in Sides /\ side[caller[k].side].thread \in Threads
      BY <1>1, <2>1 DEF Known, SidesAgree
    <2>3. carried' \subseteq Threads \X Lines
      BY <1>Say, <2>1, <2>2 DEF Say, Queue, RoomTypes
    <2> QED
      BY <1>Say, <2>1, <2>2, <2>3
      DEF RoomTypes, StarterTypes, Say, Leaves, room, archives, rest
  <1>ArchiveOwed. ASSUME NEW t \in Threads, ArchiveOwed(t)
       PROVE  RoomTypes'
    BY BoundsAssumption, NoneAssumption, <1>ArchiveOwed
    DEF RoomTypes, StarterTypes, ArchiveOwed, Ends, Claims, room, tasks, rest,
        archives
  <1>Drops. ASSUME Drops
       PROVE  RoomTypes'
    <2>1. dropping' \subseteq Sides
      BY <1>Drops DEF RoomTypes, StarterTypes, Drops, Held
    <2> QED
      BY <1>Drops, <2>1 DEF RoomTypes, StarterTypes, Drops, room, tasks, rest, archives
  <1>Ask. ASSUME NEW k \in Callers, NEW t \in Threads, NEW l \in Lines,
                 NEW c \in BOOLEAN, Ask(k, t, l, c)
       PROVE  RoomTypes'
    BY BoundsAssumption, NoneAssumption, <1>Ask
    DEF RoomTypes, StarterTypes, Ask, At, Idle, Fate, room, tasks, rest,
        archives
  <1>Open. ASSUME NEW k \in Callers, NEW t \in Threads, NEW l \in Lines, Open(k, t, l)
       PROVE  RoomTypes'
    BY BoundsAssumption, NoneAssumption, <1>Open
    DEF RoomTypes, StarterTypes, Open, At, Idle, Fate, room, tasks, rest,
        archives
  <1>Park. ASSUME NEW t \in Threads, Park(t)
       PROVE  RoomTypes'
    BY BoundsAssumption, NoneAssumption, <1>Park
    DEF RoomTypes, StarterTypes, Park, ParkIdle, Claims, room, tasks, rest,
        archives
  <1>Archive. ASSUME NEW t \in Threads, Archive(t)
       PROVE  RoomTypes'
    BY BoundsAssumption, NoneAssumption, <1>Archive
    DEF RoomTypes, StarterTypes, Archive, CloseSide, Ends, Claims, room, tasks,
        rest, archives
  <1>Mark. ASSUME NEW s \in Sides, Mark(s)
       PROVE  RoomTypes'
    BY BoundsAssumption, NoneAssumption, <1>Mark
    DEF RoomTypes, StarterTypes, Mark, Markable, InRoom, room, tasks, rest,
        archives
  <1>Stop. ASSUME NEW s \in Sides, Stop(s)
       PROVE  RoomTypes'
    BY BoundsAssumption, NoneAssumption, <1>Stop
    DEF RoomTypes, StarterTypes, Stop, Fate, room, tasks, rest, archives
  <1>Invalidate. ASSUME Invalidate
       PROVE  RoomTypes'
    BY BoundsAssumption, NoneAssumption, <1>Invalidate
    DEF RoomTypes, StarterTypes, Invalidate, room, tasks, rest, archives
  <1>Reattach. ASSUME Reattach
       PROVE  RoomTypes'
    BY BoundsAssumption, NoneAssumption, <1>Reattach
    DEF RoomTypes, StarterTypes, Reattach, room, tasks, rest, archives
  <1> QED
    BY <1>LetGo, <1>WriteEnd, <1>Leave, <1>Marked, <1>Built, <1>LooksUp,
       <1>TakesFirst, <1>StartFails, <1>Drop, <1>Begin, <1>EndTurn, <1>Stops,
       <1>NextLine, <1>Rests, <1>Reopen, <1>Admitted, <1>Looks, <1>Reserve,
       <1>Evict, <1>Evicted, <1>Publish, <1>MarksLive, <1>BroughtUp, <1>Say,
       <1>ArchiveOwed, <1>Drops, <1>Ask, <1>Open, <1>Park, <1>Archive, <1>Mark,
       <1>Stop, <1>Invalidate, <1>Reattach
    DEF Next, Owed, AgentSteps, Going, Start, RunQueue, Call

LEMMA LinesTyped ==
  ASSUME LineTypes, Next
  PROVE  LineTypes'
  <1>LetGo. ASSUME NEW s \in Sides, LetGo(s)
       PROVE  LineTypes'
    BY <1>LetGo DEF LineTypes, LetGo, Fate, Dropped, room, tasks, rest, archives
  <1>WriteEnd. ASSUME NEW s \in Sides, WriteEnd(s)
       PROVE  LineTypes'
    BY <1>WriteEnd DEF LineTypes, WriteEnd, Writes, room, tasks, rest, archives
  <1>Leave. ASSUME NEW s \in Sides, Leave(s)
       PROVE  LineTypes'
    BY <1>Leave DEF LineTypes, Leave, room, tasks, rest, archives
  <1>Marked. ASSUME NEW s \in Sides, Marked(s)
       PROVE  LineTypes'
    BY <1>Marked DEF LineTypes, Marked, room, tasks, rest, archives
  <1>Built. ASSUME NEW s \in Sides, Built(s)
       PROVE  LineTypes'
    BY <1>Built DEF LineTypes, Built, room, tasks, rest, archives
  <1>LooksUp. ASSUME NEW s \in Sides, LooksUp(s)
       PROVE  LineTypes'
    BY <1>LooksUp DEF LineTypes, LooksUp, room, tasks, rest, archives
  <1>TakesFirst. ASSUME NEW s \in Sides, TakesFirst(s)
       PROVE  LineTypes'
    BY <1>TakesFirst DEF LineTypes, TakesFirst, Free, room, tasks, rest, archives
  <1>StartFails. ASSUME NEW s \in Sides, StartFails(s)
       PROVE  LineTypes'
    BY <1>StartFails
    DEF LineTypes, StartFails, Ends, Claims, room, tasks, rest, archives
  <1>Drop. ASSUME NEW s \in Sides, Drop(s)
       PROVE  LineTypes'
    BY <1>Drop DEF LineTypes, Drop, Ends, Claims, room, tasks, rest, archives
  <1>Begin. ASSUME NEW r \in Runners, Begin(r)
       PROVE  LineTypes'
    BY <1>Begin DEF LineTypes, Begin, Runs, Fate, Dropped, room, tasks, rest, archives
  <1>EndTurn. ASSUME NEW r \in Runners, EndTurn(r)
       PROVE  LineTypes'
    BY <1>EndTurn
    DEF LineTypes, EndTurn, Runs, Ends, Claims, room, tasks, rest, archives
  <1>Stops. ASSUME NEW r \in Runners, Stops(r)
       PROVE  LineTypes'
    BY <1>Stops DEF LineTypes, Stops, Runs, room, tasks, rest, archives
  <1>NextLine. ASSUME NEW r \in Runners, NextLine(r)
       PROVE  LineTypes'
    BY <1>NextLine DEF LineTypes, NextLine, Runs, room, tasks, rest, archives
  <1>Rests. ASSUME NEW r \in Runners, Rests(r)
       PROVE  LineTypes'
    BY <1>Rests DEF LineTypes, Rests, Rest, Free, room, tasks, rest, archives
  <1>Reopen. ASSUME NEW k \in Callers, Reopen(k)
       PROVE  LineTypes'
    BY <1>Reopen DEF LineTypes, Reopen, At, Idle, room, tasks, rest, archives
  <1>Admitted. ASSUME NEW k \in Callers, Admitted(k)
       PROVE  LineTypes'
    BY <1>Admitted DEF LineTypes, Admitted, At, Goes, room, tasks, rest, archives
  <1>Looks. ASSUME NEW k \in Callers, Looks(k)
       PROVE  LineTypes'
    BY <1>Looks
    DEF LineTypes, Looks, At, Refuses, Leaves, Fate, Idle, room, tasks, rest,
        archives
  <1>Reserve. ASSUME NEW k \in Callers, Reserve(k)
       PROVE  LineTypes'
    BY <1>Reserve
    DEF LineTypes, Reserve, At, Refuses, Leaves, Fate, Idle, room, tasks, rest,
        archives
  <1>Evict. ASSUME NEW k \in Callers, Evict(k)
       PROVE  LineTypes'
    BY <1>Evict
    DEF LineTypes, Evict, At, Goes, ParkIdle, Claims, room, tasks, rest,
        archives
  <1>Evicted. ASSUME NEW k \in Callers, Evicted(k)
       PROVE  LineTypes'
    BY <1>Evicted DEF LineTypes, Evicted, At, Goes, room, tasks, rest, archives
  <1>Publish. ASSUME NEW k \in Callers, Publish(k)
       PROVE  LineTypes'
    BY <1>Publish
    DEF LineTypes, Publish, At, GivesBack, Refuses, Leaves, Fate, Idle, Unmade,
        room, tasks, rest, archives
  <1>MarksLive. ASSUME NEW k \in Callers, MarksLive(k)
       PROVE  LineTypes'
    BY <1>MarksLive
    DEF LineTypes, MarksLive, At, Goes, Markable, room, tasks, rest, archives
  <1>BroughtUp. ASSUME NEW k \in Callers, BroughtUp(k)
       PROVE  LineTypes'
    BY <1>BroughtUp
    DEF LineTypes, BroughtUp, At, Goes, GivesBack, room, tasks, rest, archives
  <1>Say. ASSUME NEW k \in Callers, Say(k)
       PROVE  LineTypes'
    BY <1>Say
    DEF LineTypes, Say, At, Queue, Claim, Free, Leaves, Idle, Fate, room,
        tasks, rest, archives
  <1>ArchiveOwed. ASSUME NEW t \in Threads, ArchiveOwed(t)
       PROVE  LineTypes'
    BY <1>ArchiveOwed
    DEF LineTypes, ArchiveOwed, Ends, Claims, room, tasks, rest, archives
  <1>Drops. ASSUME Drops
       PROVE  LineTypes'
    BY <1>Drops DEF LineTypes, Drops, Held, room, tasks, rest, archives
  <1>Ask. ASSUME NEW k \in Callers, NEW t \in Threads, NEW l \in Lines,
                 NEW c \in BOOLEAN, Ask(k, t, l, c)
       PROVE  LineTypes'
    BY <1>Ask DEF LineTypes, Ask, At, Idle, Fate, room, tasks, rest, archives
  <1>Open. ASSUME NEW k \in Callers, NEW t \in Threads, NEW l \in Lines, Open(k, t, l)
       PROVE  LineTypes'
    BY <1>Open DEF LineTypes, Open, At, Idle, Fate, room, tasks, rest, archives
  <1>Park. ASSUME NEW t \in Threads, Park(t)
       PROVE  LineTypes'
    BY <1>Park DEF LineTypes, Park, ParkIdle, Claims, room, tasks, rest, archives
  <1>Archive. ASSUME NEW t \in Threads, Archive(t)
       PROVE  LineTypes'
    BY <1>Archive
    DEF LineTypes, Archive, CloseSide, Ends, Claims, room, tasks, rest, archives
  <1>Mark. ASSUME NEW s \in Sides, Mark(s)
       PROVE  LineTypes'
    BY <1>Mark DEF LineTypes, Mark, Markable, InRoom, room, tasks, rest, archives
  <1>Stop. ASSUME NEW s \in Sides, Stop(s)
       PROVE  LineTypes'
    BY <1>Stop DEF LineTypes, Stop, Fate, room, tasks, rest, archives
  <1>Invalidate. ASSUME Invalidate
       PROVE  LineTypes'
    BY <1>Invalidate DEF LineTypes, Invalidate, room, tasks, rest, archives
  <1>Reattach. ASSUME Reattach
       PROVE  LineTypes'
    BY <1>Reattach DEF LineTypes, Reattach, room, tasks, rest, archives
  <1> QED
    BY <1>LetGo, <1>WriteEnd, <1>Leave, <1>Marked, <1>Built, <1>LooksUp,
       <1>TakesFirst, <1>StartFails, <1>Drop, <1>Begin, <1>EndTurn, <1>Stops,
       <1>NextLine, <1>Rests, <1>Reopen, <1>Admitted, <1>Looks, <1>Reserve,
       <1>Evict, <1>Evicted, <1>Publish, <1>MarksLive, <1>BroughtUp, <1>Say,
       <1>ArchiveOwed, <1>Drops, <1>Ask, <1>Open, <1>Park, <1>Archive, <1>Mark,
       <1>Stop, <1>Invalidate, <1>Reattach
    DEF Next, Owed, AgentSteps, Going, Start, RunQueue, Call
-----------------------------------------------------------------------------
(* Every step keeps the types.                                             *)
LEMMA TypesKept ==
  ASSUME Types, Known, Next
  PROVE  Types'
  BY SidesTyped, CallersTyped, RunnersTyped, RoomTyped, LinesTyped DEF Types
-----------------------------------------------------------------------------

(* What a step leaves of every live side: how it ends, what it runs, its   *)
(* marks, its agent.                                                       *)
EndsStay == \A q \in Sides : /\ side'[q].thread = side[q].thread
                             /\ side'[q].phase = side[q].phase
                             /\ side'[q].going = side[q].going
                             /\ side'[q].to = side[q].to
                             /\ side'[q].idly = side[q].idly
                             /\ side'[q].lease = side[q].lease
QueuesStay == \A q \in Sides : /\ side'[q].running = side[q].running
                               /\ side'[q].waiting = side[q].waiting
                               /\ side'[q].slipped = side[q].slipped
MarksStay == \A q \in Sides : side'[q].marking = side[q].marking
AgentsStay == \A q \in Sides : side'[q].agent = side[q].agent
SidesStay == EndsStay /\ QueuesStay /\ MarksStay /\ AgentsStay

(* A step about one side, one caller, one runner.                          *)
Only(s) == \A q \in Sides : q # s => side'[q] = side[q]
OnlyCaller(k) == \A j \in Callers : j # k => caller'[j] = caller[j]
OnlyRunner(r) == \A q \in Runners : q # r => runner'[q] = runner[q]

(* A caller goes on, with the same line for the same thread.               *)
GoesOn(k, pc) == /\ OnlyCaller(k)
                 /\ caller'[k].pc = pc
                 /\ caller'[k].thread = caller[k].thread
                 /\ caller'[k].line = caller[k].line
GoesOnAlike(k, pc) == /\ GoesOn(k, pc)
                      /\ caller'[k].side = caller[k].side
                      /\ caller'[k].lease = caller[k].lease
Left(k) == /\ OnlyCaller(k)
           /\ caller'[k] = Idle
           /\ waking' = IF waking = k THEN None ELSE waking
(* A step about one line.                                                  *)
LinesStay(l) == \A m \in Lines : m # l => lines'[m] = lines[m]

(* What is not changed stays, in each of these senses.                     *)
LEMMA SideUnchanged ==
  ASSUME UNCHANGED side
  PROVE  SidesStay /\ \A s \in Sides : Only(s)
  BY DEF SidesStay, EndsStay, QueuesStay, MarksStay, AgentsStay, Only

LEMMA ClaimDoes ==
  ASSUME SideTypes, NEW s \in Sides, NEW p, NEW to, NEW b \in BOOLEAN,
         Claims(s, p, to, b)
  PROVE  /\ Only(s)
         /\ QueuesStay /\ MarksStay /\ AgentsStay
         /\ \A q \in Sides : /\ side'[q].thread = side[q].thread
                            /\ side'[q].lease = side[q].lease
         /\ side[s].phase = "open" /\ side'[s].phase = p
         /\ side'[s].going = "claimed" /\ side'[s].to = to /\ side'[s].idly = b
  BY DEF Claims, SideTypes, LiveSides, EndsStay, QueuesStay, MarksStay, AgentsStay, Only

LetGoEffect(s) ==
  /\ Only(s) /\ MarksStay
  /\ \A q \in Sides : /\ side'[q].thread = side[q].thread
                     /\ side'[q].phase = side[q].phase
                     /\ side'[q].to = side[q].to
                     /\ side'[q].idly = side[q].idly
  /\ side[s].going = "claimed" /\ side'[s].going = "silent"
  /\ side'[s].waiting = <<>> /\ side'[s].lease = -1
  /\ side'[s].running = side[s].running /\ side'[s].slipped = side[s].slipped
  /\ side'[s].agent # "up"
  /\ side'[s].agent = "none" <=> side[s].agent = "none"
  /\ UNCHANGED <<link, live, starting, made, waking, caller, starter, runner,
              carried, owed, ended, epoch, revoking, dropping, scene>>

LEMMA LetGoDoes ==
  ASSUME SideTypes, NEW s \in Sides, LetGo(s)
  PROVE  LetGoEffect(s)
  BY
  DEF LetGo, SideTypes, LiveSides, EndsStay, QueuesStay, MarksStay, AgentsStay,
      Only, room, tasks, rest, archives, LetGoEffect

WriteEndEffect(s) ==
  /\ Only(s) /\ QueuesStay /\ MarksStay /\ AgentsStay
  /\ \A q \in Sides : /\ side'[q].thread = side[q].thread
                     /\ side'[q].phase = side[q].phase
                     /\ side'[q].to = side[q].to
                     /\ side'[q].idly = side[q].idly
  /\ \A q \in Sides : side'[q].lease = side[q].lease
  /\ side[s].going = "silent" /\ side'[s].going = "written"
  /\ UNCHANGED live
  /\ link' = [link EXCEPT ![side[s].thread] =
               IF side[s].to = "parked" THEN "parked" ELSE "closed"]
  /\ side[s].to # "prior" => side[s].marking = FALSE
  /\ UNCHANGED <<starting, made, waking, caller, starter, runner, lines,
              carried, owed, ended, epoch, revoking, dropping, scene>>

LEMMA WriteEndDoes ==
  ASSUME SideTypes, NEW s \in Sides, WriteEnd(s)
  PROVE  WriteEndEffect(s)
  BY
  DEF WriteEnd, Writes, SideTypes, LiveSides, EndsStay, QueuesStay, MarksStay,
      AgentsStay, Only, room, tasks, rest, archives, WriteEndEffect

LeaveEffect(s) ==
  /\ Only(s) /\ QueuesStay /\ MarksStay /\ AgentsStay
  /\ \A q \in Sides : /\ side'[q].thread = side[q].thread
                     /\ side'[q].phase = side[q].phase
                     /\ side'[q].to = side[q].to
                     /\ side'[q].idly = side[q].idly
  /\ \A q \in Sides : side'[q].lease = side[q].lease
  /\ side[s].going = "written" /\ side'[s].going = "gone"
  /\ UNCHANGED link
  /\ live' = [t \in Threads |-> IF live[t] = s THEN Nothing ELSE live[t]]
  /\ UNCHANGED <<starting, made, waking, caller, starter, runner, lines,
              carried, owed, ended, epoch, revoking, dropping, scene>>

LEMMA LeaveDoes ==
  ASSUME SideTypes, NEW s \in Sides, Leave(s)
  PROVE  LeaveEffect(s)
  BY
  DEF Leave, Writes, SideTypes, LiveSides, EndsStay, QueuesStay, MarksStay,
      AgentsStay, Only, room, tasks, rest, archives, LeaveEffect

LEMMA AgentSet ==
  ASSUME SideTypes, NEW s \in Sides, NEW a, side' = [side EXCEPT ![s].agent = a]
  PROVE  /\ EndsStay /\ QueuesStay /\ MarksStay /\ Only(s)
         /\ side'[s].agent = a
  BY DEF SideTypes, LiveSides, EndsStay, QueuesStay, MarksStay, AgentsStay, Only

LEMMA RunningSet ==
  ASSUME SideTypes, NEW s \in Sides, NEW b, side' = [side EXCEPT ![s].running = b]
  PROVE  /\ EndsStay /\ AgentsStay /\ MarksStay /\ Only(s)
         /\ side'[s].running = b /\ side'[s].waiting = side[s].waiting
         /\ side'[s].slipped = side[s].slipped
  BY DEF SideTypes, LiveSides, EndsStay, QueuesStay, MarksStay, AgentsStay, Only

LEMMA WaitingSet ==
  ASSUME SideTypes, NEW s \in Sides, NEW w, side' = [side EXCEPT ![s].waiting = w]
  PROVE  /\ EndsStay /\ AgentsStay /\ MarksStay /\ Only(s)
         /\ side'[s].waiting = w /\ side'[s].running = side[s].running
         /\ side'[s].slipped = side[s].slipped
  BY DEF SideTypes, LiveSides, EndsStay, QueuesStay, MarksStay, AgentsStay, Only

MarkEffect(s) ==
  /\ EndsStay /\ QueuesStay /\ AgentsStay
  /\ Only(s) /\ side'[s].marking = TRUE
  /\ side[s].marking = FALSE /\ side[s].phase = "open" /\ InRoom(s)
  /\ UNCHANGED <<room, tasks, epoch, revoking, dropping, lines, scene>>

LEMMA MarkDoes ==
  ASSUME SideTypes, NEW s \in Sides, Mark(s)
  PROVE  MarkEffect(s)
  BY
  DEF Mark, Markable, SideTypes, LiveSides, EndsStay, QueuesStay, MarksStay,
      AgentsStay, Only, MarkEffect

MarkedEffect(s) ==
  /\ EndsStay /\ QueuesStay /\ AgentsStay
  /\ Only(s) /\ side'[s].marking = FALSE
  /\ side[s].marking = TRUE
  /\ link' = [link EXCEPT ![side[s].thread] = "live"]
  /\ UNCHANGED <<live, starting, made, tasks, rest, lines>>

LEMMA MarkedDoes ==
  ASSUME SideTypes, NEW s \in Sides, Marked(s)
  PROVE  MarkedEffect(s)
  BY
  DEF Marked, SideTypes, LiveSides, EndsStay, QueuesStay, MarksStay,
      AgentsStay, Only, MarkedEffect

MarksLiveEffect(k) ==
  /\ EndsStay
  /\ QueuesStay
  /\ AgentsStay
  /\ Only(caller[k].side)
  /\ side[caller[k].side].marking = FALSE
  /\ side'[caller[k].side].marking = Markable(caller[k].side)
  /\ side[caller[k].side].phase = "open" => side'[caller[k].side].marking = TRUE
  /\ side[caller[k].side].phase # "open" => side'[caller[k].side].marking = FALSE
  /\ At(k, "mark") /\ GoesOnAlike(k, "marked")
  /\ UNCHANGED <<room, waking, starter, runner, carried, archives, rest, lines>>

LEMMA MarksLiveDoes ==
  ASSUME SideTypes, CallerTypes, NEW k \in Callers, MarksLive(k),
         caller[k].side \in Sides
  PROVE  MarksLiveEffect(k)
  <1> USE DEF MarksLiveEffect
  <1>1. EndsStay
    BY DEF MarksLive, Markable, At, Goes, GoesOnAlike, GoesOn, OnlyCaller,
         CallerTypes, Tasks, SideTypes, LiveSides, EndsStay, QueuesStay,
         MarksStay, AgentsStay, Only
  <1>2. QueuesStay
    BY DEF MarksLive, Markable, At, Goes, GoesOnAlike, GoesOn, OnlyCaller,
         CallerTypes, Tasks, SideTypes, LiveSides, EndsStay, QueuesStay,
         MarksStay, AgentsStay, Only
  <1>3. AgentsStay
    BY DEF MarksLive, Markable, At, Goes, GoesOnAlike, GoesOn, OnlyCaller,
         CallerTypes, Tasks, SideTypes, LiveSides, EndsStay, QueuesStay,
         MarksStay, AgentsStay, Only
  <1>4. Only(caller[k].side)
    BY DEF MarksLive, Markable, At, Goes, GoesOnAlike, GoesOn, OnlyCaller,
         CallerTypes, Tasks, SideTypes, LiveSides, EndsStay, QueuesStay,
         MarksStay, AgentsStay, Only
  <1>5. side[caller[k].side].marking = FALSE
    BY DEF MarksLive, Markable, At, Goes, GoesOnAlike, GoesOn, OnlyCaller,
         CallerTypes, Tasks, SideTypes, LiveSides, EndsStay, QueuesStay,
         MarksStay, AgentsStay, Only
  <1>6. side'[caller[k].side].marking = Markable(caller[k].side)
    BY DEF MarksLive, Markable, At, Goes, GoesOnAlike, GoesOn, OnlyCaller,
         CallerTypes, Tasks, SideTypes, LiveSides, EndsStay, QueuesStay,
         MarksStay, AgentsStay, Only
  <1>7. side[caller[k].side].phase = "open" => side'[caller[k].side].marking = TRUE
    BY <1>5, <1>6 DEF Markable
  <1>8. side[caller[k].side].phase # "open" => side'[caller[k].side].marking = FALSE
    BY <1>5, <1>6 DEF Markable
  <1>9. At(k, "mark") /\ GoesOnAlike(k, "marked")
    BY DEF MarksLive, Markable, At, Goes, GoesOnAlike, GoesOn, OnlyCaller,
         CallerTypes, Tasks, SideTypes, LiveSides, EndsStay, QueuesStay,
         MarksStay, AgentsStay, Only
  <1>10. UNCHANGED <<room, waking, starter, runner, carried, archives, rest, lines>>
    BY DEF MarksLive, Markable, At, Goes, GoesOnAlike, GoesOn, OnlyCaller,
         CallerTypes, Tasks, SideTypes, LiveSides, EndsStay, QueuesStay,
         MarksStay, AgentsStay, Only
  <1> QED
    BY <1>1, <1>2, <1>3, <1>4, <1>5, <1>6, <1>7, <1>8, <1>9, <1>10

BuiltEffect(s) ==
  /\ EndsStay
  /\ QueuesStay
  /\ MarksStay
  /\ Only(s)
  /\ starter[s] = "building"
  /\ \A q \in Sides : q # s => starter'[q] = starter[q]
  /\ \/ starter'[s] = "up"
     \/ starter'[s] = "failed" /\ side'[s].agent = side[s].agent
  /\ UNCHANGED <<room, waking, caller, runner, carried, archives, rest, lines>>

LEMMA BuiltDoes ==
  ASSUME SideTypes, StarterTypes, NEW s \in Sides, Built(s)
  PROVE  BuiltEffect(s)
  <1> USE DEF BuiltEffect
  <1>1. CASE side' = [side EXCEPT ![s].agent = "up"] /\ starter' = [starter EXCEPT ![s] = "up"]
    BY <1>1, AgentSet DEF Built, StarterTypes
  <1>2. CASE UNCHANGED side /\ starter' = [starter EXCEPT ![s] = "failed"]
    BY <1>2, SideUnchanged DEF Built, StarterTypes, SidesStay
  <1> QED
    BY <1>1, <1>2 DEF Built

LooksUpEffect(s) ==
  /\ EndsStay
  /\ QueuesStay
  /\ MarksStay
  /\ Only(s)
  /\ starter[s] = "up"
  /\ \A q \in Sides : q # s => starter'[q] = starter[q]
  /\ \/ side[s].phase = "open" /\ starter'[s] = "take"
     \/ side[s].phase # "open" /\ starter'[s] = "done"
        /\ side'[s].agent = "stopped"
  /\ UNCHANGED <<room, waking, caller, runner, carried, archives, rest, lines>>

LEMMA LooksUpDoes ==
  ASSUME SideTypes, StarterTypes, NEW s \in Sides, LooksUp(s)
  PROVE  LooksUpEffect(s)
  <1> USE DEF LooksUpEffect
  <1>1. CASE side[s].phase # "open"
    BY <1>1, AgentSet DEF LooksUp, StarterTypes
  <1>2. CASE side[s].phase = "open"
    BY <1>2, SideUnchanged DEF LooksUp, StarterTypes, SidesStay
  <1> QED
    BY <1>1, <1>2

TakesFirstEffect(s) ==
  /\ EndsStay
  /\ MarksStay
  /\ AgentsStay
  /\ Only(s)
  /\ starter[s] = "take" /\ starter'[s] = "done"
  /\ \A q \in Sides : q # s => starter'[q] = starter[q]
  /\ side'[s].slipped = side[s].slipped
  /\ \/ /\ side[s].waiting = <<>> /\ side'[s].waiting = <<>>
        /\ side'[s].running = FALSE /\ UNCHANGED runner
     \/ /\ side[s].waiting # <<>>
        /\ side'[s].waiting = Tail(side[s].waiting)
        /\ side'[s].running = side[s].running
        /\ \E r \in Runners :
             /\ runner[r].pc = "free" /\ OnlyRunner(r)
             /\ runner'[r].pc = "door" /\ runner'[r].side = s
             /\ runner'[r].line = Head(side[s].waiting)
  /\ UNCHANGED <<room, waking, caller, carried, archives, rest, lines>>

LEMMA TakesFirstDoes ==
  ASSUME SideTypes, RunnerTypes, StarterTypes,
         NEW s \in Sides, TakesFirst(s)
  PROVE  TakesFirstEffect(s)
  <1> USE DEF TakesFirstEffect
  <1>1. CASE side[s].waiting = <<>>
    <2>1. side' = [side EXCEPT ![s].running = FALSE] /\ UNCHANGED runner
      BY <1>1 DEF TakesFirst, StarterTypes
    <2>2. /\ EndsStay /\ AgentsStay /\ MarksStay /\ Only(s)
          /\ side'[s].running = FALSE /\ side'[s].waiting = side[s].waiting
          /\ side'[s].slipped = side[s].slipped
      BY <2>1, RunningSet
    <2> QED
      BY <1>1, <2>1, <2>2 DEF TakesFirst, StarterTypes
  <1>2. CASE side[s].waiting # <<>>
    <2>1. side' = [side EXCEPT ![s].waiting = Tail(side[s].waiting)]
      BY <1>2 DEF TakesFirst, StarterTypes
    <2>2. PICK r \in Runners :
            /\ runner[r].pc = "free"
            /\ runner' = [runner EXCEPT ![r] =
                    [Free EXCEPT !.pc = "door", !.side = s,
                                 !.line = Head(side[s].waiting)]]
      BY <1>2 DEF TakesFirst, StarterTypes
    <2>3. /\ OnlyRunner(r)
          /\ runner'[r].pc = "door" /\ runner'[r].side = s
          /\ runner'[r].line = Head(side[s].waiting)
      BY <2>2 DEF Free, OnlyRunner, RunnerTypes
    <2> QED
      BY <1>2, <2>1, <2>2, <2>3, WaitingSet DEF TakesFirst, StarterTypes
  <1> QED
    BY <1>1, <1>2

NextLineEffect(r) ==
  /\ EndsStay
  /\ MarksStay
  /\ AgentsStay
  /\ Only(runner[r].side)
  /\ runner[r].pc = "next" /\ OnlyRunner(r)
  /\ runner'[r].side = runner[r].side
  /\ side'[runner[r].side].slipped = side[runner[r].side].slipped
  /\ \/ /\ side[runner[r].side].waiting = <<>>
        /\ side'[runner[r].side].waiting = <<>>
        /\ side'[runner[r].side].running = FALSE
        /\ runner'[r].pc = "rest"
     \/ /\ side[runner[r].side].waiting # <<>>
        /\ side'[runner[r].side].waiting =
             Tail(side[runner[r].side].waiting)
        /\ side'[runner[r].side].running = side[runner[r].side].running
        /\ runner'[r].pc = "door"
        /\ runner'[r].line = Head(side[runner[r].side].waiting)
  /\ UNCHANGED <<room, waking, caller, starter, carried, archives, rest, lines>>

LEMMA NextLineDoes ==
  ASSUME SideTypes, RunnerTypes, NEW r \in Runners, NextLine(r),
         runner[r].side \in Sides
  PROVE  NextLineEffect(r)
  <1> USE DEF NextLineEffect
  <1>1. CASE side[runner[r].side].waiting = <<>>
    <2>1. /\ OnlyRunner(r) /\ runner'[r].side = runner[r].side
          /\ runner'[r].pc = "rest"
      BY <1>1 DEF NextLine, Runs, OnlyRunner, RunnerTypes, Loops
    <2> QED
      BY <1>1, <2>1, RunningSet DEF NextLine
  <1>2. CASE side[runner[r].side].waiting # <<>>
    <2>1. /\ OnlyRunner(r) /\ runner'[r].side = runner[r].side
          /\ runner'[r].pc = "door"
          /\ runner'[r].line = Head(side[runner[r].side].waiting)
      BY <1>2 DEF NextLine, OnlyRunner, RunnerTypes, Loops
    <2>2. side' = [side EXCEPT ![runner[r].side].waiting =
                                  Tail(side[runner[r].side].waiting)]
      BY <1>2 DEF NextLine
    <2> QED
      BY <1>2, <2>1, <2>2, WaitingSet DEF NextLine
  <1> QED
    BY <1>1, <1>2

RestsEffect(r) ==
  /\ EndsStay
  /\ MarksStay
  /\ AgentsStay
  /\ Only(runner[r].side)
  /\ runner[r].pc = "rest" /\ OnlyRunner(r) /\ runner'[r] = Free
  /\ side'[runner[r].side].waiting = side[runner[r].side].waiting
  /\ side'[runner[r].side].running = FALSE
  /\ side'[runner[r].side].slipped = FALSE =>
       /\ side[runner[r].side].slipped = FALSE
       /\ \A q \in Runners : q # r => ~Busy(q, runner[r].side)
  /\ UNCHANGED <<room, waking, caller, starter, carried, archives, rest, lines>>

LEMMA RestsDoes ==
  ASSUME SideTypes, RunnerTypes, NEW r \in Runners, Rests(r),
         runner[r].side \in Sides
  PROVE  RestsEffect(r)
  BY
  DEF Rests, Rest, Busy, OnlyRunner, RunnerTypes, Loops, SideTypes, LiveSides,
      EndsStay, QueuesStay, MarksStay, AgentsStay, Only, RestsEffect

BeginEffect(r) ==
  /\ runner[r].pc = "door" /\ OnlyRunner(r)
  /\ runner'[r].side = runner[r].side
  /\ \/ /\ Answering(runner[r].side) /\ runner'[r].pc = "turn"
        /\ lines'[runner[r].line] = "heard"
     \/ /\ ~Answering(runner[r].side) /\ runner'[r].pc = "rest"
        /\ lines'[runner[r].line] = Dropped(runner[r].side)
  /\ LinesStay(runner[r].line)
  /\ UNCHANGED <<room, side, waking, caller, starter, carried, archives, rest>>

LEMMA BeginDoes ==
  ASSUME RunnerTypes, LineTypes, NEW r \in Runners, Begin(r), runner[r].line \in Lines
  PROVE  BeginEffect(r)
  BY
  DEF Begin, Runs, Fate, LinesStay, LineTypes, OnlyRunner, RunnerTypes, Loops,
      BeginEffect

EndTurnEffect(r) ==
  /\ runner[r].pc = "turn" /\ OnlyRunner(r)
  /\ runner'[r].side = runner[r].side
  /\ \/ /\ side[runner[r].side].phase = "open" /\ runner'[r].pc = "next"
        /\ UNCHANGED side
     \/ /\ runner'[r].pc = "stop"
        /\ Ends(runner[r].side, "closing", "closed")
  /\ UNCHANGED <<room, waking, caller, starter, carried, archives, rest, lines>>

LEMMA EndTurnDoes ==
  ASSUME RunnerTypes, NEW r \in Runners, EndTurn(r)
  PROVE  EndTurnEffect(r)
  BY DEF EndTurn, Runs, OnlyRunner, RunnerTypes, Loops, EndTurnEffect

StopsEffect(r) ==
  /\ runner[r].pc = "stop" /\ OnlyRunner(r)
  /\ runner'[r].side = runner[r].side /\ runner'[r].pc = "rest"
  /\ UNCHANGED <<room, side, waking, caller, starter, carried, archives, rest,
              lines>>

LEMMA StopsDoes ==
  ASSUME RunnerTypes, NEW r \in Runners, Stops(r)
  PROVE  StopsEffect(r)
  BY DEF Stops, Runs, OnlyRunner, RunnerTypes, Loops, StopsEffect

StopEffect(s) ==
  /\ EndsStay
  /\ MarksStay
  /\ AgentsStay
  /\ Only(s)
  /\ side'[s].waiting = <<>> /\ InRoom(s)
  /\ side'[s].running = side[s].running /\ side'[s].slipped = side[s].slipped
  /\ UNCHANGED <<room, tasks, rest>>

LEMMA StopDoes ==
  ASSUME SideTypes, LineTypes, NEW s \in Sides, Stop(s)
  PROVE  StopEffect(s)
  BY
  DEF Stop, SideTypes, LiveSides, EndsStay, QueuesStay, MarksStay, AgentsStay,
      Only, StopEffect
-----------------------------------------------------------------------------
(* What a step does, for those that claim an ending and for the callers.   *)
ClaimStep(s, p, to, b) ==
  /\ Only(s) /\ QueuesStay /\ MarksStay /\ AgentsStay
  /\ \A q \in Sides : /\ side'[q].thread = side[q].thread
                      /\ side'[q].lease = side[q].lease
  /\ side[s].phase = "open" /\ side'[s].phase = p
  /\ side'[s].going = "claimed" /\ side'[s].to = to /\ side'[s].idly = b
EndedStep(s) == side[s].phase # "open" /\ UNCHANGED side
CloseStep(s) == EndedStep(s) \/ ClaimStep(s, "closing", "closed", FALSE)
ParkStep(s) == /\ side[s].running = FALSE
               /\ ClaimStep(s, "parking", "parked", Valid(side[s].lease))

LEMMA ClaimsDoes ==
  ASSUME SideTypes, NEW s \in Sides, NEW p, NEW to, Claims(s, p, to, FALSE)
  PROVE  ClaimStep(s, p, to, FALSE)
  BY Zenon, ClaimDoes DEF ClaimStep

LEMMA EndsDoes ==
  ASSUME SideTypes, NEW s \in Sides, NEW p, NEW to, Ends(s, p, to)
  PROVE  EndedStep(s) \/ ClaimStep(s, p, to, FALSE)
  <1>1. CASE side[s].phase = "open"
    <2>1. Claims(s, p, to, FALSE)
      BY <1>1 DEF Ends
    <2> QED
      BY <2>1, ClaimsDoes
  <1> QED
    BY <1>1 DEF Ends, EndedStep

LEMMA CloseDoes ==
  ASSUME SideTypes, NEW s \in Sides, Ends(s, "closing", "closed")
  PROVE  CloseStep(s)
  BY EndsDoes DEF CloseStep

LEMMA ParkIdleDoes ==
  ASSUME SideTypes, NEW s \in Sides, ParkIdle(s)
  PROVE  ParkStep(s)
  <1>1. Claims(s, "parking", "parked", Valid(side[s].lease))
    BY DEF ParkIdle
  <1>2. Valid(side[s].lease) \in BOOLEAN
    BY DEF Valid
  <1>3. side[s].running = FALSE
    BY DEF ParkIdle, SideTypes, LiveSides
  <1>4. /\ Only(s) /\ QueuesStay /\ MarksStay /\ AgentsStay
        /\ \A q \in Sides : /\ side'[q].thread = side[q].thread
                            /\ side'[q].lease = side[q].lease
        /\ side[s].phase = "open" /\ side'[s].phase = "parking"
        /\ side'[s].going = "claimed" /\ side'[s].to = "parked"
        /\ side'[s].idly = Valid(side[s].lease)
    BY <1>1, <1>2, ClaimDoes
  <1> QED
    BY <1>3, <1>4 DEF ParkStep, ClaimStep

StartFailsEffect(s) ==
  /\ starter[s] = "failed" /\ starter'[s] = "done"
  /\ \A q \in Sides : q # s => starter'[q] = starter[q]
  /\ \/ EndedStep(s)
     \/ ClaimStep(s, "closing", "closed", FALSE)
     \/ ClaimStep(s, "closing", "prior", FALSE)
     \/ ClaimStep(s, "parking", "parked", FALSE)
  /\ UNCHANGED <<room, waking, caller, runner, carried, archives, rest,
                 lines>>

LEMMA StartFailsDoes ==
  ASSUME SideTypes, StarterTypes, NEW s \in Sides, StartFails(s)
  PROVE  StartFailsEffect(s)
  <1> USE DEF StartFailsEffect
  <1>1. side[s].fresh \in BOOLEAN /\ side[s].prior \in BOOLEAN
    BY DEF SideTypes, LiveSides
  <1>2. \/ Ends(s, "closing", "closed") \/ Ends(s, "closing", "prior")
        \/ Ends(s, "parking", "parked")
    BY <1>1 DEF StartFails
  <1>3. \/ EndedStep(s)
        \/ ClaimStep(s, "closing", "closed", FALSE)
        \/ ClaimStep(s, "closing", "prior", FALSE)
        \/ ClaimStep(s, "parking", "parked", FALSE)
    BY <1>2, EndsDoes
  <1> QED
    BY <1>3 DEF StartFails, StarterTypes

DropEffect(s) ==
  /\ s \in dropping /\ dropping' = dropping \ {s} /\ CloseStep(s)
  /\ UNCHANGED <<room, tasks, epoch, revoking, marks, lines, scene>>

LEMMA DropDoes ==
  ASSUME SideTypes, NEW s \in Sides, Drop(s)
  PROVE  DropEffect(s)
  BY CloseDoes DEF Drop, DropEffect

ParkEffect(t) ==
  /\ live[t] # Nothing /\ live[t] \in Sides /\ ParkStep(live[t])
  /\ UNCHANGED <<room, tasks, rest, lines>>

LEMMA ParkDoes ==
  ASSUME SideTypes, RoomTypes, NEW t \in Threads, Park(t)
  PROVE  ParkEffect(t)
  <1> USE DEF ParkEffect
  <1>1. live[t] # Nothing /\ live[t] \in Sides
    BY DEF Park, RoomTypes
  <1> QED
    BY <1>1, ParkIdleDoes DEF Park

ArchiveEffect(t) ==
  /\ ended' = ended \cup {t}
  /\ \/ /\ live[t] # Nothing /\ live[t] \in Sides
        /\ side[live[t]].phase = "parking"
        /\ owed' = owed \cup {t} /\ UNCHANGED <<side, link>>
     \/ /\ live[t] # Nothing /\ live[t] \in Sides
        /\ side[live[t]].phase # "parking"
        /\ CloseStep(live[t]) /\ UNCHANGED <<owed, link>>
     \/ /\ live[t] = Nothing /\ link[t] = "parked"
        /\ link' = [link EXCEPT ![t] = "closed"]
        /\ UNCHANGED <<side, owed>>
  /\ UNCHANGED <<live, starting, made, waking, caller, starter,
                 runner, carried, rest, lines>>

LEMMA ArchiveDoes ==
  ASSUME SideTypes, RoomTypes, NEW t \in Threads, Archive(t)
  PROVE  ArchiveEffect(t)
  <1> USE DEF ArchiveEffect
  <1>1. CASE live[t] # Nothing
    <2>1. live[t] \in Sides
      BY <1>1 DEF RoomTypes
    <2> QED
      BY <1>1, <2>1, CloseDoes DEF Archive, CloseSide
  <1>2. CASE live[t] = Nothing
    BY <1>2 DEF Archive, CloseSide
  <1> QED
    BY <1>1, <1>2

ArchiveOwedEffect(t) ==
  /\ t \in owed /\ owed' = owed \ {t} /\ ended' = ended \cup {t}
  /\ \/ /\ live[t] # Nothing /\ live[t] \in Sides
        /\ ClaimStep(live[t], "closing", "closed", FALSE)
        /\ UNCHANGED link
     \/ /\ live[t] = Nothing
        /\ link' = [link EXCEPT ![t] = IF @ = "parked" THEN "closed"
                                       ELSE @]
        /\ UNCHANGED side
  /\ UNCHANGED <<live, starting, made, waking, caller, starter,
                 runner, carried, rest, lines>>

LEMMA ArchiveOwedDoes ==
  ASSUME SideTypes, RoomTypes, NEW t \in Threads, ArchiveOwed(t)
  PROVE  ArchiveOwedEffect(t)
  <1> USE DEF ArchiveOwedEffect
  <1>1. CASE live[t] # Nothing
    <2>1. live[t] \in Sides /\ side[live[t]].phase = "open"
      BY <1>1 DEF RoomTypes, ArchiveOwed, Standing
    <2>2. Claims(live[t], "closing", "closed", FALSE)
      BY <1>1, <2>1 DEF ArchiveOwed, Ends
    <2>3. ClaimStep(live[t], "closing", "closed", FALSE)
      BY <2>1, <2>2, ClaimsDoes
    <2> QED
      BY <1>1, <2>1, <2>3 DEF ArchiveOwed
  <1>2. CASE live[t] = Nothing
    BY <1>2 DEF ArchiveOwed
  <1> QED
    BY <1>1, <1>2

(* A caller's step, by itself.                                             *)
LEMMA GoesDoes ==
  ASSUME CallerTypes, NEW k \in Callers, NEW pc, Goes(k, pc)
  PROVE  GoesOnAlike(k, pc) /\ caller'[k].prior = caller[k].prior
  BY DEF Goes, GoesOnAlike, GoesOn, OnlyCaller, CallerTypes, Tasks

LEMMA LeavesDoes ==
  ASSUME CallerTypes, NEW k \in Callers, Leaves(k)
  PROVE  Left(k)
  BY DEF Leaves, Left, OnlyCaller, CallerTypes

LEMMA FateOfOne ==
  ASSUME LineTypes, NEW l \in Lines, NEW f, Fate({l}, f)
  PROVE  lines'[l] = f /\ LinesStay(l)
  BY DEF Fate, LinesStay, LineTypes

LEMMA RefusesDoes ==
  ASSUME CallerTypes, LineTypes, NEW k \in Callers, Refuses(k),
         caller[k].line \in Lines
  PROVE  /\ Left(k) /\ lines'[caller[k].line] = "refused"
         /\ LinesStay(caller[k].line)
  BY LeavesDoes, FateOfOne DEF Refuses

AdmittedEffect(k) ==
  /\ At(k, "knock") /\ waking = None /\ waking' = k
  /\ GoesOnAlike(k, "look")
  /\ UNCHANGED <<room, side, starter, runner, carried, archives, rest,
                 lines>>

LEMMA AdmittedDoes ==
  ASSUME CallerTypes, NEW k \in Callers, Admitted(k)
  PROVE  AdmittedEffect(k)
  BY GoesDoes DEF Admitted, AdmittedEffect

LooksEffect(k) ==
  /\ At(k, "look")
  /\ \/ /\ live[caller[k].thread] # Nothing
        /\ side[live[caller[k].thread]].phase = "open"
        /\ GoesOn(k, "say")
        /\ caller'[k].side = live[caller[k].thread]
        /\ caller'[k].lease = caller[k].lease
        /\ UNCHANGED <<waking, lines>>
     \/ /\ Left(k) /\ lines'[caller[k].line] = "refused"
        /\ LinesStay(caller[k].line)
     \/ /\ live[caller[k].thread] = Nothing /\ Valid(epoch)
        /\ GoesOn(k, "reserve")
        /\ caller'[k].lease = epoch
        /\ UNCHANGED <<waking, lines>>
  /\ UNCHANGED <<room, side, starter, runner, carried, archives, rest>>

LEMMA LooksDoes ==
  ASSUME CallerTypes, LineTypes, NEW k \in Callers, Looks(k),
         caller[k].line \in Lines
  PROVE  LooksEffect(k)
  <1> USE DEF LooksEffect
  <1> DEFINE t == caller[k].thread
  <1>1. CASE Refuses(k)
    BY <1>1, RefusesDoes DEF Looks
  <1>2. CASE /\ Standing(t) = "live"
             /\ caller' = [caller EXCEPT ![k].pc = "say", ![k].side = live[t]]
             /\ UNCHANGED <<waking, lines>>
    BY <1>2 DEF Looks, Standing, GoesOn, OnlyCaller, CallerTypes, Tasks
  <1>3. CASE /\ Standing(t) = "stored" /\ Valid(epoch)
             /\ caller' = [caller EXCEPT ![k].pc = "reserve",
                                         ![k].lease = epoch]
             /\ UNCHANGED <<waking, lines>>
    BY <1>3 DEF Looks, Standing, GoesOn, OnlyCaller, CallerTypes, Tasks
  <1> QED
    BY <1>1, <1>2, <1>3 DEF Looks

ReserveEffect(k) ==
  /\ At(k, "reserve")
  /\ \/ /\ Places < scene.places /\ starting' = starting + 1
        /\ GoesOnAlike(k, "publish")
        /\ UNCHANGED <<waking, lines>>
     \/ /\ UNCHANGED starting
        /\ Left(k) /\ lines'[caller[k].line] = "refused"
        /\ LinesStay(caller[k].line)
     \/ /\ GoesOn(k, "evict") /\ caller'[k].lease = caller[k].lease
        /\ \E t \in Held : caller'[k].side = live[t]
        /\ UNCHANGED <<starting, waking, lines>>
  /\ UNCHANGED <<link, live, made, side, starter, runner, carried,
                 archives, rest>>

LEMMA ReserveDoes ==
  ASSUME CallerTypes, LineTypes, NEW k \in Callers, Reserve(k),
         caller[k].line \in Lines
  PROVE  ReserveEffect(k)
  <1> USE DEF ReserveEffect
  <1>1. CASE Places < scene.places
    <2>1. PICK b : caller' = [caller EXCEPT ![k].pc = "publish",
                                            ![k].prior = b]
      BY <1>1 DEF Reserve
    <2>2. GoesOnAlike(k, "publish")
      BY <2>1 DEF GoesOnAlike, GoesOn, OnlyCaller, CallerTypes, Tasks
    <2> QED
      BY <1>1, <2>2 DEF Reserve
  <1>2. CASE ~(Places < scene.places) /\ Refuses(k)
    BY <1>2, RefusesDoes DEF Reserve
  <1>3. CASE ~(Places < scene.places) /\ ~Refuses(k)
    <2>1. PICK t \in Held : caller' = [caller EXCEPT ![k].pc = "evict",
                                                     ![k].side = live[t]]
      BY <1>3 DEF Reserve
    <2>2. /\ GoesOn(k, "evict") /\ caller'[k].lease = caller[k].lease
          /\ caller'[k].side = live[t]
      BY <2>1 DEF GoesOn, OnlyCaller, CallerTypes, Tasks
    <2> QED
      BY <1>3, <2>2 DEF Reserve
  <1> QED
    BY <1>1, <1>2, <1>3

EvictEffect(k) ==
  /\ At(k, "evict")
  /\ \/ GoesOnAlike(k, "reserve") /\ UNCHANGED side
     \/ GoesOnAlike(k, "evicting") /\ ParkStep(caller[k].side)
  /\ UNCHANGED <<room, waking, starter, runner, carried, archives,
                 rest, lines>>

LEMMA EvictDoes ==
  ASSUME CallerTypes, SideTypes, NEW k \in Callers, Evict(k),
         caller[k].side \in Sides
  PROVE  EvictEffect(k)
  BY GoesDoes, ParkIdleDoes DEF Evict, EvictEffect

EvictedEffect(k) ==
  /\ At(k, "evicting") /\ GoesOnAlike(k, "reserve")
  /\ UNCHANGED <<room, side, waking, starter, runner, carried,
                 archives, rest, lines>>

LEMMA EvictedDoes ==
  ASSUME CallerTypes, NEW k \in Callers, Evicted(k)
  PROVE  EvictedEffect(k)
  BY GoesDoes DEF Evicted, EvictedEffect

PublishEffect(k) ==
  /\ At(k, "publish")
  /\ \/ /\ Valid(caller[k].lease) /\ made' = made + 1 /\ made' \in Sides
        /\ live' = [live EXCEPT ![caller[k].thread] = made']
        /\ Only(made')
        /\ side'[made'].thread = caller[k].thread
        /\ side'[made'].phase = "open" /\ side'[made'].going = "no"
        /\ side'[made'].to = "none" /\ side'[made'].idly = FALSE
        /\ side'[made'].agent = "none"
        /\ side'[made'].lease = caller[k].lease
        /\ side'[made'].running = TRUE /\ side'[made'].waiting = <<>>
        /\ side'[made'].marking = FALSE
        /\ side'[made'].slipped = FALSE
        /\ GoesOn(k, "mark") /\ caller'[k].side = made'
        /\ caller'[k].lease = caller[k].lease
        /\ ended' = ended \ {caller[k].thread}
        /\ UNCHANGED <<starting, waking, lines>>
     \/ /\ ~Valid(caller[k].lease) /\ starting' = starting - 1
        /\ Left(k) /\ lines'[caller[k].line] = "refused"
        /\ LinesStay(caller[k].line)
        /\ UNCHANGED <<live, made, side, ended>>
  /\ UNCHANGED <<link, starter, runner, carried, owed, rest>>

LEMMA PublishDoes ==
  ASSUME CallerTypes, LineTypes, SideTypes, RoomTypes, NEW k \in Callers,
         Publish(k), caller[k].line \in Lines
  PROVE  PublishEffect(k)
  <1> USE DEF PublishEffect
  <1>1. CASE Current(k)
    <2>1. made' = made + 1 /\ made' \in Sides
      BY <1>1, BoundsAssumption DEF Publish, RoomTypes, Sides
    <2>2. side' = [side EXCEPT ![made'] =
               [Unmade EXCEPT !.thread = caller[k].thread,
                              !.lease = caller[k].lease, !.running = TRUE,
                              !.fresh = link[caller[k].thread] = "none",
                              !.prior = caller[k].prior]]
      BY <1>1 DEF Publish
    <2>3. /\ Only(made')
          /\ side'[made'].thread = caller[k].thread
          /\ side'[made'].phase = "open" /\ side'[made'].going = "no"
          /\ side'[made'].to = "none" /\ side'[made'].idly = FALSE
          /\ side'[made'].agent = "none"
          /\ side'[made'].lease = caller[k].lease
          /\ side'[made'].running = TRUE /\ side'[made'].waiting = <<>>
          /\ side'[made'].marking = FALSE
          /\ side'[made'].slipped = FALSE
      BY <2>1, <2>2 DEF Only, Unmade, SideTypes
    <2>4. /\ GoesOn(k, "mark") /\ caller'[k].side = made'
          /\ caller'[k].lease = caller[k].lease
      BY <1>1 DEF Publish, GoesOn, OnlyCaller, CallerTypes, Tasks
    <2>5. /\ At(k, "publish") /\ Valid(caller[k].lease)
          /\ live' = [live EXCEPT ![caller[k].thread] = made']
          /\ ended' = ended \ {caller[k].thread}
          /\ UNCHANGED <<starting, waking, lines>>
          /\ UNCHANGED <<link, starter, runner, carried, owed, rest>>
      BY <1>1 DEF Publish, Current
    <2> QED
      BY <2>1, <2>3, <2>4, <2>5
  <1>2. CASE ~Current(k)
    <2>1. Refuses(k)
      BY <1>2 DEF Publish
    <2> QED
      BY <1>2, <2>1, RefusesDoes DEF Publish, Current, GivesBack
  <1> QED
    BY <1>1, <1>2

BroughtUpEffect(k) ==
  /\ At(k, "marked") /\ side[caller[k].side].marking = FALSE
  /\ starting' = starting - 1 /\ GoesOnAlike(k, "say")
  /\ UNCHANGED <<link, live, made, side, waking, starter, runner,
                 carried, archives, rest, lines>>

LEMMA BroughtUpDoes ==
  ASSUME CallerTypes, SideTypes, NEW k \in Callers, BroughtUp(k),
         caller[k].side \in Sides
  PROVE  BroughtUpEffect(k)
  <1> USE DEF BroughtUpEffect
  <1>1. side[caller[k].side].marking = FALSE
    BY DEF BroughtUp, SideTypes, LiveSides
  <1> QED
    BY <1>1, GoesDoes DEF BroughtUp, GivesBack

SayEffect(k, s, l) ==
  /\ At(k, "say") /\ Left(k)
  /\ \A q \in Sides : q # s => starter'[q] = starter[q]
  /\ starter'[s] = IF caller[k].lease = -1 THEN starter[s]
                   ELSE "building"
  /\ EndsStay /\ MarksStay /\ AgentsStay /\ Only(s)
  /\ side'[s].slipped = side[s].slipped
  /\ \/ /\ l \in Blanks /\ lines'[l] = "heard" /\ LinesStay(l)
        /\ QueuesStay /\ UNCHANGED <<runner, carried>>
     \/ /\ side[s].phase = "parking"
        /\ carried' = carried \cup {<<side[s].thread, l>>}
        /\ QueuesStay /\ UNCHANGED <<runner, lines>>
     \/ /\ side[s].phase # "parking" /\ side[s].running = TRUE
        /\ side'[s].waiting = Append(side[s].waiting, l)
        /\ side'[s].running = TRUE
        /\ UNCHANGED <<runner, carried, lines>>
     \/ /\ side[s].phase # "parking" /\ side[s].running = FALSE
        /\ side'[s].waiting = side[s].waiting
        /\ side'[s].running = TRUE
        /\ \E r \in Runners :
             /\ runner[r].pc = "free" /\ OnlyRunner(r)
             /\ runner'[r].pc = "door" /\ runner'[r].side = s
             /\ runner'[r].line = l
        /\ UNCHANGED <<carried, lines>>
  /\ UNCHANGED <<room, archives, rest>>

LEMMA SayDoes ==
  ASSUME CallerTypes, SideTypes, RunnerTypes, LineTypes, StarterTypes,
         NEW k \in Callers, Say(k), NEW s \in Sides, s = caller[k].side,
         NEW l \in Lines, l = caller[k].line
  PROVE  SayEffect(k, s, l)
  <1> USE DEF SayEffect
  <1>1. At(k, "say") /\ Left(k) /\ UNCHANGED <<room, archives, rest>>
    BY LeavesDoes DEF Say
  <1>2. /\ \A q \in Sides : q # s => starter'[q] = starter[q]
        /\ starter'[s] = IF caller[k].lease = -1 THEN starter[s]
                         ELSE "building"
    BY DEF Say, StarterTypes
  <1>3. side[s].running \in BOOLEAN
    BY DEF SideTypes, LiveSides
  <1>4. CASE l \in Blanks
    BY Zenon, <1>1, <1>2, <1>4, FateOfOne, SideUnchanged DEF Say, SidesStay
  <1>5. CASE l \notin Blanks /\ side[s].phase = "parking"
    BY <1>1, <1>2, <1>5, SideUnchanged DEF Say, SidesStay, Queue
  <1>6. CASE /\ l \notin Blanks /\ side[s].phase # "parking"
             /\ side[s].running = TRUE
    <2>1. /\ side' = [side EXCEPT ![s].waiting = Append(side[s].waiting, l)]
          /\ UNCHANGED <<runner, carried, lines>>
      BY <1>6 DEF Say, Queue, Claim
    <2>2. /\ EndsStay /\ AgentsStay /\ MarksStay /\ Only(s)
          /\ side'[s].waiting = Append(side[s].waiting, l)
          /\ side'[s].running = side[s].running
          /\ side'[s].slipped = side[s].slipped
      BY Zenon, <2>1, WaitingSet
    <2> QED
      BY Zenon, <1>1, <1>2, <1>6, <2>1, <2>2
  <1>7. CASE /\ l \notin Blanks /\ side[s].phase # "parking"
             /\ side[s].running = FALSE
    <2>1. /\ side' = [side EXCEPT ![s].running = TRUE]
          /\ UNCHANGED <<carried, lines>>
      BY <1>7 DEF Say, Queue, Claim
    <2>2. PICK r \in Runners :
            /\ runner[r].pc = "free"
            /\ runner' = [runner EXCEPT ![r] =
                 [Free EXCEPT !.pc = "door", !.side = s, !.line = l]]
      BY <1>7 DEF Say, Queue, Claim
    <2>3. /\ OnlyRunner(r)
          /\ runner'[r].pc = "door" /\ runner'[r].side = s
          /\ runner'[r].line = l
      BY <2>2 DEF Free, OnlyRunner, RunnerTypes
    <2>4. /\ EndsStay /\ AgentsStay /\ MarksStay /\ Only(s)
          /\ side'[s].running = TRUE /\ side'[s].waiting = side[s].waiting
          /\ side'[s].slipped = side[s].slipped
      BY <2>1, RunningSet
    <2> QED
      BY <1>1, <1>2, <1>7, <2>1, <2>2, <2>3, <2>4
  <1> QED
    BY Zenon, <1>3, <1>4, <1>5, <1>6, <1>7

(* A call that begins.                                                     *)
Begun(k, pc, t, l) ==
  /\ OnlyCaller(k)
  /\ caller'[k].pc = pc /\ caller'[k].thread = t /\ caller'[k].line = l

ReopenEffect(k) ==
  /\ At(k, "idle")
  /\ \E t \in Threads, l \in Lines :
       /\ <<t, l>> \in carried /\ carried' = carried \ {<<t, l>>}
       /\ Begun(k, "knock", t, l)
  /\ caller'[k].lease = -1 /\ caller'[k].side = Nothing
  /\ UNCHANGED <<room, side, waking, starter, runner, archives, rest,
                 lines>>

LEMMA ReopenDoes ==
  ASSUME CallerTypes, RoomTypes, NEW k \in Callers, Reopen(k)
  PROVE  ReopenEffect(k)
  <1> USE DEF ReopenEffect
  <1>1. PICK c \in carried :
          /\ carried' = carried \ {c}
          /\ caller' = [caller EXCEPT ![k] = [Idle EXCEPT !.pc = "knock",
                                                !.thread = c[1],
                                                !.line = c[2]]]
    BY Zenon DEF Reopen
  <1>2. PICK t \in Threads, l \in Lines : c = <<t, l>>
    BY DEF RoomTypes
  <1>3. caller' = [caller EXCEPT ![k] = [Idle EXCEPT !.pc = "knock",
                                                !.thread = t, !.line = l]]
    BY <1>1, <1>2
  <1>4. /\ Begun(k, "knock", t, l)
        /\ caller'[k].lease = -1 /\ caller'[k].side = Nothing
    BY <1>3 DEF Begun, OnlyCaller, Idle, CallerTypes
  <1>5. /\ <<t, l>> \in carried /\ carried' = carried \ {<<t, l>>}
    BY <1>1, <1>2
  <1> QED
    BY <1>4, <1>5 DEF Reopen

AskEffect(k, t, l) ==
  /\ At(k, "idle") /\ link[t] # "none" /\ lines[l] = "unsaid"
  /\ Begun(k, "knock", t, l)
  /\ caller'[k].lease = -1 /\ caller'[k].side = Nothing
  /\ lines'[l] = "said" /\ LinesStay(l)
  /\ UNCHANGED <<room, side, waking, starter, runner, carried,
                 archives, rest>>

LEMMA AskDoes ==
  ASSUME CallerTypes, LineTypes, NEW k \in Callers, NEW t \in Threads,
         NEW l \in Lines, NEW c \in BOOLEAN, Ask(k, t, l, c)
  PROVE  AskEffect(k, t, l)
  <1> USE DEF AskEffect
  <1>1. Begun(k, "knock", t, l) /\ caller'[k].lease = -1
        /\ caller'[k].side = Nothing
    BY DEF Ask, Begun, OnlyCaller, Idle, CallerTypes
  <1> QED
    BY <1>1, FateOfOne DEF Ask

OpenEffect(k, t, l) ==
  /\ At(k, "idle") /\ lines[l] = "unsaid"
  /\ \A j \in Callers : caller[j].thread # t
  /\ \A s \in Made : side[s].thread # t
  /\ Valid(epoch)
  /\ Begun(k, "reserve", t, l)
  /\ caller'[k].lease = epoch /\ caller'[k].side = Nothing
  /\ lines'[l] = "said" /\ LinesStay(l)
  /\ UNCHANGED <<room, side, waking, starter, runner, carried,
                 archives, rest>>

LEMMA OpenDoes ==
  ASSUME CallerTypes, LineTypes, NEW k \in Callers, NEW t \in Threads,
         NEW l \in Lines, Open(k, t, l)
  PROVE  OpenEffect(k, t, l)
  <1> USE DEF OpenEffect
  <1>1. Begun(k, "reserve", t, l) /\ caller'[k].lease = epoch
        /\ caller'[k].side = Nothing
    BY DEF Open, Begun, OnlyCaller, Idle, CallerTypes
  <1> QED
    BY <1>1, FateOfOne DEF Open, Made

DropsEffect ==
  /\ revoking = TRUE /\ revoking' = FALSE
  /\ \A s : s \in dropping' <=> \E t \in Threads : live[t] # Nothing /\ live[t] = s
  /\ UNCHANGED <<room, side, tasks, epoch, marks, lines, scene>>

LEMMA DropsDoes ==
  ASSUME Drops
  PROVE  DropsEffect
  <1> USE DEF DropsEffect
  <1> QED
    BY DEF Drops, Held

InvalidateEffect ==
  /\ epoch % 2 = 0 /\ epoch' = epoch + 1 /\ revoking' = TRUE
  /\ UNCHANGED <<room, side, tasks, dropping, marks, lines, scene>>

LEMMA InvalidateDoes ==
  ASSUME Invalidate
  PROVE  InvalidateEffect
  BY DEF Invalidate, InvalidateEffect

ReattachEffect ==
  /\ epoch % 2 = 1 /\ ~revoking /\ dropping = {} /\ epoch' = epoch + 1
  /\ UNCHANGED <<room, side, tasks, revoking, dropping, marks,
                 lines, scene>>

LEMMA ReattachDoes ==
  ASSUME Reattach
  PROVE  ReattachEffect
  BY DEF Reattach, ReattachEffect
-----------------------------------------------------------------------------
(* What the types and the known say of whom a step is about.               *)
Settled == /\ SideTypes /\ CallerTypes /\ RunnerTypes /\ LineTypes
           /\ RoomTypes /\ StarterTypes /\ Made \subseteq Sides
           /\ made \in Nat
LEMMA Whom ==
  ASSUME Types, Known
  PROVE  /\ Settled
         /\ \A s \in Sides : /\ side[s].going # "no" => s \in Made
                             /\ side[s].marking # FALSE => s \in Made
                             /\ starter[s] # "none" => s \in Made
         /\ \A r \in Runners : runner[r].pc # "free" =>
              /\ runner[r].side \in Made /\ runner[r].side \in Sides
              /\ runner[r].line \in Lines
         /\ \A k \in Callers : ~At(k, "idle") => /\ caller[k].thread \in Threads
                                                 /\ caller[k].line \in Lines
         /\ \A k \in Callers :
              caller[k].pc \in {"mark", "marked", "say", "evict", "evicting"}
                => caller[k].side \in Made /\ caller[k].side \in Sides
  <1>1. Settled
    BY MadeSides, BoundsAssumption DEF Types, Settled, RoomTypes, StarterTypes
  <1>2. \A s \in Sides : /\ side[s].going # "no" => s \in Made
                         /\ side[s].marking # FALSE => s \in Made
                         /\ starter[s] # "none" => s \in Made
    BY DEF Known, Unborn
  <1> QED
    BY <1>1, <1>2 DEF Known, Unborn, CallersAgree, Settled

(* A step of what the invariant holds of does as much, to what there is.   *)

LEMMA LetGoSteps ==
  ASSUME Types, Known, MapAgrees, NEW s \in Sides, LetGo(s)
  PROVE  s \in Made /\ LetGoEffect(s)
  <1>1. s \in Made
    BY Whom DEF LetGo
  <1> QED
    BY <1>1, Whom, LetGoDoes DEF Settled

LEMMA WriteEndSteps ==
  ASSUME Types, Known, MapAgrees, NEW s \in Sides, WriteEnd(s)
  PROVE  s \in Made /\ WriteEndEffect(s)
  <1>1. s \in Made
    BY Whom DEF WriteEnd
  <1> QED
    BY <1>1, Whom, WriteEndDoes DEF Settled

LEMMA LeaveSteps ==
  ASSUME Types, Known, MapAgrees, NEW s \in Sides, Leave(s)
  PROVE  s \in Made /\ LeaveEffect(s)
  <1>1. s \in Made
    BY Whom DEF Leave
  <1> QED
    BY <1>1, Whom, LeaveDoes DEF Settled

LEMMA MarkedSteps ==
  ASSUME Types, Known, MapAgrees, NEW s \in Sides, Marked(s)
  PROVE  s \in Made /\ MarkedEffect(s)
  <1>1. s \in Made
    BY Whom DEF Marked
  <1> QED
    BY <1>1, Whom, MarkedDoes DEF Settled

LEMMA BuiltSteps ==
  ASSUME Types, Known, MapAgrees, NEW s \in Sides, Built(s)
  PROVE  s \in Made /\ BuiltEffect(s)
  <1>1. s \in Made
    BY Whom DEF Built
  <1> QED
    BY <1>1, Whom, BuiltDoes DEF Settled

LEMMA LooksUpSteps ==
  ASSUME Types, Known, MapAgrees, NEW s \in Sides, LooksUp(s)
  PROVE  s \in Made /\ LooksUpEffect(s)
  <1>1. s \in Made
    BY Whom DEF LooksUp
  <1> QED
    BY <1>1, Whom, LooksUpDoes DEF Settled

LEMMA TakesFirstSteps ==
  ASSUME Types, Known, MapAgrees, NEW s \in Sides, TakesFirst(s)
  PROVE  s \in Made /\ TakesFirstEffect(s)
  <1>1. s \in Made
    BY Whom DEF TakesFirst
  <1> QED
    BY <1>1, Whom, TakesFirstDoes DEF Settled

LEMMA StartFailsSteps ==
  ASSUME Types, Known, MapAgrees, NEW s \in Sides, StartFails(s)
  PROVE  s \in Made /\ StartFailsEffect(s)
  <1>1. s \in Made
    BY Whom DEF StartFails
  <1> QED
    BY <1>1, Whom, StartFailsDoes DEF Settled

LEMMA DropSteps ==
  ASSUME Types, Known, MapAgrees, NEW s \in Sides, Drop(s)
  PROVE  s \in Made /\ DropEffect(s)
  <1>1. s \in Made
    BY Whom DEF Drop, Known, Unborn
  <1> QED
    BY <1>1, Whom, DropDoes DEF Settled

LEMMA BeginSteps ==
  ASSUME Types, Known, MapAgrees, NEW r \in Runners, Begin(r)
  PROVE  runner[r].side \in Made /\ runner[r].side \in Sides /\ runner[r].line \in Lines /\ BeginEffect(r)
  <1>1. runner[r].side \in Made /\ runner[r].side \in Sides /\ runner[r].line \in Lines
    BY Whom DEF Begin, Rest
  <1> QED
    BY <1>1, Whom, BeginDoes DEF Settled

LEMMA EndTurnSteps ==
  ASSUME Types, Known, MapAgrees, NEW r \in Runners, EndTurn(r)
  PROVE  runner[r].side \in Made /\ runner[r].side \in Sides /\ runner[r].line \in Lines /\ EndTurnEffect(r)
  <1>1. runner[r].side \in Made /\ runner[r].side \in Sides /\ runner[r].line \in Lines
    BY Whom DEF EndTurn, Rest
  <1> QED
    BY <1>1, Whom, EndTurnDoes DEF Settled

LEMMA StopsSteps ==
  ASSUME Types, Known, MapAgrees, NEW r \in Runners, Stops(r)
  PROVE  runner[r].side \in Made /\ runner[r].side \in Sides /\ runner[r].line \in Lines /\ StopsEffect(r)
  <1>1. runner[r].side \in Made /\ runner[r].side \in Sides /\ runner[r].line \in Lines
    BY Whom DEF Stops, Rest
  <1> QED
    BY <1>1, Whom, StopsDoes DEF Settled

LEMMA NextLineSteps ==
  ASSUME Types, Known, MapAgrees, NEW r \in Runners, NextLine(r)
  PROVE  runner[r].side \in Made /\ runner[r].side \in Sides /\ runner[r].line \in Lines /\ NextLineEffect(r)
  <1>1. runner[r].side \in Made /\ runner[r].side \in Sides /\ runner[r].line \in Lines
    BY Whom DEF NextLine, Rest
  <1> QED
    BY <1>1, Whom, NextLineDoes DEF Settled

LEMMA RestsSteps ==
  ASSUME Types, Known, MapAgrees, NEW r \in Runners, Rests(r)
  PROVE  runner[r].side \in Made /\ runner[r].side \in Sides /\ runner[r].line \in Lines /\ RestsEffect(r)
  <1>1. runner[r].side \in Made /\ runner[r].side \in Sides /\ runner[r].line \in Lines
    BY Whom DEF Rests, Rest
  <1> QED
    BY <1>1, Whom, RestsDoes DEF Settled

LEMMA ReopenSteps ==
  ASSUME Types, Known, MapAgrees, NEW k \in Callers, Reopen(k)
  PROVE  ReopenEffect(k)
  BY Whom, ReopenDoes DEF Settled

LEMMA AdmittedSteps ==
  ASSUME Types, Known, MapAgrees, NEW k \in Callers, Admitted(k)
  PROVE  caller[k].line \in Lines /\ caller[k].thread \in Threads /\ AdmittedEffect(k)
  <1>1. caller[k].line \in Lines /\ caller[k].thread \in Threads
    BY Whom DEF Admitted, At
  <1> QED
    BY <1>1, Whom, AdmittedDoes DEF Settled

LEMMA LooksSteps ==
  ASSUME Types, Known, MapAgrees, NEW k \in Callers, Looks(k)
  PROVE  caller[k].line \in Lines /\ caller[k].thread \in Threads /\ LooksEffect(k)
  <1>1. caller[k].line \in Lines /\ caller[k].thread \in Threads
    BY Whom DEF Looks, At
  <1> QED
    BY <1>1, Whom, LooksDoes DEF Settled

LEMMA ReserveSteps ==
  ASSUME Types, Known, MapAgrees, NEW k \in Callers, Reserve(k)
  PROVE  caller[k].line \in Lines /\ caller[k].thread \in Threads /\ ReserveEffect(k)
  <1>1. caller[k].line \in Lines /\ caller[k].thread \in Threads
    BY Whom DEF Reserve, At
  <1> QED
    BY <1>1, Whom, ReserveDoes DEF Settled

LEMMA EvictSteps ==
  ASSUME Types, Known, MapAgrees, NEW k \in Callers, Evict(k)
  PROVE  caller[k].line \in Lines /\ caller[k].thread \in Threads /\ caller[k].side \in Made
            /\ caller[k].side \in Sides /\ EvictEffect(k)
  <1>1. caller[k].line \in Lines /\ caller[k].thread \in Threads /\ caller[k].side \in Made
        /\ caller[k].side \in Sides
    BY Whom DEF Evict, At
  <1> QED
    BY <1>1, Whom, EvictDoes DEF Settled

LEMMA EvictedSteps ==
  ASSUME Types, Known, MapAgrees, NEW k \in Callers, Evicted(k)
  PROVE  caller[k].line \in Lines /\ caller[k].thread \in Threads /\ caller[k].side \in Made
            /\ caller[k].side \in Sides /\ EvictedEffect(k)
  <1>1. caller[k].line \in Lines /\ caller[k].thread \in Threads /\ caller[k].side \in Made
        /\ caller[k].side \in Sides
    BY Whom DEF Evicted, At
  <1> QED
    BY <1>1, Whom, EvictedDoes DEF Settled

LEMMA PublishSteps ==
  ASSUME Types, Known, MapAgrees, NEW k \in Callers, Publish(k)
  PROVE  caller[k].line \in Lines /\ caller[k].thread \in Threads /\ PublishEffect(k)
  <1>1. caller[k].line \in Lines /\ caller[k].thread \in Threads
    BY Whom DEF Publish, At
  <1> QED
    BY <1>1, Whom, PublishDoes DEF Settled

LEMMA MarksLiveSteps ==
  ASSUME Types, Known, MapAgrees, NEW k \in Callers, MarksLive(k)
  PROVE  caller[k].line \in Lines /\ caller[k].thread \in Threads /\ caller[k].side \in Made
            /\ caller[k].side \in Sides /\ MarksLiveEffect(k)
  <1>1. caller[k].line \in Lines /\ caller[k].thread \in Threads /\ caller[k].side \in Made
        /\ caller[k].side \in Sides
    BY Whom DEF MarksLive, At
  <1> QED
    BY <1>1, Whom, MarksLiveDoes DEF Settled

LEMMA BroughtUpSteps ==
  ASSUME Types, Known, MapAgrees, NEW k \in Callers, BroughtUp(k)
  PROVE  caller[k].line \in Lines /\ caller[k].thread \in Threads /\ caller[k].side \in Made
            /\ caller[k].side \in Sides /\ BroughtUpEffect(k)
  <1>1. caller[k].line \in Lines /\ caller[k].thread \in Threads /\ caller[k].side \in Made
        /\ caller[k].side \in Sides
    BY Whom DEF BroughtUp, At
  <1> QED
    BY <1>1, Whom, BroughtUpDoes DEF Settled

LEMMA SaySteps ==
  ASSUME Types, Known, MapAgrees, NEW k \in Callers, Say(k)
  PROVE  caller[k].line \in Lines /\ caller[k].thread \in Threads /\ caller[k].side \in Made
            /\ caller[k].side \in Sides /\ SayEffect(k, caller[k].side, caller[k].line)
  <1>1. caller[k].line \in Lines /\ caller[k].thread \in Threads /\ caller[k].side \in Made
        /\ caller[k].side \in Sides
    BY Whom DEF Say, At
  <1> QED
    BY <1>1, Whom, SayDoes DEF Settled

LEMMA ArchiveOwedSteps ==
  ASSUME Types, Known, MapAgrees, NEW t \in Threads, ArchiveOwed(t)
  PROVE  ArchiveOwedEffect(t)
  BY Whom, ArchiveOwedDoes DEF Settled

LEMMA AskSteps ==
  ASSUME Types, Known, MapAgrees, NEW k \in Callers, NEW t \in Threads,
  NEW l \in Lines, NEW c \in BOOLEAN, Ask(k, t, l, c)
  PROVE  AskEffect(k, t, l)
  BY Whom, AskDoes DEF Settled

LEMMA OpenSteps ==
  ASSUME Types, Known, MapAgrees, NEW k \in Callers, NEW t \in Threads,
  NEW l \in Lines, Open(k, t, l)
  PROVE  OpenEffect(k, t, l)
  BY Whom, OpenDoes DEF Settled

LEMMA ParkSteps ==
  ASSUME Types, Known, MapAgrees, NEW t \in Threads, Park(t)
  PROVE  ParkEffect(t)
  BY Whom, ParkDoes DEF Settled

LEMMA ArchiveSteps ==
  ASSUME Types, Known, MapAgrees, NEW t \in Threads, Archive(t)
  PROVE  ArchiveEffect(t)
  BY Whom, ArchiveDoes DEF Settled

LEMMA MarkSteps ==
  ASSUME Types, Known, MapAgrees, NEW s \in Sides, Mark(s)
  PROVE  s \in Made /\ MarkEffect(s)
  <1>1. s \in Made
    BY Whom DEF Mark, InRoom, MapAgrees, Nothing, Sides, Made
  <1> QED
    BY <1>1, Whom, MarkDoes DEF Settled

LEMMA StopSteps ==
  ASSUME Types, Known, MapAgrees, NEW s \in Sides, Stop(s)
  PROVE  s \in Made /\ StopEffect(s)
  <1>1. s \in Made
    BY Whom DEF Stop, InRoom, MapAgrees, Nothing, Sides, Made
  <1> QED
    BY <1>1, Whom, StopDoes DEF Settled

(* What a step leaves alone.                                               *)
-----------------------------------------------------------------------------
(* What a step leaves alone.                                               *)
ThreadsSame == /\ \A q \in Sides : side'[q].thread = side[q].thread
               /\ UNCHANGED made
EndsSame == EndsStay /\ UNCHANGED made
LiveSame == UNCHANGED live
LinkSame == UNCHANGED link
CallersSame == UNCHANGED <<caller, waking>>
AgentsSame == AgentsStay /\ UNCHANGED starter
RunnersSame == UNCHANGED runner
LinesSame == UNCHANGED lines
CarriedSame == UNCHANGED carried
ArchivesSame == UNCHANGED <<owed, ended>>
EpochSame == UNCHANGED <<epoch, revoking, dropping>>
StartingSame == UNCHANGED starting

(* The ending of a side is claimed, or nothing ends.                       *)
ClaimOf(s) ==
  /\ UNCHANGED made
  /\ \/ ClaimStep(s, "closing", "closed", FALSE)
     \/ ClaimStep(s, "closing", "prior", FALSE)
     \/ ClaimStep(s, "parking", "parked", FALSE)
     \/ ParkStep(s)
MayClaim(s) ==
  \/ UNCHANGED side
  \/ ClaimStep(s, "closing", "closed", FALSE)
  \/ ClaimStep(s, "closing", "prior", FALSE)
  \/ ClaimStep(s, "parking", "parked", FALSE)
  \/ ParkStep(s)
Claimed == EndsSame \/ \E s \in Made : ClaimOf(s)

(* A step that may claim an ending leaves the rest of every side.          *)
LEMMA ClaimLeaves ==
  ASSUME NEW s \in Made, MayClaim(s), UNCHANGED made
  PROVE  /\ Claimed /\ ThreadsSame
         /\ QueuesStay /\ MarksStay /\ AgentsStay
  <1>1. CASE UNCHANGED side
    BY <1>1 DEF Claimed, EndsSame, ThreadsSame, EndsStay, QueuesStay,
      MarksStay, AgentsStay
  <1>2. CASE ~UNCHANGED side
    <2>1. ClaimOf(s)
      BY <1>2 DEF MayClaim, ClaimOf
    <2>2. QueuesStay /\ MarksStay /\ AgentsStay /\ ThreadsSame
      BY <2>1 DEF ClaimOf, ClaimStep, ParkStep, ThreadsSame
    <2> QED
      BY <2>1, <2>2 DEF Claimed
  <1> QED
    BY <1>1, <1>2
-----------------------------------------------------------------------------
(* Each action, by what it leaves alone.                                   *)
LEMMA LetGoFrame ==
  ASSUME Types, Known, MapAgrees, NEW s \in Sides, LetGo(s)
  PROVE  UNCHANGED scene /\ ThreadsSame /\ LiveSame /\ LinkSame /\ CallersSame
         /\ MarksStay /\ RunnersSame /\ CarriedSame /\ ArchivesSame /\
         EpochSame /\ StartingSame
  BY LetGoSteps, SideUnchanged
  DEF LetGoEffect, room, tasks, rest, archives,
         ThreadsSame, LiveSame, LinkSame, CallersSame, MarksStay, RunnersSame,
         CarriedSame, ArchivesSame, EpochSame, StartingSame, EndsStay,
         QueuesStay, MarksStay, AgentsStay, SidesStay

LEMMA WriteEndFrame ==
  ASSUME Types, Known, MapAgrees, NEW s \in Sides, WriteEnd(s)
  PROVE  UNCHANGED scene /\ ThreadsSame /\ LiveSame /\ CallersSame /\
         QueuesStay /\ MarksStay /\ AgentsSame /\ RunnersSame /\ LinesSame /\
         CarriedSame /\ ArchivesSame /\ EpochSame /\ StartingSame
  BY WriteEndSteps, SideUnchanged
  DEF WriteEndEffect, room, tasks, rest, archives,
         ThreadsSame, LiveSame, CallersSame, QueuesStay, MarksStay, AgentsSame,
         RunnersSame, LinesSame, CarriedSame, ArchivesSame, EpochSame,
         StartingSame, EndsStay, QueuesStay, MarksStay, AgentsStay, SidesStay

LEMMA LeaveFrame ==
  ASSUME Types, Known, MapAgrees, NEW s \in Sides, Leave(s)
  PROVE  UNCHANGED scene /\ ThreadsSame /\ LinkSame /\ CallersSame /\
         QueuesStay /\ MarksStay /\ AgentsSame /\ RunnersSame /\ LinesSame /\
         CarriedSame /\ ArchivesSame /\ EpochSame /\ StartingSame
  BY LeaveSteps, SideUnchanged
  DEF LeaveEffect, room, tasks, rest, archives,
         ThreadsSame, LinkSame, CallersSame, QueuesStay, MarksStay, AgentsSame,
         RunnersSame, LinesSame, CarriedSame, ArchivesSame, EpochSame,
         StartingSame, EndsStay, QueuesStay, MarksStay, AgentsStay, SidesStay

LEMMA MarkedFrame ==
  ASSUME Types, Known, MapAgrees, NEW s \in Sides, Marked(s)
  PROVE  UNCHANGED scene /\ ThreadsSame /\ EndsSame /\ LiveSame /\ CallersSame
         /\ QueuesStay /\ AgentsSame /\ RunnersSame /\ LinesSame /\ CarriedSame
         /\ ArchivesSame /\ EpochSame /\ StartingSame
  BY MarkedSteps, SideUnchanged
  DEF MarkedEffect, room, tasks, rest, archives,
         ThreadsSame, EndsSame, LiveSame, CallersSame, QueuesStay, AgentsSame,
         RunnersSame, LinesSame, CarriedSame, ArchivesSame, EpochSame,
         StartingSame, EndsStay, QueuesStay, MarksStay, AgentsStay, SidesStay

LEMMA BuiltFrame ==
  ASSUME Types, Known, MapAgrees, NEW s \in Sides, Built(s)
  PROVE  UNCHANGED scene /\ ThreadsSame /\ EndsSame /\ LiveSame /\ LinkSame /\
         CallersSame /\ QueuesStay /\ MarksStay /\ RunnersSame /\ LinesSame /\
         CarriedSame /\ ArchivesSame /\ EpochSame /\ StartingSame
  BY BuiltSteps, SideUnchanged
  DEF BuiltEffect, room, tasks, rest, archives,
         ThreadsSame, EndsSame, LiveSame, LinkSame, CallersSame, QueuesStay,
         MarksStay, RunnersSame, LinesSame, CarriedSame, ArchivesSame,
         EpochSame, StartingSame, EndsStay, QueuesStay, MarksStay, AgentsStay,
         SidesStay

LEMMA LooksUpFrame ==
  ASSUME Types, Known, MapAgrees, NEW s \in Sides, LooksUp(s)
  PROVE  UNCHANGED scene /\ ThreadsSame /\ EndsSame /\ LiveSame /\ LinkSame /\
         CallersSame /\ QueuesStay /\ MarksStay /\ RunnersSame /\ LinesSame /\
         CarriedSame /\ ArchivesSame /\ EpochSame /\ StartingSame
  BY LooksUpSteps, SideUnchanged
  DEF LooksUpEffect, room, tasks, rest, archives,
         ThreadsSame, EndsSame, LiveSame, LinkSame, CallersSame, QueuesStay,
         MarksStay, RunnersSame, LinesSame, CarriedSame, ArchivesSame,
         EpochSame, StartingSame, EndsStay, QueuesStay, MarksStay, AgentsStay,
         SidesStay

LEMMA TakesFirstFrame ==
  ASSUME Types, Known, MapAgrees, NEW s \in Sides, TakesFirst(s)
  PROVE  UNCHANGED scene /\ ThreadsSame /\ EndsSame /\ LiveSame /\ LinkSame /\
         CallersSame /\ MarksStay /\ LinesSame /\ CarriedSame /\ ArchivesSame
         /\ EpochSame /\ StartingSame
  BY TakesFirstSteps, SideUnchanged
  DEF TakesFirstEffect, room, tasks, rest, archives,
         ThreadsSame, EndsSame, LiveSame, LinkSame, CallersSame, MarksStay,
         LinesSame, CarriedSame, ArchivesSame, EpochSame, StartingSame,
         EndsStay, QueuesStay, MarksStay, AgentsStay, SidesStay

LEMMA StartFailsFrame ==
  ASSUME Types, Known, MapAgrees, NEW s \in Sides, StartFails(s)
  PROVE  UNCHANGED scene /\ ThreadsSame /\ Claimed /\ LiveSame /\ LinkSame /\
         CallersSame /\ QueuesStay /\ MarksStay /\ RunnersSame /\ LinesSame /\
         CarriedSame /\ ArchivesSame /\ EpochSame /\ StartingSame
  <1>1. s \in Made /\ MayClaim(s) /\ UNCHANGED made
    BY StartFailsSteps
    DEF StartFailsEffect, MayClaim, CloseStep, EndedStep, room
  <1>2. /\ Claimed /\ ThreadsSame
        /\ QueuesStay /\ MarksStay /\ AgentsStay
    BY <1>1, ClaimLeaves
  <1> QED
    BY <1>2, StartFailsSteps
    DEF StartFailsEffect, room, tasks, rest, archives,
        LiveSame, LinkSame, CallersSame, RunnersSame, LinesSame, CarriedSame,
        ArchivesSame, EpochSame, StartingSame

LEMMA DropFrame ==
  ASSUME Types, Known, MapAgrees, NEW s \in Sides, Drop(s)
  PROVE  UNCHANGED scene /\ ThreadsSame /\ Claimed /\ LiveSame /\ LinkSame /\
         CallersSame /\ QueuesStay /\ MarksStay /\ AgentsSame /\ RunnersSame /\
         LinesSame /\ CarriedSame /\ ArchivesSame /\ StartingSame
  <1>1. s \in Made /\ MayClaim(s) /\ UNCHANGED made
    BY DropSteps
    DEF DropEffect, MayClaim, CloseStep, EndedStep, room
  <1>2. /\ Claimed /\ ThreadsSame
        /\ QueuesStay /\ MarksStay /\ AgentsStay
    BY <1>1, ClaimLeaves
  <1> QED
    BY <1>2, DropSteps
    DEF DropEffect, room, tasks, rest, archives,
        LiveSame, LinkSame, CallersSame, AgentsSame, RunnersSame, LinesSame,
        CarriedSame, ArchivesSame, StartingSame

LEMMA BeginFrame ==
  ASSUME Types, Known, MapAgrees, NEW r \in Runners, Begin(r)
  PROVE  UNCHANGED scene /\ ThreadsSame /\ EndsSame /\ LiveSame /\ LinkSame /\
         CallersSame /\ QueuesStay /\ MarksStay /\ AgentsSame /\ CarriedSame /\
         ArchivesSame /\ EpochSame /\ StartingSame
  BY BeginSteps, SideUnchanged
  DEF BeginEffect, room, tasks, rest, archives,
         ThreadsSame, EndsSame, LiveSame, LinkSame, CallersSame, QueuesStay,
         MarksStay, AgentsSame, CarriedSame, ArchivesSame, EpochSame,
         StartingSame, EndsStay, QueuesStay, MarksStay, AgentsStay, SidesStay

LEMMA EndTurnFrame ==
  ASSUME Types, Known, MapAgrees, NEW r \in Runners, EndTurn(r)
  PROVE  UNCHANGED scene /\ ThreadsSame /\ Claimed /\ LiveSame /\ LinkSame /\
         CallersSame /\ QueuesStay /\ MarksStay /\ AgentsSame /\ LinesSame /\
         CarriedSame /\ ArchivesSame /\ EpochSame /\ StartingSame
  <1>1. runner[r].side \in Made /\ MayClaim(runner[r].side) /\ UNCHANGED made
    BY EndTurnSteps, CloseDoes, Whom
    DEF EndTurnEffect, MayClaim, CloseStep, EndedStep, room, Settled
  <1>2. /\ Claimed /\ ThreadsSame
        /\ QueuesStay /\ MarksStay /\ AgentsStay
    BY <1>1, ClaimLeaves
  <1> QED
    BY <1>2, EndTurnSteps
    DEF EndTurnEffect, room, tasks, rest, archives,
        LiveSame, LinkSame, CallersSame, AgentsSame, LinesSame, CarriedSame,
        ArchivesSame, EpochSame, StartingSame

LEMMA StopsFrame ==
  ASSUME Types, Known, MapAgrees, NEW r \in Runners, Stops(r)
  PROVE  UNCHANGED scene /\ ThreadsSame /\ EndsSame /\ LiveSame /\ LinkSame /\
         CallersSame /\ QueuesStay /\ MarksStay /\ AgentsSame /\ LinesSame /\
         CarriedSame /\ ArchivesSame /\ EpochSame /\ StartingSame
  BY StopsSteps, SideUnchanged
  DEF StopsEffect, room, tasks, rest, archives,
         ThreadsSame, EndsSame, LiveSame, LinkSame, CallersSame, QueuesStay,
         MarksStay, AgentsSame, LinesSame, CarriedSame, ArchivesSame,
         EpochSame, StartingSame, EndsStay, QueuesStay, MarksStay, AgentsStay,
         SidesStay

LEMMA NextLineFrame ==
  ASSUME Types, Known, MapAgrees, NEW r \in Runners, NextLine(r)
  PROVE  UNCHANGED scene /\ ThreadsSame /\ EndsSame /\ LiveSame /\ LinkSame /\
         CallersSame /\ MarksStay /\ AgentsSame /\ LinesSame /\ CarriedSame /\
         ArchivesSame /\ EpochSame /\ StartingSame
  BY NextLineSteps, SideUnchanged
  DEF NextLineEffect, room, tasks, rest, archives,
         ThreadsSame, EndsSame, LiveSame, LinkSame, CallersSame, MarksStay,
         AgentsSame, LinesSame, CarriedSame, ArchivesSame, EpochSame,
         StartingSame, EndsStay, QueuesStay, MarksStay, AgentsStay, SidesStay

LEMMA RestsFrame ==
  ASSUME Types, Known, MapAgrees, NEW r \in Runners, Rests(r)
  PROVE  UNCHANGED scene /\ ThreadsSame /\ EndsSame /\ LiveSame /\ LinkSame /\
         CallersSame /\ MarksStay /\ AgentsSame /\ LinesSame /\ CarriedSame /\
         ArchivesSame /\ EpochSame /\ StartingSame
  BY RestsSteps, SideUnchanged
  DEF RestsEffect, room, tasks, rest, archives,
         ThreadsSame, EndsSame, LiveSame, LinkSame, CallersSame, MarksStay,
         AgentsSame, LinesSame, CarriedSame, ArchivesSame, EpochSame,
         StartingSame, EndsStay, QueuesStay, MarksStay, AgentsStay, SidesStay

LEMMA ReopenFrame ==
  ASSUME Types, Known, MapAgrees, NEW k \in Callers, Reopen(k)
  PROVE  UNCHANGED scene /\ ThreadsSame /\ EndsSame /\ LiveSame /\ LinkSame /\
         QueuesStay /\ MarksStay /\ AgentsSame /\ RunnersSame /\ LinesSame /\
         ArchivesSame /\ EpochSame /\ StartingSame
  BY ReopenSteps, SideUnchanged
  DEF ReopenEffect, room, tasks, rest, archives,
         ThreadsSame, EndsSame, LiveSame, LinkSame, QueuesStay, MarksStay,
         AgentsSame, RunnersSame, LinesSame, ArchivesSame, EpochSame,
         StartingSame, EndsStay, QueuesStay, MarksStay, AgentsStay, SidesStay

LEMMA AdmittedFrame ==
  ASSUME Types, Known, MapAgrees, NEW k \in Callers, Admitted(k)
  PROVE  UNCHANGED scene /\ ThreadsSame /\ EndsSame /\ LiveSame /\ LinkSame /\
         QueuesStay /\ MarksStay /\ AgentsSame /\ RunnersSame /\ LinesSame /\
         CarriedSame /\ ArchivesSame /\ EpochSame /\ StartingSame
  BY AdmittedSteps, SideUnchanged
  DEF AdmittedEffect, room, tasks, rest, archives,
         ThreadsSame, EndsSame, LiveSame, LinkSame, QueuesStay, MarksStay,
         AgentsSame, RunnersSame, LinesSame, CarriedSame, ArchivesSame,
         EpochSame, StartingSame, EndsStay, QueuesStay, MarksStay, AgentsStay,
         SidesStay

LEMMA LooksFrame ==
  ASSUME Types, Known, MapAgrees, NEW k \in Callers, Looks(k)
  PROVE  UNCHANGED scene /\ ThreadsSame /\ EndsSame /\ LiveSame /\ LinkSame /\
         QueuesStay /\ MarksStay /\ AgentsSame /\ RunnersSame /\ CarriedSame /\
         ArchivesSame /\ EpochSame /\ StartingSame
  BY LooksSteps, SideUnchanged
  DEF LooksEffect, room, tasks, rest, archives,
         ThreadsSame, EndsSame, LiveSame, LinkSame, QueuesStay, MarksStay,
         AgentsSame, RunnersSame, CarriedSame, ArchivesSame, EpochSame,
         StartingSame, EndsStay, QueuesStay, MarksStay, AgentsStay, SidesStay

LEMMA ReserveFrame ==
  ASSUME Types, Known, MapAgrees, NEW k \in Callers, Reserve(k)
  PROVE  UNCHANGED scene /\ ThreadsSame /\ EndsSame /\ LiveSame /\ LinkSame /\
         QueuesStay /\ MarksStay /\ AgentsSame /\ RunnersSame /\ CarriedSame /\
         ArchivesSame /\ EpochSame
  BY ReserveSteps, SideUnchanged
  DEF ReserveEffect, room, tasks, rest, archives,
         ThreadsSame, EndsSame, LiveSame, LinkSame, QueuesStay, MarksStay,
         AgentsSame, RunnersSame, CarriedSame, ArchivesSame, EpochSame,
         EndsStay, QueuesStay, MarksStay, AgentsStay, SidesStay

LEMMA EvictFrame ==
  ASSUME Types, Known, MapAgrees, NEW k \in Callers, Evict(k)
  PROVE  UNCHANGED scene /\ ThreadsSame /\ Claimed /\ LiveSame /\ LinkSame /\
         QueuesStay /\ MarksStay /\ AgentsSame /\ RunnersSame /\ LinesSame /\
         CarriedSame /\ ArchivesSame /\ EpochSame /\ StartingSame
  <1>1. caller[k].side \in Made /\ MayClaim(caller[k].side) /\ UNCHANGED made
    BY EvictSteps
    DEF EvictEffect, MayClaim, CloseStep, EndedStep, room
  <1>2. /\ Claimed /\ ThreadsSame
        /\ QueuesStay /\ MarksStay /\ AgentsStay
    BY <1>1, ClaimLeaves
  <1> QED
    BY <1>2, EvictSteps
    DEF EvictEffect, room, tasks, rest, archives,
        LiveSame, LinkSame, AgentsSame, RunnersSame, LinesSame, CarriedSame,
        ArchivesSame, EpochSame, StartingSame

LEMMA EvictedFrame ==
  ASSUME Types, Known, MapAgrees, NEW k \in Callers, Evicted(k)
  PROVE  UNCHANGED scene /\ ThreadsSame /\ EndsSame /\ LiveSame /\ LinkSame /\
         QueuesStay /\ MarksStay /\ AgentsSame /\ RunnersSame /\ LinesSame /\
         CarriedSame /\ ArchivesSame /\ EpochSame /\ StartingSame
  BY EvictedSteps, SideUnchanged
  DEF EvictedEffect, room, tasks, rest, archives,
         ThreadsSame, EndsSame, LiveSame, LinkSame, QueuesStay, MarksStay,
         AgentsSame, RunnersSame, LinesSame, CarriedSame, ArchivesSame,
         EpochSame, StartingSame, EndsStay, QueuesStay, MarksStay, AgentsStay,
         SidesStay

LEMMA PublishFrame ==
  ASSUME Types, Known, MapAgrees, NEW k \in Callers, Publish(k)
  PROVE  UNCHANGED scene /\ LinkSame /\ RunnersSame /\ CarriedSame /\ EpochSame
  BY PublishSteps, SideUnchanged
  DEF PublishEffect, room, tasks, rest, archives,
         LinkSame, RunnersSame, CarriedSame, EpochSame, EndsStay, QueuesStay,
         MarksStay, AgentsStay, SidesStay

LEMMA MarksLiveFrame ==
  ASSUME Types, Known, MapAgrees, NEW k \in Callers, MarksLive(k)
  PROVE  UNCHANGED scene /\ ThreadsSame /\ EndsSame /\ LiveSame /\ LinkSame /\
         QueuesStay /\ AgentsSame /\ RunnersSame /\ LinesSame /\ CarriedSame /\
         ArchivesSame /\ EpochSame /\ StartingSame
  BY MarksLiveSteps, SideUnchanged
  DEF MarksLiveEffect, room, tasks, rest, archives,
         ThreadsSame, EndsSame, LiveSame, LinkSame, QueuesStay, AgentsSame,
         RunnersSame, LinesSame, CarriedSame, ArchivesSame, EpochSame,
         StartingSame, EndsStay, QueuesStay, MarksStay, AgentsStay, SidesStay

LEMMA BroughtUpFrame ==
  ASSUME Types, Known, MapAgrees, NEW k \in Callers, BroughtUp(k)
  PROVE  UNCHANGED scene /\ ThreadsSame /\ EndsSame /\ LiveSame /\ LinkSame /\
         QueuesStay /\ MarksStay /\ AgentsSame /\ RunnersSame /\ LinesSame /\
         CarriedSame /\ ArchivesSame /\ EpochSame
  BY BroughtUpSteps, SideUnchanged
  DEF BroughtUpEffect, room, tasks, rest, archives,
         ThreadsSame, EndsSame, LiveSame, LinkSame, QueuesStay, MarksStay,
         AgentsSame, RunnersSame, LinesSame, CarriedSame, ArchivesSame,
         EpochSame, EndsStay, QueuesStay, MarksStay, AgentsStay, SidesStay

LEMMA SayFrame ==
  ASSUME Types, Known, MapAgrees, NEW k \in Callers, Say(k)
  PROVE  UNCHANGED scene /\ ThreadsSame /\ EndsSame /\ LiveSame /\ LinkSame /\
         MarksStay /\ ArchivesSame /\ EpochSame /\ StartingSame
  BY SaySteps, SideUnchanged
  DEF SayEffect, room, tasks, rest, archives,
         ThreadsSame, EndsSame, LiveSame, LinkSame, MarksStay, ArchivesSame,
         EpochSame, StartingSame, EndsStay, QueuesStay, MarksStay, AgentsStay,
         SidesStay

LEMMA ArchiveOwedFrame ==
  ASSUME Types, Known, MapAgrees, NEW t \in Threads, ArchiveOwed(t)
  PROVE  UNCHANGED scene /\ ThreadsSame /\ Claimed /\ LiveSame /\ CallersSame
         /\ QueuesStay /\ MarksStay /\ AgentsSame /\ RunnersSame /\ LinesSame
         /\ CarriedSame /\ EpochSame /\ StartingSame
  <1>1. UNCHANGED side \/ (live[t] \in Made /\ MayClaim(live[t]))
    BY ArchiveOwedSteps DEF ArchiveOwedEffect, MayClaim, CloseStep, EndedStep, MapAgrees
  <1>2. /\ Claimed /\ ThreadsSame
        /\ QueuesStay /\ MarksStay /\ AgentsStay
    <2>1. UNCHANGED made
      BY ArchiveOwedSteps DEF ArchiveOwedEffect, room
    <2>2. CASE UNCHANGED side
      BY <2>1, <2>2, SideUnchanged
      DEF SidesStay, EndsStay, Claimed, EndsSame, ThreadsSame
    <2> QED
      BY <1>1, <2>1, <2>2, ClaimLeaves
  <1> QED
    BY <1>2, ArchiveOwedSteps
    DEF ArchiveOwedEffect, room, tasks, rest, archives,
        LiveSame, CallersSame, AgentsSame, RunnersSame, LinesSame, CarriedSame,
        EpochSame, StartingSame

LEMMA DropsFrame ==
  ASSUME Types, Known, MapAgrees, Drops
  PROVE  UNCHANGED scene /\ ThreadsSame /\ EndsSame /\ LiveSame /\ LinkSame /\
         CallersSame /\ QueuesStay /\ MarksStay /\ AgentsSame /\ RunnersSame /\
         LinesSame /\ CarriedSame /\ ArchivesSame /\ StartingSame
  BY DropsDoes, SideUnchanged
  DEF DropsEffect, room, tasks, rest, archives,
         ThreadsSame, EndsSame, LiveSame, LinkSame, CallersSame, QueuesStay,
         MarksStay, AgentsSame, RunnersSame, LinesSame, CarriedSame,
         ArchivesSame, StartingSame, EndsStay, QueuesStay, MarksStay,
         AgentsStay, SidesStay

LEMMA AskFrame ==
  ASSUME Types, Known, MapAgrees, NEW k \in Callers, NEW t \in Threads,
  NEW l \in Lines, NEW c \in BOOLEAN, Ask(k, t, l, c)
  PROVE  UNCHANGED scene /\ ThreadsSame /\ EndsSame /\ LiveSame /\ LinkSame /\
         QueuesStay /\ MarksStay /\ AgentsSame /\ RunnersSame /\ CarriedSame /\
         ArchivesSame /\ EpochSame /\ StartingSame
  BY AskSteps, SideUnchanged
  DEF AskEffect, room, tasks, rest, archives,
         ThreadsSame, EndsSame, LiveSame, LinkSame, QueuesStay, MarksStay,
         AgentsSame, RunnersSame, CarriedSame, ArchivesSame, EpochSame,
         StartingSame, EndsStay, QueuesStay, MarksStay, AgentsStay, SidesStay

LEMMA OpenFrame ==
  ASSUME Types, Known, MapAgrees, NEW k \in Callers, NEW t \in Threads,
  NEW l \in Lines, Open(k, t, l)
  PROVE  UNCHANGED scene /\ ThreadsSame /\ EndsSame /\ LiveSame /\ LinkSame /\
         QueuesStay /\ MarksStay /\ AgentsSame /\ RunnersSame /\ CarriedSame /\
         ArchivesSame /\ EpochSame /\ StartingSame
  BY OpenSteps, SideUnchanged
  DEF OpenEffect, room, tasks, rest, archives,
         ThreadsSame, EndsSame, LiveSame, LinkSame, QueuesStay, MarksStay,
         AgentsSame, RunnersSame, CarriedSame, ArchivesSame, EpochSame,
         StartingSame, EndsStay, QueuesStay, MarksStay, AgentsStay, SidesStay

LEMMA ParkFrame ==
  ASSUME Types, Known, MapAgrees, NEW t \in Threads, Park(t)
  PROVE  UNCHANGED scene /\ ThreadsSame /\ Claimed /\ LiveSame /\ LinkSame /\
         CallersSame /\ QueuesStay /\ MarksStay /\ AgentsSame /\ RunnersSame /\
         LinesSame /\ CarriedSame /\ ArchivesSame /\ EpochSame /\ StartingSame
  <1>1. UNCHANGED side \/ (live[t] \in Made /\ MayClaim(live[t]))
    BY ParkSteps DEF ParkEffect, MayClaim, CloseStep, EndedStep, MapAgrees
  <1>2. /\ Claimed /\ ThreadsSame
        /\ QueuesStay /\ MarksStay /\ AgentsStay
    <2>1. UNCHANGED made
      BY ParkSteps DEF ParkEffect, room
    <2>2. CASE UNCHANGED side
      BY <2>1, <2>2, SideUnchanged
      DEF SidesStay, EndsStay, Claimed, EndsSame, ThreadsSame
    <2> QED
      BY <1>1, <2>1, <2>2, ClaimLeaves
  <1> QED
    BY <1>2, ParkSteps
    DEF ParkEffect, room, tasks, rest, archives,
        LiveSame, LinkSame, CallersSame, AgentsSame, RunnersSame, LinesSame,
        CarriedSame, ArchivesSame, EpochSame, StartingSame

LEMMA ArchiveFrame ==
  ASSUME Types, Known, MapAgrees, NEW t \in Threads, Archive(t)
  PROVE  UNCHANGED scene /\ ThreadsSame /\ Claimed /\ LiveSame /\ CallersSame
         /\ QueuesStay /\ MarksStay /\ AgentsSame /\ RunnersSame /\ LinesSame
         /\ CarriedSame /\ EpochSame /\ StartingSame
  <1>1. UNCHANGED side \/ (live[t] \in Made /\ MayClaim(live[t]))
    BY ArchiveSteps DEF ArchiveEffect, MayClaim, CloseStep, EndedStep, MapAgrees
  <1>2. /\ Claimed /\ ThreadsSame
        /\ QueuesStay /\ MarksStay /\ AgentsStay
    <2>1. UNCHANGED made
      BY ArchiveSteps DEF ArchiveEffect, room
    <2>2. CASE UNCHANGED side
      BY <2>1, <2>2, SideUnchanged
      DEF SidesStay, EndsStay, Claimed, EndsSame, ThreadsSame
    <2> QED
      BY <1>1, <2>1, <2>2, ClaimLeaves
  <1> QED
    BY <1>2, ArchiveSteps
    DEF ArchiveEffect, room, tasks, rest, archives,
        LiveSame, CallersSame, AgentsSame, RunnersSame, LinesSame, CarriedSame,
        EpochSame, StartingSame

LEMMA MarkFrame ==
  ASSUME Types, Known, MapAgrees, NEW s \in Sides, Mark(s)
  PROVE  UNCHANGED scene /\ ThreadsSame /\ EndsSame /\ LiveSame /\ LinkSame /\
         CallersSame /\ QueuesStay /\ AgentsSame /\ RunnersSame /\ LinesSame /\
         CarriedSame /\ ArchivesSame /\ EpochSame /\ StartingSame
  BY MarkSteps, SideUnchanged
  DEF MarkEffect, room, tasks, rest, archives,
         ThreadsSame, EndsSame, LiveSame, LinkSame, CallersSame, QueuesStay,
         AgentsSame, RunnersSame, LinesSame, CarriedSame, ArchivesSame,
         EpochSame, StartingSame, EndsStay, QueuesStay, MarksStay, AgentsStay,
         SidesStay

LEMMA StopFrame ==
  ASSUME Types, Known, MapAgrees, NEW s \in Sides, Stop(s)
  PROVE  UNCHANGED scene /\ ThreadsSame /\ EndsSame /\ LiveSame /\ LinkSame /\
         CallersSame /\ MarksStay /\ AgentsSame /\ RunnersSame /\ CarriedSame
         /\ ArchivesSame /\ EpochSame /\ StartingSame
  BY StopSteps, SideUnchanged
  DEF StopEffect, room, tasks, rest, archives,
         ThreadsSame, EndsSame, LiveSame, LinkSame, CallersSame, MarksStay,
         AgentsSame, RunnersSame, CarriedSame, ArchivesSame, EpochSame,
         StartingSame, EndsStay, QueuesStay, MarksStay, AgentsStay, SidesStay

LEMMA InvalidateFrame ==
  ASSUME Types, Known, MapAgrees, Invalidate
  PROVE  UNCHANGED scene /\ ThreadsSame /\ EndsSame /\ LiveSame /\ LinkSame /\
         CallersSame /\ QueuesStay /\ MarksStay /\ AgentsSame /\ RunnersSame /\
         LinesSame /\ CarriedSame /\ ArchivesSame /\ StartingSame
  BY InvalidateDoes, SideUnchanged
  DEF InvalidateEffect, room, tasks, rest, archives,
         ThreadsSame, EndsSame, LiveSame, LinkSame, CallersSame, QueuesStay,
         MarksStay, AgentsSame, RunnersSame, LinesSame, CarriedSame,
         ArchivesSame, StartingSame, EndsStay, QueuesStay, MarksStay,
         AgentsStay, SidesStay

LEMMA ReattachFrame ==
  ASSUME Types, Known, MapAgrees, Reattach
  PROVE  UNCHANGED scene /\ ThreadsSame /\ EndsSame /\ LiveSame /\ LinkSame /\
         CallersSame /\ QueuesStay /\ MarksStay /\ AgentsSame /\ RunnersSame /\
         LinesSame /\ CarriedSame /\ ArchivesSame /\ StartingSame
  BY ReattachDoes, SideUnchanged
  DEF ReattachEffect, room, tasks, rest, archives,
         ThreadsSame, EndsSame, LiveSame, LinkSame, CallersSame, QueuesStay,
         MarksStay, AgentsSame, RunnersSame, LinesSame, CarriedSame,
         ArchivesSame, StartingSame, EndsStay, QueuesStay, MarksStay,
         AgentsStay, SidesStay
-----------------------------------------------------------------------------
(* Every step keeps SidesAgree: an ending goes through its stages in       *)
(* order.                                                                  *)
LEMMA SidesAgreeMoves ==
  ASSUME Types, Known, MapAgrees, Next
  PROVE  \/ Claimed
         \/ \E s \in Sides : LetGo(s)
         \/ \E s \in Sides : WriteEnd(s)
         \/ \E s \in Sides : Leave(s)
         \/ \E k \in Callers : Publish(k)
  BY MarkedFrame, BuiltFrame, LooksUpFrame, TakesFirstFrame, StartFailsFrame,
     DropFrame, BeginFrame, EndTurnFrame, StopsFrame, NextLineFrame,
     RestsFrame, ReopenFrame, AdmittedFrame, LooksFrame, ReserveFrame,
     EvictFrame, EvictedFrame, MarksLiveFrame, BroughtUpFrame, SayFrame,
     ArchiveOwedFrame, DropsFrame, AskFrame, OpenFrame, ParkFrame,
     ArchiveFrame, MarkFrame, StopFrame, InvalidateFrame, ReattachFrame
  DEF Next, Owed, AgentSteps, Going, Start, RunQueue, Call, Claimed

LEMMA SidesAgreeKept ==
  ASSUME Types, Known, MapAgrees, Next
  PROVE  SidesAgree'
  <1>0. SidesAgree /\ made \in Nat /\ Made \subseteq Sides
    BY Whom DEF Known, Settled, RoomTypes
  <1>Rest. CASE Claimed
    <2>1. CASE EndsSame
      BY <1>0, <2>1 DEF EndsSame, EndsStay, SidesAgree, Made
    <2>2. ASSUME NEW s \in Made, ClaimOf(s)
          PROVE  SidesAgree'
      <3>1. UNCHANGED made /\ \E p, to, b :
              /\ ClaimStep(s, p, to, b)
              /\ p \in {"closing", "parking"} /\ to # "none"
              /\ (p = "parking" <=> to = "parked")
              /\ (b = TRUE => p = "parking")
        BY <2>2 DEF ClaimOf, ParkStep
      <3>2. PICK p, to, b :
              /\ ClaimStep(s, p, to, b)
              /\ p \in {"closing", "parking"} /\ to # "none"
              /\ (p = "parking" <=> to = "parked")
              /\ (b = TRUE => p = "parking")
        BY <3>1
      <3> QED
        BY <1>0, <3>1, <3>2 DEF ClaimStep, Only, SidesAgree, Made
    <2> QED
      BY <1>Rest, <2>1, <2>2 DEF Claimed
  <1>LetGo. ASSUME NEW s \in Sides, LetGo(s)
           PROVE  SidesAgree'
    BY <1>0, <1>LetGo, LetGoSteps
    DEF LetGoEffect, Only, EndsStay, SidesAgree, Made, room, tasks, rest, archives
  <1>WriteEnd. ASSUME NEW s \in Sides, WriteEnd(s)
              PROVE  SidesAgree'
    <2>1. /\ UNCHANGED made /\ Only(s) /\ side[s].going = "silent"
          /\ side'[s].going = "written"
          /\ \A q \in Sides : /\ side'[q].thread = side[q].thread
                              /\ side'[q].phase = side[q].phase
                              /\ side'[q].to = side[q].to
                              /\ side'[q].idly = side[q].idly
      BY <1>WriteEnd, WriteEndSteps DEF WriteEndEffect
    <2> QED
      BY <1>0, <2>1 DEF SidesAgree, Made, Only
  <1>Leave. ASSUME NEW s \in Sides, Leave(s)
           PROVE  SidesAgree'
    BY <1>0, <1>Leave, LeaveSteps
    DEF LeaveEffect, Only, EndsStay, SidesAgree, Made, room, tasks, rest, archives
  <1>Publish. ASSUME NEW k \in Callers, Publish(k)
             PROVE  SidesAgree'
    <2>1. \/ UNCHANGED <<made, side>>
          \/ /\ made' = made + 1 /\ made' \in Sides /\ Only(made')
             /\ side'[made'].thread \in Threads
             /\ side'[made'].phase = "open" /\ side'[made'].going = "no"
             /\ side'[made'].to = "none" /\ side'[made'].idly = FALSE
      BY <1>Publish, PublishSteps DEF PublishEffect
    <2> QED
      BY <1>0, <2>1 DEF SidesAgree, Made, Only
  <1> QED
    BY SidesAgreeMoves, <1>Rest, <1>LetGo, <1>WriteEnd, <1>Leave, <1>Publish
-----------------------------------------------------------------------------
(* Every step keeps Unborn: whatever is about a side is about one that is  *)
(* made.                                                                   *)
SidesUnborn ==
  \A s \in Sides : s \notin Made => /\ side[s].phase = "open"
                                   /\ side[s].going = "no"
                                   /\ side[s].marking = FALSE
                                   /\ starter[s] = "none"
RunnersAgree ==
  \A r \in Runners : runner[r].pc # "free" => /\ runner[r].side \in Made
                                            /\ runner[r].line \in Lines

LEMMA SidesUnbornOne ==
  ASSUME SidesUnborn, Made \subseteq Sides, UNCHANGED made, NEW s \in Made,
         Only(s), \A q \in Sides : q # s => starter'[q] = starter[q]
  PROVE  SidesUnborn'
  BY DEF SidesUnborn, Made, Only

LEMMA SidesUnbornMoves ==
  ASSUME Types, Known, MapAgrees, Next
  PROVE  \/ Claimed /\ MarksStay /\ AgentsSame /\ ThreadsSame
         \/ \E s \in Sides : LetGo(s)
         \/ \E s \in Sides : WriteEnd(s)
         \/ \E s \in Sides : Leave(s)
         \/ \E s \in Sides : Marked(s)
         \/ \E s \in Sides : Built(s)
         \/ \E s \in Sides : LooksUp(s)
         \/ \E s \in Sides : TakesFirst(s)
         \/ \E s \in Sides : StartFails(s)
         \/ \E k \in Callers : Publish(k)
         \/ \E k \in Callers : MarksLive(k)
         \/ \E k \in Callers : Say(k)
         \/ \E s \in Sides : Mark(s)
  BY DropFrame, BeginFrame, EndTurnFrame, StopsFrame, NextLineFrame,
     RestsFrame, ReopenFrame, AdmittedFrame, LooksFrame, ReserveFrame,
     EvictFrame, EvictedFrame, BroughtUpFrame, ArchiveOwedFrame, DropsFrame,
     AskFrame, OpenFrame, ParkFrame, ArchiveFrame, StopFrame,
     InvalidateFrame, ReattachFrame
  DEF Next, Owed, AgentSteps, Going, Start, RunQueue, Call, Claimed

LEMMA SidesUnbornKept ==
  ASSUME Types, Known, MapAgrees, Next
  PROVE  SidesUnborn'
  <1>0. SidesUnborn /\ made \in Nat /\ Made \subseteq Sides
    BY Whom DEF Known, Settled, RoomTypes, Unborn, SidesUnborn
  <1>Rest. CASE Claimed /\ MarksStay /\ AgentsSame /\ ThreadsSame
    <2>1. UNCHANGED made /\ MarksStay /\ UNCHANGED starter
      BY <1>Rest DEF ThreadsSame, AgentsSame
    <2>2. CASE EndsSame
      BY <1>0, <2>1, <2>2 DEF EndsSame, EndsStay, MarksStay, SidesUnborn, Made
    <2>3. ASSUME NEW s \in Made, ClaimOf(s)
          PROVE  SidesUnborn'
      BY <1>0, <2>1, <2>3 DEF ClaimOf, ClaimStep, ParkStep, Only, MarksStay,
        SidesUnborn, Made
    <2> QED
      BY <1>Rest, <2>2, <2>3 DEF Claimed
  <1>LetGo. ASSUME NEW s \in Sides, LetGo(s)
           PROVE  SidesUnborn'
    <2>1. /\ UNCHANGED made /\ s \in Made /\ Only(s)
          /\ \A q \in Sides : q # s => starter'[q] = starter[q]
      BY <1>LetGo, LetGoSteps, LetGoFrame
      DEF LetGoEffect, ThreadsSame, AgentsSame
    <2> QED
      BY <1>0, <2>1, SidesUnbornOne
  <1>WriteEnd. ASSUME NEW s \in Sides, WriteEnd(s)
              PROVE  SidesUnborn'
    <2>1. /\ UNCHANGED made /\ s \in Made /\ Only(s)
          /\ \A q \in Sides : q # s => starter'[q] = starter[q]
      BY <1>WriteEnd, WriteEndSteps, WriteEndFrame
      DEF WriteEndEffect, ThreadsSame, AgentsSame
    <2> QED
      BY <1>0, <2>1, SidesUnbornOne
  <1>Leave. ASSUME NEW s \in Sides, Leave(s)
           PROVE  SidesUnborn'
    <2>1. /\ UNCHANGED made /\ s \in Made /\ Only(s)
          /\ \A q \in Sides : q # s => starter'[q] = starter[q]
      BY <1>Leave, LeaveSteps, LeaveFrame
      DEF LeaveEffect, ThreadsSame, AgentsSame
    <2> QED
      BY <1>0, <2>1, SidesUnbornOne
  <1>Marked. ASSUME NEW s \in Sides, Marked(s)
            PROVE  SidesUnborn'
    <2>1. /\ UNCHANGED made /\ s \in Made /\ Only(s)
          /\ \A q \in Sides : q # s => starter'[q] = starter[q]
      BY <1>Marked, MarkedSteps, MarkedFrame
      DEF MarkedEffect, ThreadsSame, AgentsSame
    <2> QED
      BY <1>0, <2>1, SidesUnbornOne
  <1>Built. ASSUME NEW s \in Sides, Built(s)
           PROVE  SidesUnborn'
    <2>1. /\ UNCHANGED made /\ s \in Made /\ Only(s)
          /\ \A q \in Sides : q # s => starter'[q] = starter[q]
      BY <1>Built, BuiltSteps, BuiltFrame
      DEF BuiltEffect, ThreadsSame, AgentsSame
    <2> QED
      BY <1>0, <2>1, SidesUnbornOne
  <1>LooksUp. ASSUME NEW s \in Sides, LooksUp(s)
             PROVE  SidesUnborn'
    <2>1. /\ UNCHANGED made /\ s \in Made /\ Only(s)
          /\ \A q \in Sides : q # s => starter'[q] = starter[q]
      BY <1>LooksUp, LooksUpSteps, LooksUpFrame
      DEF LooksUpEffect, ThreadsSame, AgentsSame
    <2> QED
      BY <1>0, <2>1, SidesUnbornOne
  <1>TakesFirst. ASSUME NEW s \in Sides, TakesFirst(s)
                PROVE  SidesUnborn'
    <2>1. TakesFirstEffect(s) /\ s \in Made /\ UNCHANGED made
      BY <1>TakesFirst, TakesFirstSteps, TakesFirstFrame DEF ThreadsSame
    <2>2. Only(s)
      BY <2>1 DEF TakesFirstEffect
    <2>3. \A q \in Sides : q # s => starter'[q] = starter[q]
      BY <2>1 DEF TakesFirstEffect
    <2> QED
      BY <1>0, <2>1, <2>2, <2>3, SidesUnbornOne
  <1>StartFails. ASSUME NEW s \in Sides, StartFails(s)
                PROVE  SidesUnborn'
    <2>1. /\ s \in Made /\ UNCHANGED made /\ MarksStay
          /\ \A q \in Sides : q # s => starter'[q] = starter[q]
          /\ UNCHANGED side \/ Only(s)
      BY <1>StartFails, StartFailsSteps, StartFailsFrame
      DEF StartFailsEffect, ThreadsSame, ClaimStep, EndedStep
    <2> QED
      BY Zenon, <1>0, <2>1 DEF SidesUnborn, Made, Only
  <1>Publish. ASSUME NEW k \in Callers, Publish(k)
             PROVE  SidesUnborn'
    <2>1. /\ UNCHANGED starter
          /\ \/ UNCHANGED <<made, side>>
             \/ made' = made + 1 /\ Only(made')
      BY <1>Publish, PublishSteps DEF PublishEffect
    <2> QED
      BY <1>0, <2>1 DEF SidesUnborn, Made, Only
  <1>MarksLive. ASSUME NEW k \in Callers, MarksLive(k)
               PROVE  SidesUnborn'
    <2>1. /\ UNCHANGED made /\ caller[k].side \in Made /\ Only(caller[k].side)
          /\ \A q \in Sides : q # caller[k].side => starter'[q] = starter[q]
      BY <1>MarksLive, MarksLiveSteps, MarksLiveFrame
      DEF MarksLiveEffect, ThreadsSame, AgentsSame
    <2> QED
      BY <1>0, <2>1, SidesUnbornOne
  <1>Say. ASSUME NEW k \in Callers, Say(k)
         PROVE  SidesUnborn'
    <2>1. /\ EndsStay /\ MarksStay /\ UNCHANGED made
          /\ caller[k].side \in Made
          /\ \A q \in Sides : q # caller[k].side => starter'[q] = starter[q]
      BY <1>Say, SaySteps DEF SayEffect, room
    <2> QED
      BY <1>0, <2>1 DEF SidesUnborn, Made, EndsStay, MarksStay
  <1>Mark. ASSUME NEW s \in Sides, Mark(s)
          PROVE  SidesUnborn'
    <2>1. /\ UNCHANGED made /\ s \in Made /\ Only(s)
          /\ \A q \in Sides : q # s => starter'[q] = starter[q]
      BY <1>Mark, MarkSteps, MarkFrame
      DEF MarkEffect, ThreadsSame, AgentsSame
    <2> QED
      BY <1>0, <2>1, SidesUnbornOne
  <1> QED
    BY SidesUnbornMoves, <1>Rest, <1>LetGo, <1>WriteEnd, <1>Leave, <1>Marked,
       <1>Built, <1>LooksUp,
       <1>TakesFirst, <1>StartFails, <1>Publish, <1>MarksLive, <1>Say,
       <1>Mark

LEMMA RunnersAgreeMoves ==
  ASSUME Types, Known, MapAgrees, Next
  PROVE  \/ RunnersSame /\ ThreadsSame
         \/ \E s \in Sides : TakesFirst(s)
         \/ \E r \in Runners : Begin(r)
         \/ \E r \in Runners : EndTurn(r)
         \/ \E r \in Runners : Stops(r)
         \/ \E r \in Runners : NextLine(r)
         \/ \E r \in Runners : Rests(r)
         \/ \E k \in Callers : Publish(k)
         \/ \E k \in Callers : Say(k)
  BY LetGoFrame, WriteEndFrame, LeaveFrame, MarkedFrame, BuiltFrame,
     LooksUpFrame, StartFailsFrame, DropFrame, ReopenFrame, AdmittedFrame,
     LooksFrame, ReserveFrame, EvictFrame, EvictedFrame, MarksLiveFrame,
     BroughtUpFrame, ArchiveOwedFrame, DropsFrame, AskFrame, OpenFrame,
     ParkFrame, ArchiveFrame, MarkFrame, StopFrame, InvalidateFrame,
     ReattachFrame
  DEF Next, Owed, AgentSteps, Going, Start, RunQueue, Call

LEMMA RunnersAgreeKept ==
  ASSUME Types, Known, MapAgrees, Next
  PROVE  RunnersAgree'
  <1>0. RunnersAgree /\ made \in Nat /\ Made \subseteq Sides
        /\ RunnerTypes /\ Settled
    BY Whom DEF Known, Settled, RoomTypes, Unborn, RunnersAgree
  <1>Rest. CASE RunnersSame /\ ThreadsSame
    BY <1>0, <1>Rest DEF RunnersAgree, RunnersSame, ThreadsSame, Made
  <1>TakesFirst. ASSUME NEW s \in Sides, TakesFirst(s)
                PROVE  RunnersAgree'
    <2>1. /\ s \in Made /\ UNCHANGED made
          /\ \/ UNCHANGED runner
             \/ /\ side[s].waiting # <<>>
                /\ \E r \in Runners :
                    /\ runner[r].pc = "free" /\ OnlyRunner(r)
                    /\ runner'[r].pc = "door" /\ runner'[r].side = s
                    /\ runner'[r].line = Head(side[s].waiting)
      BY <1>TakesFirst, TakesFirstSteps DEF TakesFirstEffect, room
    <2>2. side[s].waiting # <<>> => Head(side[s].waiting) \in Lines
      BY <1>0, <2>1, Queues DEF Settled, SideTypes, LiveSides
    <2> QED
      BY <1>0, <2>1, <2>2 DEF RunnersAgree, Made, OnlyRunner
  <1>Begin. ASSUME NEW r \in Runners, Begin(r)
           PROVE  RunnersAgree'
    <2>1. /\ OnlyRunner(r) /\ runner'[r].side = runner[r].side
          /\ runner'[r].line = runner[r].line /\ runner[r].side \in Made
          /\ runner[r].line \in Lines /\ UNCHANGED made
      BY Zenon, <1>0, <1>Begin, BeginSteps
      DEF BeginEffect, room, Begin, Runs, RunnerTypes, Loops
    <2> QED
      BY <1>0, <2>1 DEF RunnersAgree, Made, OnlyRunner
  <1>EndTurn. ASSUME NEW r \in Runners, EndTurn(r)
             PROVE  RunnersAgree'
    <2>1. /\ OnlyRunner(r) /\ runner'[r].side = runner[r].side
          /\ runner'[r].line = runner[r].line /\ runner[r].side \in Made
          /\ runner[r].line \in Lines /\ UNCHANGED made
      BY <1>0, <1>EndTurn, EndTurnSteps
      DEF EndTurnEffect, room, EndTurn, Runs, RunnerTypes, Loops
    <2> QED
      BY <1>0, <2>1 DEF RunnersAgree, Made, OnlyRunner
  <1>Stops. ASSUME NEW r \in Runners, Stops(r)
           PROVE  RunnersAgree'
    <2>1. /\ OnlyRunner(r) /\ runner'[r].side = runner[r].side
          /\ runner'[r].line = runner[r].line /\ runner[r].side \in Made
          /\ runner[r].line \in Lines /\ UNCHANGED made
      BY <1>0, <1>Stops, StopsSteps
      DEF StopsEffect, room, Stops, Runs, RunnerTypes, Loops
    <2> QED
      BY <1>0, <2>1 DEF RunnersAgree, Made, OnlyRunner
  <1>NextLine. ASSUME NEW r \in Runners, NextLine(r)
              PROVE  RunnersAgree'
    <2> DEFINE s == runner[r].side
    <2>1. /\ OnlyRunner(r) /\ runner'[r].side = s /\ s \in Made
          /\ s \in Sides /\ runner[r].line \in Lines /\ UNCHANGED made
          /\ \/ runner'[r].pc = "rest"
             \/ side[s].waiting # <<>> /\ runner'[r].line = Head(side[s].waiting)
      BY <1>NextLine, NextLineSteps DEF NextLineEffect, room
    <2>2. side[s].waiting # <<>> => Head(side[s].waiting) \in Lines
      BY <1>0, <2>1, Queues DEF Settled, SideTypes, LiveSides
    <2>3. runner'[r].line \in Lines
      <3>1. CASE side[s].waiting # <<>> /\ runner'[r].line = Head(side[s].waiting)
        BY <2>2, <3>1
      <3>2. CASE runner'[r].pc = "rest"
        BY <2>1, <1>0, <1>NextLine, <3>2 DEF NextLine, Runs, RunnerTypes, Loops
      <3> QED
        BY <2>1, <3>1, <3>2
    <2> HIDE DEF s
    <2> QED
      BY <1>0, <2>1, <2>3 DEF RunnersAgree, Made, OnlyRunner
  <1>Rests. ASSUME NEW r \in Runners, Rests(r)
           PROVE  RunnersAgree'
    <2>1. OnlyRunner(r) /\ runner'[r].pc = "free" /\ UNCHANGED made
      <3>1. runner'[r] = Free /\ OnlyRunner(r) /\ UNCHANGED made
        BY <1>Rests, RestsSteps DEF RestsEffect, room
      <3>2. Free.pc = "free"
        BY DEF Free
      <3> QED
        BY <3>1, <3>2
    <2> QED
      BY <1>0, <2>1 DEF RunnersAgree, Made, OnlyRunner
  <1>Publish. ASSUME NEW k \in Callers, Publish(k)
             PROVE  RunnersAgree'
    <2>1. UNCHANGED runner /\ (made' = made \/ made' = made + 1)
      BY <1>Publish, PublishSteps DEF PublishEffect
    <2> QED
      BY <1>0, <2>1 DEF RunnersAgree, Made
  <1>Say. ASSUME NEW k \in Callers, Say(k)
         PROVE  RunnersAgree'
    <2> DEFINE s == caller[k].side
               l == caller[k].line
    <2>1. /\ s \in Made /\ l \in Lines /\ UNCHANGED made
          /\ \/ UNCHANGED runner
             \/ \E r \in Runners :
                    /\ runner[r].pc = "free" /\ OnlyRunner(r)
                    /\ runner'[r].pc = "door" /\ runner'[r].side = s
                    /\ runner'[r].line = l
      BY <1>Say, SaySteps DEF SayEffect, room
    <2> HIDE DEF s, l
    <2> QED
      BY <1>0, <2>1 DEF RunnersAgree, Made, OnlyRunner
  <1> QED
    BY RunnersAgreeMoves, <1>Rest, <1>TakesFirst, <1>Begin, <1>EndTurn,
       <1>Stops, <1>NextLine, <1>Rests,
       <1>Publish, <1>Say

LEMMA DroppingMadeMoves ==
  ASSUME Types, Known, MapAgrees, Next
  PROVE  \/ EpochSame /\ ThreadsSame
         \/ \E s \in Sides : Drop(s)
         \/ \E k \in Callers : Publish(k)
         \/ Drops
         \/ Invalidate
         \/ Reattach
  BY LetGoFrame, WriteEndFrame, LeaveFrame, MarkedFrame, BuiltFrame,
     LooksUpFrame, TakesFirstFrame, StartFailsFrame, BeginFrame,
     EndTurnFrame, StopsFrame, NextLineFrame, RestsFrame, ReopenFrame,
     AdmittedFrame, LooksFrame, ReserveFrame, EvictFrame, EvictedFrame,
     MarksLiveFrame, BroughtUpFrame, SayFrame, ArchiveOwedFrame, AskFrame,
     OpenFrame, ParkFrame, ArchiveFrame, MarkFrame, StopFrame
  DEF Next, Owed, AgentSteps, Going, Start, RunQueue, Call

LEMMA DroppingMadeKept ==
  ASSUME Types, Known, MapAgrees, Next
  PROVE  (dropping \subseteq Made)'
  <1>0. /\ dropping \subseteq Made /\ made \in Nat
        /\ \A t \in Threads : live[t] # Nothing => live[t] \in Made
    BY Whom DEF Known, Settled, RoomTypes, Unborn, MapAgrees
  <1>Rest. CASE EpochSame /\ ThreadsSame
    BY <1>0, <1>Rest DEF EpochSame, ThreadsSame, Made
  <1>Drop. ASSUME NEW s \in Sides, Drop(s)
          PROVE  (dropping \subseteq Made)'
    BY <1>0, <1>Drop, DropSteps
    DEF DropEffect, Made, room, tasks, rest, archives
  <1>Publish. ASSUME NEW k \in Callers, Publish(k)
             PROVE  (dropping \subseteq Made)'
    <2>1. UNCHANGED dropping /\ (made' = made \/ made' = made + 1)
      BY <1>Publish, PublishSteps DEF PublishEffect, rest
    <2> QED
      BY <1>0, <2>1 DEF Made
  <1>Drops. ASSUME Drops
           PROVE  (dropping \subseteq Made)'
    BY <1>0, <1>Drops, DropsDoes
    DEF DropsEffect, Made, room, tasks, rest, archives
  <1>Invalidate. ASSUME Invalidate
                PROVE  (dropping \subseteq Made)'
    BY <1>0, <1>Invalidate, InvalidateDoes
    DEF InvalidateEffect, Made, room, tasks, rest, archives
  <1>Reattach. ASSUME Reattach
              PROVE  (dropping \subseteq Made)'
    BY <1>0, <1>Reattach, ReattachDoes
    DEF ReattachEffect, Made, room, tasks, rest, archives
  <1> QED
    BY DroppingMadeMoves, <1>Rest, <1>Drop, <1>Publish, <1>Drops,
       <1>Invalidate, <1>Reattach

LEMMA UnbornKept ==
  ASSUME Types, Known, MapAgrees, Next
  PROVE  Unborn'
  BY SidesUnbornKept, RunnersAgreeKept, DroppingMadeKept
  DEF Unborn, SidesUnborn, RunnersAgree

Sided == {"mark", "marked", "say", "evict", "evicting"}
-----------------------------------------------------------------------------
(* Every step keeps CallersAgree.                                          *)
LEMMA CallerLeft ==
  ASSUME CallersAgree, UNCHANGED made, NEW k \in Callers, Left(k)
  PROVE  CallersAgree'
  <1>1. Idle.pc = "idle"
    BY DEF Idle
  <1> QED
    BY <1>1 DEF CallersAgree, Left, OnlyCaller, At, Made

LEMMA CallerGoesOn ==
  ASSUME CallersAgree, Made \subseteq Made', NEW k \in Callers, NEW pc,
         ~At(k, "idle"), pc # "idle", GoesOn(k, pc),
         pc \in Sided => caller'[k].side \in Made'
  PROVE  CallersAgree'
  BY DEF CallersAgree, GoesOn, OnlyCaller, At, Sided

LEMMA CallerBegins ==
  ASSUME CallersAgree, UNCHANGED made, NEW k \in Callers, NEW t \in Threads,
         NEW l \in Lines, Begun(k, "knock", t, l) \/ Begun(k, "reserve", t, l)
  PROVE  CallersAgree'
  BY DEF CallersAgree, Begun, OnlyCaller, At, Made

LEMMA CallersAgreeMoves ==
  ASSUME Types, Known, MapAgrees, Next
  PROVE  \/ CallersSame /\ ThreadsSame
         \/ \E k \in Callers : Reopen(k)
         \/ \E k \in Callers : Admitted(k)
         \/ \E k \in Callers : Looks(k)
         \/ \E k \in Callers : Reserve(k)
         \/ \E k \in Callers : Evict(k)
         \/ \E k \in Callers : Evicted(k)
         \/ \E k \in Callers : Publish(k)
         \/ \E k \in Callers : MarksLive(k)
         \/ \E k \in Callers : BroughtUp(k)
         \/ \E k \in Callers : Say(k)
         \/ \E k \in Callers, t \in Threads, l \in Lines, c \in BOOLEAN : Ask(k, t, l, c)
         \/ \E k \in Callers, t \in Threads, l \in Lines : Open(k, t, l)
  BY LetGoFrame, WriteEndFrame, LeaveFrame, MarkedFrame, BuiltFrame,
     LooksUpFrame, TakesFirstFrame, StartFailsFrame, DropFrame, BeginFrame,
     EndTurnFrame, StopsFrame, NextLineFrame, RestsFrame, ArchiveOwedFrame,
     DropsFrame, ParkFrame, ArchiveFrame, MarkFrame, StopFrame,
     InvalidateFrame, ReattachFrame
  DEF Next, Owed, AgentSteps, Going, Start, RunQueue, Call

LEMMA CallersAgreeKept ==
  ASSUME Types, Known, MapAgrees, Next
  PROVE  CallersAgree'
  <1>0. CallersAgree /\ made \in Nat /\ Made \subseteq Sides
        /\ \A t \in Threads : live[t] # Nothing => live[t] \in Made
    BY Whom DEF Known, Settled, MapAgrees
  <1>Rest. CASE CallersSame /\ ThreadsSame
    BY <1>0, <1>Rest DEF CallersAgree, CallersSame, ThreadsSame, Made, At
  <1>Reopen. ASSUME NEW k \in Callers, Reopen(k)
            PROVE  CallersAgree'
    <2>1. PICK t \in Threads, l \in Lines : Begun(k, "knock", t, l)
      BY <1>Reopen, ReopenSteps DEF ReopenEffect
    <2>2. UNCHANGED made
      BY <1>Reopen, ReopenFrame DEF ThreadsSame
    <2> QED
      BY <1>0, <2>1, <2>2, CallerBegins
  <1>Admitted. ASSUME NEW k \in Callers, Admitted(k)
              PROVE  CallersAgree'
    <2>1. /\ GoesOn(k, "look") /\ ~At(k, "idle") /\ UNCHANGED made
          /\ "look" \in Sided => caller'[k].side \in Made
      BY <1>0, <1>Admitted, AdmittedSteps, AdmittedFrame
      DEF AdmittedEffect, GoesOnAlike, ThreadsSame, At, Sided
    <2> QED
      BY <1>0, <2>1, CallerGoesOn DEF Made
  <1>Looks. ASSUME NEW k \in Callers, Looks(k)
           PROVE  CallersAgree'
    <2>1. UNCHANGED made /\ ~At(k, "idle") /\ caller[k].thread \in Threads
      BY <1>Looks, LooksSteps, LooksFrame DEF LooksEffect, ThreadsSame, At
    <2>2. CASE Left(k)
      BY <1>0, <2>1, <2>2, CallerLeft
    <2>3. CASE /\ live[caller[k].thread] # Nothing /\ GoesOn(k, "say")
               /\ caller'[k].side = live[caller[k].thread]
      BY <1>0, <2>1, <2>3, CallerGoesOn DEF Made
    <2>4. CASE GoesOn(k, "reserve")
      BY <1>0, <2>1, <2>4, CallerGoesOn DEF Made, Sided
    <2> QED
      BY <1>Looks, LooksSteps, <2>2, <2>3, <2>4 DEF LooksEffect
  <1>Reserve. ASSUME NEW k \in Callers, Reserve(k)
             PROVE  CallersAgree'
    <2>1. UNCHANGED made /\ ~At(k, "idle")
      BY <1>Reserve, ReserveSteps, ReserveFrame
      DEF ReserveEffect, ThreadsSame, At
    <2>2. CASE Left(k)
      BY <1>0, <2>1, <2>2, CallerLeft
    <2>3. CASE GoesOn(k, "evict") /\ \E t \in Held : caller'[k].side = live[t]
      BY <1>0, <2>1, <2>3, CallerGoesOn DEF Made, Held
    <2>4. CASE GoesOn(k, "publish")
      BY <1>0, <2>1, <2>4, CallerGoesOn DEF Made, Sided
    <2> QED
      BY <1>Reserve, ReserveSteps, <2>2, <2>3, <2>4
      DEF ReserveEffect, GoesOnAlike
  <1>Evict. ASSUME NEW k \in Callers, Evict(k)
           PROVE  CallersAgree'
    <2>1. UNCHANGED made /\ ~At(k, "idle") /\ caller[k].side \in Made
      BY <1>Evict, EvictSteps, EvictFrame DEF EvictEffect, ThreadsSame, At
    <2>2. CASE GoesOnAlike(k, "reserve")
      BY <1>0, <2>1, <2>2, CallerGoesOn DEF Made, Sided, GoesOnAlike
    <2>3. CASE GoesOnAlike(k, "evicting")
      BY <1>0, <2>1, <2>3, CallerGoesOn DEF Made, GoesOnAlike
    <2> QED
      BY <1>Evict, EvictSteps, <2>2, <2>3 DEF EvictEffect
  <1>Evicted. ASSUME NEW k \in Callers, Evicted(k)
             PROVE  CallersAgree'
    <2>1. /\ GoesOn(k, "reserve") /\ ~At(k, "idle") /\ UNCHANGED made
          /\ "reserve" \in Sided => caller'[k].side \in Made
      BY <1>0, <1>Evicted, EvictedSteps, EvictedFrame
      DEF EvictedEffect, GoesOnAlike, ThreadsSame, At, Sided
    <2> QED
      BY <1>0, <2>1, CallerGoesOn DEF Made
  <1>Publish. ASSUME NEW k \in Callers, Publish(k)
             PROVE  CallersAgree'
    <2>1. ~At(k, "idle")
      BY <1>Publish, PublishSteps DEF PublishEffect, At
    <2>2. CASE Left(k) /\ UNCHANGED made
      BY <1>0, <2>2, CallerLeft
    <2>3. CASE made' = made + 1 /\ GoesOn(k, "mark") /\ caller'[k].side = made'
      <3>1. Made \subseteq Made' /\ made' \in Made'
        BY <1>0, <2>3 DEF Made
      <3> QED
        BY <1>0, <2>1, <2>3, <3>1, CallerGoesOn
    <2> QED
      BY <1>Publish, PublishSteps, <2>2, <2>3 DEF PublishEffect
  <1>MarksLive. ASSUME NEW k \in Callers, MarksLive(k)
               PROVE  CallersAgree'
    <2>1. /\ GoesOn(k, "marked") /\ ~At(k, "idle") /\ UNCHANGED made
          /\ "marked" \in Sided => caller'[k].side \in Made
      BY <1>0, <1>MarksLive, MarksLiveSteps, MarksLiveFrame
      DEF MarksLiveEffect, GoesOnAlike, ThreadsSame, At, Sided
    <2> QED
      BY <1>0, <2>1, CallerGoesOn DEF Made
  <1>BroughtUp. ASSUME NEW k \in Callers, BroughtUp(k)
               PROVE  CallersAgree'
    <2>1. /\ GoesOn(k, "say") /\ ~At(k, "idle") /\ UNCHANGED made
          /\ "say" \in Sided => caller'[k].side \in Made
      BY <1>0, <1>BroughtUp, BroughtUpSteps, BroughtUpFrame
      DEF BroughtUpEffect, GoesOnAlike, ThreadsSame, At, Sided
    <2> QED
      BY <1>0, <2>1, CallerGoesOn DEF Made
  <1>Say. ASSUME NEW k \in Callers, Say(k)
         PROVE  CallersAgree'
    <2>1. Left(k) /\ UNCHANGED made
      BY <1>Say, SaySteps, SayFrame DEF SayEffect, ThreadsSame
    <2> QED
      BY <1>0, <2>1, CallerLeft
  <1>Ask. ASSUME NEW k \in Callers, NEW t \in Threads, NEW l \in Lines,
                 NEW c \in BOOLEAN, Ask(k, t, l, c)
         PROVE  CallersAgree'
    <2>1. UNCHANGED made /\ (Begun(k, "knock", t, l) \/ Begun(k, "reserve", t, l))
      BY <1>Ask, AskSteps, AskFrame DEF AskEffect, ThreadsSame
    <2> QED
      BY <1>0, <2>1, CallerBegins
  <1>Open. ASSUME NEW k \in Callers, NEW t \in Threads, NEW l \in Lines, Open(k, t, l)
          PROVE  CallersAgree'
    <2>1. UNCHANGED made /\ (Begun(k, "knock", t, l) \/ Begun(k, "reserve", t, l))
      BY <1>Open, OpenSteps, OpenFrame DEF OpenEffect, ThreadsSame
    <2> QED
      BY <1>0, <2>1, CallerBegins
  <1> QED
    BY CallersAgreeMoves, <1>Rest, <1>Reopen, <1>Admitted, <1>Looks,
       <1>Reserve, <1>Evict, <1>Evicted,
       <1>Publish, <1>MarksLive, <1>BroughtUp, <1>Say, <1>Ask, <1>Open

(* So all that is known of sides and callers is kept.                      *)
LEMMA KnownKept ==
  ASSUME Types, Known, MapAgrees, Next
  PROVE  Known'
  BY SidesAgreeKept, UnbornKept, CallersAgreeKept DEF Known
-----------------------------------------------------------------------------
(* Every step keeps MapAgrees: a side enters the map as it is made and     *)
(* leaves it as it is gone, and a place in the map is not taken over.      *)
LEMMA MapAgreesMoves ==
  ASSUME Types, Known, MapAgrees, Next
  PROVE  \/ Claimed /\ LiveSame /\ ThreadsSame
         \/ \E s \in Sides : LetGo(s)
         \/ \E s \in Sides : WriteEnd(s)
         \/ \E s \in Sides : Leave(s)
         \/ \E k \in Callers : Publish(k)
  BY MarkedFrame, BuiltFrame, LooksUpFrame, TakesFirstFrame, StartFailsFrame,
     DropFrame, BeginFrame, EndTurnFrame, StopsFrame, NextLineFrame,
     RestsFrame, ReopenFrame, AdmittedFrame, LooksFrame, ReserveFrame,
     EvictFrame, EvictedFrame, MarksLiveFrame, BroughtUpFrame, SayFrame,
     ArchiveOwedFrame, DropsFrame, AskFrame, OpenFrame, ParkFrame,
     ArchiveFrame, MarkFrame, StopFrame, InvalidateFrame, ReattachFrame
  DEF Next, Owed, AgentSteps, Going, Start, RunQueue, Call, Claimed

LEMMA MapAgreesKept ==
  ASSUME Types, Known, MapAgrees, Admission, Next
  PROVE  MapAgrees'
  <1>0. /\ MapAgrees /\ made \in Nat /\ Made \subseteq Sides
        /\ live \in [Threads -> Sides \cup {Nothing}]
        /\ \A s \in Made : side[s].thread \in Threads
    BY Whom DEF Known, Settled, MapAgrees, RoomTypes, SidesAgree
  <1>Rest. CASE Claimed /\ LiveSame /\ ThreadsSame
    <2>1. UNCHANGED <<live, made>>
      BY <1>Rest DEF LiveSame, ThreadsSame
    <2>2. CASE EndsSame
      BY <1>0, <2>1, <2>2 DEF EndsSame, EndsStay, MapAgrees, Made
    <2>3. ASSUME NEW s \in Made, ClaimOf(s)
          PROVE  MapAgrees'
      <3>1. /\ side[s].phase = "open" /\ side'[s].going = "claimed"
            /\ Only(s) /\ side'[s].thread = side[s].thread
        BY <1>0, <2>3 DEF ClaimOf, ClaimStep, ParkStep
      <3>2. side[s].going # "gone"
        BY <3>1 DEF Known, SidesAgree
      <3> QED
        BY <1>0, <2>1, <3>1, <3>2 DEF Only, MapAgrees, Made
    <2> QED
      BY <1>Rest, <2>2, <2>3 DEF Claimed
  <1>LetGo. ASSUME NEW s \in Sides, LetGo(s)
           PROVE  MapAgrees'
    <2>1. /\ UNCHANGED <<live, made>> /\ Only(s) /\ s \in Made
          /\ side'[s].thread = side[s].thread /\ side[s].going = "claimed"
          /\ side'[s].going = "silent"
      BY <1>LetGo, LetGoSteps, LetGoFrame
      DEF LetGoEffect, LiveSame, ThreadsSame
    <2> QED
      BY <1>0, <2>1 DEF MapAgrees, Made, Only
  <1>WriteEnd. ASSUME NEW s \in Sides, WriteEnd(s)
              PROVE  MapAgrees'
    <2>1. /\ UNCHANGED <<live, made>> /\ Only(s) /\ s \in Made
          /\ side'[s].thread = side[s].thread /\ side[s].going = "silent"
          /\ side'[s].going = "written"
      BY <1>WriteEnd, WriteEndSteps, WriteEndFrame
      DEF WriteEndEffect, LiveSame, ThreadsSame
    <2> QED
      BY <1>0, <2>1 DEF MapAgrees, Made, Only
  <1>Leave. ASSUME NEW s \in Sides, Leave(s)
           PROVE  MapAgrees'
    <2>1. /\ UNCHANGED made /\ Only(s) /\ s \in Made
          /\ side'[s].thread = side[s].thread
          /\ side[s].going = "written" /\ side'[s].going = "gone"
          /\ \A t \in Threads : live'[t] = IF live[t] = s THEN Nothing
                                           ELSE live[t]
      BY <1>Leave, LeaveSteps, LeaveFrame DEF LeaveEffect, ThreadsSame
    <2> QED
      BY <1>0, <2>1 DEF MapAgrees, Made, Only
  <1>Publish. ASSUME NEW k \in Callers, Publish(k)
             PROVE  MapAgrees'
    <2>1. CASE UNCHANGED <<made, side, live>>
      BY <1>0, <2>1 DEF MapAgrees, Made
    <2>2. CASE ~UNCHANGED <<made, side, live>>
      <3> DEFINE t == caller[k].thread
      <3>1. /\ made' = made + 1 /\ made' \in Sides /\ Only(made')
            /\ live' = [live EXCEPT ![t] = made'] /\ t \in Threads
            /\ side'[made'].thread = t
            /\ side'[made'].going = "no"
        BY <1>Publish, PublishSteps, <2>2 DEF PublishEffect
      <3>2. live[t] = Nothing
        BY <1>Publish DEF Publish, At, Admission, AdmissionOf, Starts
      <3> HIDE DEF t
      <3>3. \A s \in Made : side[s].going # "gone" => side[s].thread # t
        BY <1>0, <3>1, <3>2 DEF MapAgrees, Nothing, Made
      <3>4. /\ \A q \in Threads : q # t => live'[q] = live[q]
            /\ live'[t] = made'
            /\ \A s \in Made : side'[s] = side[s] /\ s # made'
            /\ \A s \in Made' : s = made' \/ s \in Made
            /\ made' \in Made' /\ Made \subseteq Made'
        BY <1>0, <3>1 DEF Only, Made
      <3>5. ASSUME NEW s \in Made', side'[s].going # "gone"
            PROVE  live'[side'[s].thread] = s
        <4>1. CASE s = made'
          BY <3>1, <3>4, <4>1
        <4>2. CASE s \in Made
          BY <1>0, <3>3, <3>4, <3>5, <4>2 DEF MapAgrees
        <4> QED
          BY <3>4, <4>1, <4>2
      <3>6. ASSUME NEW q \in Threads, live'[q] # Nothing
            PROVE  /\ live'[q] \in Made' /\ side'[live'[q]].thread = q
                   /\ side'[live'[q]].going # "gone"
        <4>1. CASE q = t
          BY <3>1, <3>4, <4>1
        <4>2. CASE q # t
          BY <1>0, <3>4, <3>6, <4>2 DEF MapAgrees
        <4> QED
          BY <4>1, <4>2
      <3> QED
        BY <3>5, <3>6 DEF MapAgrees
    <2> QED
      BY <2>1, <2>2
  <1> QED
    BY MapAgreesMoves, <1>Rest, <1>LetGo, <1>WriteEnd, <1>Leave, <1>Publish
-----------------------------------------------------------------------------
(* Every step keeps HasThread.                                             *)
LEMMA ThreadsMoves ==
  ASSUME Types, Known, MapAgrees, Next
  PROVE  \/ ThreadsSame
         \/ \E k \in Callers : Publish(k)
  BY LetGoFrame, WriteEndFrame, LeaveFrame, MarkedFrame, BuiltFrame,
     LooksUpFrame, TakesFirstFrame, StartFailsFrame, DropFrame, BeginFrame,
     EndTurnFrame, StopsFrame, NextLineFrame, RestsFrame, ReopenFrame,
     AdmittedFrame, LooksFrame, ReserveFrame, EvictFrame, EvictedFrame,
     MarksLiveFrame, BroughtUpFrame, SayFrame, ArchiveOwedFrame, DropsFrame,
     AskFrame, OpenFrame, ParkFrame, ArchiveFrame, MarkFrame, StopFrame,
     InvalidateFrame, ReattachFrame
  DEF Next, Owed, AgentSteps, Going, Start, RunQueue, Call

HasStays == \A t \in Threads : Has(t) => Has(t)'

LEMMA HadStays ==
  ASSUME Types, Known, MapAgrees, Next
  PROVE  HasStays
  <1>0. Made \subseteq Sides /\ made \in Nat
    BY Whom DEF Settled
  <1>1. ThreadsSame \/ \E k \in Callers : Publish(k)
    BY ThreadsMoves
  <1>2. CASE ThreadsSame
    BY <1>0, <1>2 DEF ThreadsSame, HasStays, Has, Made
  <1>3. ASSUME NEW k \in Callers, Publish(k)
        PROVE  HasStays
    <2>1. \/ UNCHANGED <<made, side>>
          \/ made' = made + 1 /\ Only(made')
      BY <1>3, PublishSteps DEF PublishEffect
    <2> QED
      BY <1>0, <2>1 DEF HasStays, Has, Only, Made
  <1> QED
    BY <1>1, <1>2, <1>3

LEMMA HasThreadFrom ==
  ASSUME HasThread, HasStays,
         \A t \in Threads : link'[t] # "none" => link[t] # "none" \/ Has(t),
         \A t \in Threads, l \in Lines :
           <<t, l>> \in carried' => <<t, l>> \in carried \/ Has(t)
  PROVE  HasThread'
  BY DEF HasThread, HasStays

LEMMA HasThreadMoves ==
  ASSUME Types, Known, MapAgrees, Next
  PROVE  \/ ThreadsSame /\ LinkSame /\ CarriedSame
         \/ \E s \in Sides : WriteEnd(s)
         \/ \E s \in Sides : Marked(s)
         \/ \E k \in Callers : Reopen(k)
         \/ \E k \in Callers : Publish(k)
         \/ \E k \in Callers : Say(k)
         \/ \E t \in Threads : ArchiveOwed(t)
         \/ \E t \in Threads : Archive(t)
  BY LetGoFrame, LeaveFrame, BuiltFrame, LooksUpFrame, TakesFirstFrame,
     StartFailsFrame, DropFrame, BeginFrame, EndTurnFrame, StopsFrame,
     NextLineFrame, RestsFrame, AdmittedFrame, LooksFrame, ReserveFrame,
     EvictFrame, EvictedFrame, MarksLiveFrame, BroughtUpFrame, DropsFrame,
     AskFrame, OpenFrame, ParkFrame, MarkFrame, StopFrame, InvalidateFrame,
     ReattachFrame
  DEF Next, Owed, AgentSteps, Going, Start, RunQueue, Call

LEMMA HasThreadKept ==
  ASSUME Types, Known, MapAgrees, HasThread, Next
  PROVE  HasThread'
  <1>0. /\ HasThread /\ HasStays /\ Made \subseteq Sides
        /\ link \in [Threads -> {"none", "live", "parked", "closed"}]
    BY HadStays, Whom DEF Settled, RoomTypes
  <1>Rest. CASE ThreadsSame /\ LinkSame /\ CarriedSame
    <2>1. /\ \A u \in Threads : link'[u] # "none" => link[u] # "none" \/ Has(u)
          /\ \A u \in Threads, l \in Lines :
               <<u, l>> \in carried' => <<u, l>> \in carried \/ Has(u)
      BY <1>Rest DEF LinkSame, CarriedSame
    <2> QED
      BY <1>0, <2>1, HasThreadFrom
  <1>WriteEnd. ASSUME NEW s \in Sides, WriteEnd(s)
              PROVE  HasThread'
    <2>1. /\ \A u \in Threads : link'[u] # "none" => link[u] # "none" \/ Has(u)
          /\ \A u \in Threads, l \in Lines :
               <<u, l>> \in carried' => <<u, l>> \in carried \/ Has(u)
      BY <1>0, <1>WriteEnd, WriteEndSteps, WriteEndFrame
      DEF WriteEndEffect, CarriedSame, Has
    <2> QED
      BY <1>0, <2>1, HasThreadFrom
  <1>Marked. ASSUME NEW s \in Sides, Marked(s)
            PROVE  HasThread'
    <2>1. /\ \A u \in Threads : link'[u] # "none" => link[u] # "none" \/ Has(u)
          /\ \A u \in Threads, l \in Lines :
               <<u, l>> \in carried' => <<u, l>> \in carried \/ Has(u)
      BY <1>0, <1>Marked, MarkedSteps, MarkedFrame
      DEF MarkedEffect, CarriedSame, Has
    <2> QED
      BY <1>0, <2>1, HasThreadFrom
  <1>Reopen. ASSUME NEW k \in Callers, Reopen(k)
            PROVE  HasThread'
    <2>1. /\ \A u \in Threads : link'[u] # "none" => link[u] # "none" \/ Has(u)
          /\ \A u \in Threads, l \in Lines :
               <<u, l>> \in carried' => <<u, l>> \in carried \/ Has(u)
      BY <1>Reopen, ReopenSteps, ReopenFrame
      DEF ReopenEffect, LinkSame
    <2> QED
      BY <1>0, <2>1, HasThreadFrom
  <1>Publish. ASSUME NEW k \in Callers, Publish(k)
             PROVE  HasThread'
    <2>1. /\ \A u \in Threads : link'[u] # "none" => link[u] # "none" \/ Has(u)
          /\ \A u \in Threads, l \in Lines :
               <<u, l>> \in carried' => <<u, l>> \in carried \/ Has(u)
      BY <1>Publish, PublishFrame DEF LinkSame, CarriedSame
    <2> QED
      BY <1>0, <2>1, HasThreadFrom
  <1>Say. ASSUME NEW k \in Callers, Say(k)
         PROVE  HasThread'
    <2> DEFINE s == caller[k].side
    <2>1. /\ s \in Made /\ UNCHANGED link
          /\ \/ UNCHANGED carried
             \/ carried' = carried \cup {<<side[s].thread, caller[k].line>>}
      BY <1>Say, SaySteps, SayFrame DEF SayEffect, LinkSame
    <2> HIDE DEF s
    <2>2. ASSUME NEW u \in Threads, NEW l \in Lines, <<u, l>> \in carried'
          PROVE  <<u, l>> \in carried \/ Has(u)
      BY <2>1, <2>2 DEF Has
    <2>3. \A u \in Threads : link'[u] # "none" => link[u] # "none" \/ Has(u)
      BY <2>1
    <2> QED
      BY <1>0, <2>2, <2>3, HasThreadFrom
  <1>ArchiveOwed. ASSUME NEW t \in Threads, ArchiveOwed(t)
                 PROVE  HasThread'
    <2>1. /\ \A u \in Threads : link'[u] # "none" => link[u] # "none" \/ Has(u)
          /\ \A u \in Threads, l \in Lines :
               <<u, l>> \in carried' => <<u, l>> \in carried \/ Has(u)
      BY <1>0, <1>ArchiveOwed, ArchiveOwedSteps, ArchiveOwedFrame
      DEF ArchiveOwedEffect, CarriedSame, Has
    <2> QED
      BY <1>0, <2>1, HasThreadFrom
  <1>Archive. ASSUME NEW t \in Threads, Archive(t)
             PROVE  HasThread'
    <2>1. /\ \A u \in Threads : link'[u] # "none" => link[u] # "none" \/ Has(u)
          /\ \A u \in Threads, l \in Lines :
               <<u, l>> \in carried' => <<u, l>> \in carried \/ Has(u)
      BY <1>0, <1>Archive, ArchiveSteps, ArchiveFrame
      DEF ArchiveEffect, CarriedSame, Has
    <2> QED
      BY <1>0, <2>1, HasThreadFrom
  <1> QED
    BY HasThreadMoves, <1>Rest, <1>WriteEnd, <1>Marked, <1>Reopen, <1>Publish,
       <1>Say, <1>ArchiveOwed,
       <1>Archive

(* The admission of the other callers, as one goes on.                     *)
-----------------------------------------------------------------------------
(* Every step keeps Admission: two do not start the same thread, since     *)
(* whoever does holds waking or is the only one to know of it.             *)
LEMMA OthersAdmitted ==
  ASSUME Admission, ThreadsSame, LiveSame, Made \subseteq Sides,
         NEW k \in Callers, OnlyCaller(k),
         \A j \in Callers : j # k /\ waking = j => waking' = j,
         \A j \in Callers : j # k /\ Starts(j) /\ Alone(j)
                              => caller'[k].thread # caller[j].thread
  PROVE  \A j \in Callers : j # k => AdmissionOf(j)'
  <1> SUFFICES ASSUME NEW j \in Callers, j # k
               PROVE  AdmissionOf(j)'
    OBVIOUS
  <1>1. caller'[j] = caller[j] /\ AdmissionOf(j)
    BY DEF OnlyCaller, Admission
  <1>2. At(j, "look")' => waking' = j
    BY <1>1 DEF At, AdmissionOf
  <1>3. ASSUME Starts(j)'
        PROVE  live'[caller'[j].thread] = Nothing
    BY <1>1, <1>3 DEF Starts, AdmissionOf, LiveSame
  <1>4. ASSUME Starts(j)', waking # j
        PROVE  Alone(j)'
    <2>1. Starts(j) /\ Alone(j)
      BY <1>1, <1>4 DEF Starts, AdmissionOf
    <2>2. ~Has(caller[j].thread)'
      BY <1>1, <2>1 DEF Alone, Has, ThreadsSame, Made
    <2>3. \A i \in Callers : i # j => caller'[i].thread # caller'[j].thread
      BY <1>1, <2>1 DEF Alone, OnlyCaller
    <2> QED
      BY <2>2, <2>3 DEF Alone
  <1> QED
    BY <1>2, <1>3, <1>4 DEF AdmissionOf

LEMMA AdmissionLeft ==
  ASSUME Admission, CallersAgree, ThreadsSame, LiveSame, Made \subseteq Sides,
         NEW k \in Callers, Left(k)
  PROVE  Admission'
  <1>1. Idle.pc = "idle" /\ Idle.thread = None
    BY DEF Idle
  <1>2. \A j \in Callers : j # k /\ Starts(j) /\ Alone(j)
                             => caller'[k].thread # caller[j].thread
    BY <1>1, NoneAssumption DEF Left, Starts, CallersAgree, At
  <1>3. \A j \in Callers : j # k => AdmissionOf(j)'
    BY <1>2, OthersAdmitted DEF Left
  <1>4. AdmissionOf(k)'
    BY <1>1 DEF Left, AdmissionOf, At, Starts
  <1> QED
    BY <1>3, <1>4 DEF Admission

LEMMA AdmissionGoesOn ==
  ASSUME Admission, ThreadsSame, LiveSame, Made \subseteq Sides,
         NEW k \in Callers, NEW pc, GoesOn(k, pc), UNCHANGED waking,
         pc # "look", pc \in {"reserve", "evict", "evicting", "publish"}
                        => \/ Starts(k)
                           \/ waking = k /\ live[caller[k].thread] = Nothing
  PROVE  Admission'
  <1>2. \A j \in Callers : j # k /\ Starts(j) /\ Alone(j)
                             => caller'[k].thread # caller[j].thread
    BY DEF Alone, GoesOn
  <1>3. \A j \in Callers : j # k => AdmissionOf(j)'
    BY <1>2, OthersAdmitted DEF GoesOn
  <1>4. ASSUME Starts(k)'
        PROVE  live'[caller'[k].thread] = Nothing /\ (waking' = k \/ Alone(k)')
    <2>1. \/ Starts(k)
          \/ waking = k /\ live[caller[k].thread] = Nothing
      BY <1>4 DEF Starts, GoesOn
    <2>2. live'[caller'[k].thread] = Nothing
      BY <2>1 DEF Admission, AdmissionOf, GoesOn, LiveSame
    <2>3. CASE waking = k
      BY <2>2, <2>3
    <2>4. CASE Alone(k)
      <3>1. ~Has(caller[k].thread)'
        BY <2>4 DEF Alone, Has, ThreadsSame, Made, GoesOn
      <3>2. \A i \in Callers : i # k => caller'[i].thread # caller'[k].thread
        BY <2>4 DEF Alone, GoesOn, OnlyCaller
      <3> QED
        BY <2>2, <3>1, <3>2 DEF Alone
    <2> QED
      BY <2>1, <2>3, <2>4 DEF Admission, AdmissionOf
  <1>5. AdmissionOf(k)'
    BY <1>4 DEF AdmissionOf, GoesOn, At
  <1> QED
    BY <1>3, <1>5 DEF Admission

LEMMA AdmissionMoves ==
  ASSUME Types, Known, MapAgrees, Next
  PROVE  \/ ThreadsSame /\ LiveSame /\ CallersSame
         \/ \E s \in Sides : Leave(s)
         \/ \E k \in Callers : Reopen(k)
         \/ \E k \in Callers : Admitted(k)
         \/ \E k \in Callers : Looks(k)
         \/ \E k \in Callers : Reserve(k)
         \/ \E k \in Callers : Evict(k)
         \/ \E k \in Callers : Evicted(k)
         \/ \E k \in Callers : Publish(k)
         \/ \E k \in Callers : MarksLive(k)
         \/ \E k \in Callers : BroughtUp(k)
         \/ \E k \in Callers : Say(k)
         \/ \E k \in Callers, t \in Threads, l \in Lines, c \in BOOLEAN : Ask(k, t, l, c)
         \/ \E k \in Callers, t \in Threads, l \in Lines : Open(k, t, l)
  BY LetGoFrame, WriteEndFrame, MarkedFrame, BuiltFrame, LooksUpFrame,
     TakesFirstFrame, StartFailsFrame, DropFrame, BeginFrame, EndTurnFrame,
     StopsFrame, NextLineFrame, RestsFrame, ArchiveOwedFrame, DropsFrame,
     ParkFrame, ArchiveFrame, MarkFrame, StopFrame, InvalidateFrame,
     ReattachFrame
  DEF Next, Owed, AgentSteps, Going, Start, RunQueue, Call

LEMMA AdmissionKept ==
  ASSUME Types, Known, MapAgrees, HasThread, Admission, Next
  PROVE  Admission'
  <1>0. /\ Admission /\ CallersAgree /\ made \in Nat /\ Made \subseteq Sides
        /\ live \in [Threads -> Sides \cup {Nothing}]
        /\ HasThread
    BY Whom DEF Known, Settled, RoomTypes
  <1>Rest. CASE ThreadsSame /\ LiveSame /\ CallersSame
    <2>1. ASSUME NEW j \in Callers
          PROVE  AdmissionOf(j)'
      <3>1. AdmissionOf(j) /\ (Alone(j) => Alone(j)')
        BY <1>0, <1>Rest DEF Admission, Alone, Has, ThreadsSame, CallersSame, Made
      <3> QED
        BY <1>Rest, <3>1 DEF AdmissionOf, CallersSame, LiveSame, At, Starts
    <2> QED
      BY <2>1 DEF Admission
  <1>Leave. ASSUME NEW s \in Sides, Leave(s)
           PROVE  Admission'
    <2>1. /\ ThreadsSame /\ CallersSame
          /\ \A t \in Threads : live[t] = Nothing => live'[t] = Nothing
      BY <1>0, <1>Leave, LeaveSteps, LeaveFrame DEF LeaveEffect
    <2>2. \A j \in Callers : Starts(j) => caller[j].thread \in Threads
      BY <1>0 DEF CallersAgree, Starts, At
    <2>3. ASSUME NEW j \in Callers
          PROVE  AdmissionOf(j)'
      <3>1. AdmissionOf(j) /\ (Alone(j) => Alone(j)')
        BY <1>0, <2>1 DEF Admission, Alone, Has, ThreadsSame, CallersSame, Made
      <3> QED
        BY <2>1, <2>2, <3>1 DEF AdmissionOf, CallersSame, At, Starts
    <2> QED
      BY <2>3 DEF Admission
  <1>Reopen. ASSUME NEW k \in Callers, Reopen(k)
            PROVE  Admission'
    <2>1. PICK t \in Threads, l \in Lines :
            <<t, l>> \in carried /\ Begun(k, "knock", t, l)
      BY <1>Reopen, ReopenSteps DEF ReopenEffect
    <2>2. UNCHANGED waking /\ ThreadsSame /\ LiveSame
      BY <1>Reopen, ReopenSteps, ReopenFrame DEF ReopenEffect
    <2>3. Has(t)
      BY <1>0, <2>1 DEF HasThread
    <2>4. \A j \in Callers : j # k /\ Starts(j) /\ Alone(j)
                               => caller'[k].thread # caller[j].thread
      BY <2>1, <2>3 DEF Alone, Begun
    <2>5. \A j \in Callers : j # k => AdmissionOf(j)'
      BY <1>0, <2>1, <2>2, <2>4, OthersAdmitted DEF Begun
    <2>6. AdmissionOf(k)'
      BY <2>1 DEF Begun, AdmissionOf, At, Starts
    <2> QED
      BY <2>5, <2>6 DEF Admission
  <1>Admitted. ASSUME NEW k \in Callers, Admitted(k)
              PROVE  Admission'
    <2>1. /\ GoesOn(k, "look") /\ waking = None /\ waking' = k
          /\ ThreadsSame /\ LiveSame
      BY <1>Admitted, AdmittedSteps, AdmittedFrame
      DEF AdmittedEffect, GoesOnAlike
    <2>2. \A j \in Callers : waking # j
      BY <2>1, NoneAssumption
    <2>3. \A j \in Callers : j # k /\ Starts(j) /\ Alone(j)
                               => caller'[k].thread # caller[j].thread
      BY <2>1 DEF Alone, GoesOn
    <2>4. \A j \in Callers : j # k => AdmissionOf(j)'
      BY <1>0, <2>1, <2>2, <2>3, OthersAdmitted DEF GoesOn
    <2>5. AdmissionOf(k)'
      BY <2>1 DEF GoesOn, AdmissionOf, At, Starts
    <2> QED
      BY <2>4, <2>5 DEF Admission
  <1>Looks. ASSUME NEW k \in Callers, Looks(k)
           PROVE  Admission'
    <2>1. /\ \/ Left(k)
             \/ GoesOn(k, "say") /\ UNCHANGED waking
             \/ /\ GoesOn(k, "reserve") /\ UNCHANGED waking
                /\ live[caller[k].thread] = Nothing
          /\ ThreadsSame /\ LiveSame /\ waking = k
      BY <1>0, <1>Looks, LooksSteps, LooksFrame
      DEF LooksEffect, Admission, AdmissionOf
    <2>2. CASE Left(k)
      BY <1>0, <2>1, <2>2, AdmissionLeft
    <2>3. CASE GoesOn(k, "say") /\ UNCHANGED waking
      BY <1>0, <2>1, <2>3, AdmissionGoesOn
    <2>4. CASE /\ GoesOn(k, "reserve") /\ UNCHANGED waking
               /\ live[caller[k].thread] = Nothing
      BY <1>0, <2>1, <2>4, AdmissionGoesOn
    <2> QED
      BY <2>1, <2>2, <2>3, <2>4
  <1>Reserve. ASSUME NEW k \in Callers, Reserve(k)
             PROVE  Admission'
    <2>1. /\ \/ Left(k)
             \/ /\ GoesOn(k, "publish") \/ GoesOn(k, "evict")
                /\ UNCHANGED waking
          /\ ThreadsSame /\ LiveSame /\ Starts(k)
      BY <1>Reserve, ReserveSteps, ReserveFrame
      DEF ReserveEffect, GoesOnAlike, At, Starts
    <2>2. CASE Left(k)
      BY <1>0, <2>1, <2>2, AdmissionLeft
    <2>3. CASE ~Left(k)
      BY <1>0, <2>1, <2>3, AdmissionGoesOn
    <2> QED
      BY <2>2, <2>3
  <1>Evict. ASSUME NEW k \in Callers, Evict(k)
           PROVE  Admission'
    <2>1. /\ GoesOn(k, "reserve") \/ GoesOn(k, "evicting")
          /\ UNCHANGED waking /\ ThreadsSame /\ LiveSame /\ Starts(k)
      BY <1>Evict, EvictSteps, EvictFrame
      DEF EvictEffect, GoesOnAlike, At, Starts
    <2> QED
      BY <1>0, <2>1, AdmissionGoesOn
  <1>Evicted. ASSUME NEW k \in Callers, Evicted(k)
             PROVE  Admission'
    <2>1. /\ GoesOn(k, "reserve") /\ UNCHANGED waking /\ ThreadsSame
          /\ LiveSame /\ Starts(k)
      BY <1>Evicted, EvictedSteps, EvictedFrame
      DEF EvictedEffect, GoesOnAlike, At, Starts
    <2> QED
      BY <1>0, <2>1, AdmissionGoesOn
  <1>Publish. ASSUME NEW k \in Callers, Publish(k)
             PROVE  Admission'
    <2>1. CASE UNCHANGED <<made, side, live>>
      <3>1. Left(k)
        <4>1. made' # made + 1
          BY <1>0, <2>1
        <4>2. PublishEffect(k)
          BY <1>Publish, PublishSteps
        <4> QED
          BY <4>1, <4>2 DEF PublishEffect
      <3>2. ThreadsSame /\ LiveSame
        BY <2>1 DEF ThreadsSame, LiveSame
      <3> QED
        BY <1>0, <3>1, <3>2, AdmissionLeft
    <2>2. CASE ~UNCHANGED <<made, side, live>>
      <3> DEFINE t == caller[k].thread
      <3>1. /\ made' = made + 1 /\ made' \in Sides /\ Only(made')
            /\ live' = [live EXCEPT ![t] = made'] /\ t \in Threads
            /\ side'[made'].thread = t
            /\ GoesOn(k, "mark") /\ UNCHANGED waking
            /\ Starts(k) /\ (waking = k \/ Alone(k))
        BY <1>0, <1>Publish, PublishSteps, <2>2
        DEF PublishEffect, Admission, AdmissionOf, Starts, At
      <3>2. ASSUME NEW j \in Callers, j # k, Starts(j)
            PROVE  caller[j].thread # t
        <4>1. waking = j \/ Alone(j)
          BY <1>0, <3>2 DEF Admission, AdmissionOf
        <4>2. CASE waking = k
          BY <3>2, <4>1, <4>2 DEF Alone
        <4>3. CASE Alone(k)
          BY <3>2, <4>3 DEF Alone
        <4> QED
          BY <3>1, <4>2, <4>3
      <3>3. t = caller'[k].thread
        BY <3>1 DEF GoesOn
      <3> HIDE DEF t
      <3>4. ASSUME NEW j \in Callers, j # k
            PROVE  AdmissionOf(j)'
        <4>1. caller'[j] = caller[j] /\ AdmissionOf(j)
          BY <1>0, <3>1, <3>4 DEF GoesOn, OnlyCaller, Admission
        <4>2. At(j, "look")' => waking' = j
          BY <3>1, <4>1 DEF At, AdmissionOf
        <4>3. ASSUME Starts(j)'
              PROVE  /\ live'[caller'[j].thread] = Nothing
                     /\ waking' = j \/ Alone(j)'
          <5>1. Starts(j) /\ caller[j].thread # t /\ caller[j].thread \in Threads
            BY <1>0, <3>2, <3>4, <4>1, <4>3 DEF Starts, CallersAgree, At
          <5>2. live'[caller'[j].thread] = Nothing
            BY <1>0, <3>1, <4>1, <5>1 DEF AdmissionOf
          <5>3. ASSUME Alone(j)
                PROVE  Alone(j)'
            <6>1. ~Has(caller[j].thread)'
              BY <1>0, <3>1, <4>1, <5>1, <5>3 DEF Alone, Has, Only, Made
            <6>2. \A i \in Callers : i # j
                                       => caller'[i].thread # caller'[j].thread
              BY <3>1, <3>3, <4>1, <5>1, <5>3 DEF Alone, GoesOn, OnlyCaller
            <6> QED
              BY <6>1, <6>2 DEF Alone
          <5> QED
            BY <3>1, <4>1, <5>1, <5>2, <5>3 DEF AdmissionOf
        <4> QED
          BY <4>2, <4>3 DEF AdmissionOf
      <3>5. AdmissionOf(k)'
        BY <3>1 DEF GoesOn, AdmissionOf, At, Starts
      <3> QED
        BY <3>4, <3>5 DEF Admission
    <2> QED
      BY <2>1, <2>2
  <1>MarksLive. ASSUME NEW k \in Callers, MarksLive(k)
               PROVE  Admission'
    <2>1. /\ GoesOn(k, "marked") /\ UNCHANGED waking /\ ThreadsSame
          /\ LiveSame
      BY <1>MarksLive, MarksLiveSteps, MarksLiveFrame
      DEF MarksLiveEffect, GoesOnAlike, At, Starts
    <2> QED
      BY <1>0, <2>1, AdmissionGoesOn
  <1>BroughtUp. ASSUME NEW k \in Callers, BroughtUp(k)
               PROVE  Admission'
    <2>1. /\ GoesOn(k, "say") /\ UNCHANGED waking /\ ThreadsSame
          /\ LiveSame
      BY <1>BroughtUp, BroughtUpSteps, BroughtUpFrame
      DEF BroughtUpEffect, GoesOnAlike, At, Starts
    <2> QED
      BY <1>0, <2>1, AdmissionGoesOn
  <1>Say. ASSUME NEW k \in Callers, Say(k)
         PROVE  Admission'
    <2>1. Left(k) /\ ThreadsSame /\ LiveSame
      BY <1>Say, SaySteps, SayFrame DEF SayEffect
    <2> QED
      BY <1>0, <2>1, AdmissionLeft
  <1>Ask. ASSUME NEW k \in Callers, NEW t \in Threads, NEW l \in Lines,
                 NEW c \in BOOLEAN, Ask(k, t, l, c)
         PROVE  Admission'
    <2>1. /\ Begun(k, "knock", t, l) /\ UNCHANGED waking /\ link[t] # "none"
          /\ ThreadsSame /\ LiveSame
      BY <1>Ask, AskSteps, AskFrame DEF AskEffect
    <2>2. Has(t)
      BY <1>0, <2>1 DEF HasThread
    <2>3. \A j \in Callers : j # k /\ Starts(j) /\ Alone(j)
                               => caller'[k].thread # caller[j].thread
      BY <2>1, <2>2 DEF Alone, Begun
    <2>4. \A j \in Callers : j # k => AdmissionOf(j)'
      BY <1>0, <2>1, <2>3, OthersAdmitted DEF Begun
    <2>5. AdmissionOf(k)'
      BY <2>1 DEF Begun, AdmissionOf, At, Starts
    <2> QED
      BY <2>4, <2>5 DEF Admission
  <1>Open. ASSUME NEW k \in Callers, NEW t \in Threads, NEW l \in Lines, Open(k, t, l)
          PROVE  Admission'
    <2>1. /\ Begun(k, "reserve", t, l) /\ UNCHANGED waking
          /\ \A j \in Callers : caller[j].thread # t
          /\ \A s \in Made : side[s].thread # t
          /\ ThreadsSame /\ LiveSame
      BY <1>Open, OpenSteps, OpenFrame DEF OpenEffect
    <2>2. \A j \in Callers : j # k /\ Starts(j) /\ Alone(j)
                               => caller'[k].thread # caller[j].thread
      BY <2>1 DEF Begun
    <2>3. \A j \in Callers : j # k => AdmissionOf(j)'
      BY <1>0, <2>1, <2>2, OthersAdmitted DEF Begun
    <2>4. live[t] = Nothing
      BY <2>1 DEF MapAgrees
    <2>5. ~Has(t)'
      BY <1>0, <2>1 DEF Has, ThreadsSame, Made
    <2>6. Alone(k)'
      BY <2>1, <2>5 DEF Alone, Begun, OnlyCaller
    <2>7. AdmissionOf(k)'
      BY <2>1, <2>4, <2>6 DEF Begun, AdmissionOf, At, Starts, LiveSame
    <2> QED
      BY <2>3, <2>7 DEF Admission
  <1> QED
    BY AdmissionMoves, <1>Rest, <1>Leave, <1>Reopen, <1>Admitted, <1>Looks,
       <1>Reserve, <1>Evict,
       <1>Evicted, <1>Publish, <1>MarksLive, <1>BroughtUp, <1>Say, <1>Ask,
       <1>Open
-----------------------------------------------------------------------------
(* Every step keeps LinkAgrees, part by part: what a step does to endings  *)
(* and to the link of a thread with no live side, of one whose end is      *)
(* written, of one with a late mark, of one that is open, and of one that  *)
(* a start brings up.                                                      *)
LEMMA EndingMoves ==
  ASSUME Types, Known, MapAgrees, Next
  PROVE  \/ Claimed /\ ThreadsSame
         \/ \E s \in Sides : LetGo(s)
         \/ \E s \in Sides : WriteEnd(s)
         \/ \E s \in Sides : Leave(s)
         \/ \E k \in Callers : Publish(k)
  BY MarkedFrame, BuiltFrame, LooksUpFrame, TakesFirstFrame, StartFailsFrame,
     DropFrame, BeginFrame, EndTurnFrame, StopsFrame, NextLineFrame,
     RestsFrame, ReopenFrame, AdmittedFrame, LooksFrame, ReserveFrame,
     EvictFrame, EvictedFrame, MarksLiveFrame, BroughtUpFrame, SayFrame,
     ArchiveOwedFrame, DropsFrame, AskFrame, OpenFrame, ParkFrame,
     ArchiveFrame, MarkFrame, StopFrame, InvalidateFrame, ReattachFrame
  DEF Next, Owed, AgentSteps, Going, Start, RunQueue, Call, Claimed

(* Where an ending is claimed: every other side stays as it was.           *)
LEMMA ClaimedMeans ==
  ASSUME Types, Known, Claimed, ThreadsSame
  PROVE  \A q \in Made :
           /\ side'[q].thread = side[q].thread
           /\ side'[q].lease = side[q].lease
           /\ \/ /\ side'[q].phase = side[q].phase
                 /\ side'[q].going = side[q].going
                 /\ side'[q].to = side[q].to
              \/ /\ side[q].phase = "open" /\ side'[q].phase # "open"
                 /\ side[q].going = "no" /\ side'[q].going = "claimed"
                 /\ side[q].to = "none"
  <1>0. Made \subseteq Sides /\ SidesAgree
    BY Whom DEF Settled, Known
  <1>1. CASE EndsSame
    BY <1>0, <1>1 DEF EndsSame, EndsStay
  <1>2. ASSUME NEW s \in Made, ClaimOf(s), NEW q \in Made
        PROVE  /\ side'[q].thread = side[q].thread
               /\ side'[q].lease = side[q].lease
               /\ \/ /\ side'[q].phase = side[q].phase
                     /\ side'[q].going = side[q].going
                     /\ side'[q].to = side[q].to
                  \/ /\ side[q].phase = "open" /\ side'[q].phase # "open"
                     /\ side[q].going = "no" /\ side'[q].going = "claimed"
                     /\ side[q].to = "none"
    <2>1. /\ Only(s) /\ side[s].phase = "open" /\ side'[s].phase # "open"
          /\ side'[s].going = "claimed"
          /\ side'[s].lease = side[s].lease
          /\ side'[s].thread = side[s].thread
      BY <1>0, <1>2 DEF ClaimOf, ClaimStep, ParkStep
    <2> QED
      BY <1>0, <2>1 DEF Only, SidesAgree
  <1> QED
    BY <1>1, <1>2 DEF Claimed

LEMMA OpenIsLive ==
  ASSUME Known, MapAgrees, NEW s \in Made, side[s].phase = "open"
  PROVE  side[s].going = "no" /\ side[s].to = "none" /\ live[side[s].thread] = s
  BY DEF Known, SidesAgree, MapAgrees

(* What a side that is made has of a published one's beginning.            *)
LEMMA PublishMakes ==
  ASSUME Types, Known, MapAgrees, NEW k \in Callers, Publish(k)
  PROVE  /\ \A q \in Made : q \in Made' /\ side'[q] = side[q]
         /\ \A q \in Made' : q \in Made \/ (made' # made /\ q = made')
         /\ made' # made => made' \notin Made /\ made' \in Made'
  <1>0. made \in Nat /\ Made \subseteq Sides
    BY Whom DEF Settled
  <1>1. UNCHANGED <<made, side>> \/ (made' = made + 1 /\ Only(made'))
    BY PublishSteps DEF PublishEffect
  <1> QED
    BY <1>0, <1>1 DEF Made, Only

LEMMA PutStays ==
  ASSUME Types, Known, MapAgrees, Next
  PROVE  \A t \in Threads : PutBack(t) => PutBack(t)'
  <1>0. Made \subseteq Sides /\ made \in Nat
    BY Whom DEF Settled
  <1>1. ASSUME \A q \in Made : side[q].to = "prior" =>
                 /\ q \in Made' /\ side'[q].thread = side[q].thread
                 /\ side'[q].to = "prior"
        PROVE  \A t \in Threads : PutBack(t) => PutBack(t)'
    BY <1>1 DEF PutBack
  <1>2. CASE Claimed /\ ThreadsSame
    BY <1>1, <1>2, ClaimedMeans DEF Made, ThreadsSame
  <1>3. ASSUME NEW s \in Sides, LetGo(s) \/ WriteEnd(s) \/ Leave(s)
        PROVE  \A q \in Made : /\ q \in Made'
                               /\ side'[q].thread = side[q].thread
                               /\ side'[q].to = side[q].to
    BY <1>0, <1>3, LetGoSteps, LetGoFrame, WriteEndSteps, WriteEndFrame,
       LeaveSteps, LeaveFrame
    DEF LetGoEffect, WriteEndEffect, LeaveEffect, ThreadsSame, Made
  <1>4. ASSUME NEW k \in Callers, Publish(k)
        PROVE  \A t \in Threads : PutBack(t) => PutBack(t)'
    BY <1>1, <1>4, PublishMakes
  <1> QED
    BY EndingMoves, <1>1, <1>2, <1>3, <1>4

LEMMA LinkOfNoneMoves ==
  ASSUME Types, Known, MapAgrees, Next
  PROVE  \/ LiveSame /\ LinkSame
         \/ \E s \in Sides : WriteEnd(s)
         \/ \E s \in Sides : Leave(s)
         \/ \E s \in Sides : Marked(s)
         \/ \E k \in Callers : Publish(k)
         \/ \E t \in Threads : ArchiveOwed(t)
         \/ \E t \in Threads : Archive(t)
  BY LetGoFrame, BuiltFrame, LooksUpFrame, TakesFirstFrame, StartFailsFrame,
     DropFrame, BeginFrame, EndTurnFrame, StopsFrame, NextLineFrame,
     RestsFrame, ReopenFrame, AdmittedFrame, LooksFrame, ReserveFrame,
     EvictFrame, EvictedFrame, MarksLiveFrame, BroughtUpFrame, SayFrame,
     DropsFrame, AskFrame, OpenFrame, ParkFrame, MarkFrame, StopFrame,
     InvalidateFrame, ReattachFrame
  DEF Next, Owed, AgentSteps, Going, Start, RunQueue, Call

LEMMA LinkOfNoneKept ==
  ASSUME Types, Known, MapAgrees, LinkAgrees, Next
  PROVE  LinkOfNone'
  <1>0. /\ Made \subseteq Sides /\ made \in Nat /\ LinkAgrees
        /\ live \in [Threads -> Sides \cup {Nothing}]
        /\ link \in [Threads -> {"none", "live", "parked", "closed"}]
        /\ \A t \in Threads : PutBack(t) => PutBack(t)'
        /\ \A s \in Made : side[s].thread \in Threads
    BY PutStays, Whom DEF Settled, RoomTypes, Known, SidesAgree
  <1>Rest. CASE LiveSame /\ LinkSame
    BY <1>0, <1>Rest DEF LinkAgrees, LinkOfNone, LiveSame, LinkSame
  <1>WriteEnd. ASSUME NEW s \in Sides, WriteEnd(s)
              PROVE  LinkOfNone'
    <2>1. /\ UNCHANGED live
          /\ \A t \in Threads : link'[t] = "live" => link[t] = "live"
      BY <1>0, <1>WriteEnd, WriteEndSteps DEF WriteEndEffect
    <2> QED
      BY <1>0, <2>1 DEF LinkAgrees, LinkOfNone
  <1>Leave. ASSUME NEW s \in Sides, Leave(s)
           PROVE  LinkOfNone'
    <2>1. /\ UNCHANGED link /\ s \in Made /\ side[s].going = "written"
          /\ \A t \in Threads : live'[t] = IF live[t] = s THEN Nothing
                                           ELSE live[t]
      BY <1>0, <1>Leave, LeaveSteps DEF LeaveEffect
    <2>2. ASSUME NEW t \in Threads, live'[t] = Nothing, link'[t] = "live"
          PROVE  PutBack(t)
      <3>1. CASE live[t] = Nothing
        BY <1>0, <2>1, <2>2, <3>1 DEF LinkAgrees, LinkOfNone
      <3>2. CASE live[t] = s
        <4>1. side[s].thread = t
          BY <2>1, <3>2 DEF MapAgrees, Made, Nothing
        <4> QED
          BY <1>0, <2>1, <2>2, <4>1 DEF LinkAgrees, LinkWritten
      <3> QED
        BY <2>1, <2>2, <3>1, <3>2
    <2> QED
      BY <1>0, <2>2 DEF LinkOfNone
  <1>Marked. ASSUME NEW s \in Sides, Marked(s)
            PROVE  LinkOfNone'
    <2>1. /\ UNCHANGED live /\ s \in Made /\ side[s].marking = TRUE
          /\ \A t \in Threads : link'[t] # link[t] => t = side[s].thread
      BY <1>0, <1>Marked, MarkedSteps, MarkedFrame DEF MarkedEffect, LiveSame
    <2>2. ASSUME live[side[s].thread] = Nothing
          PROVE  PutBack(side[s].thread)
      <3>1. side[s].going = "gone"
        BY <1>0, <2>1, <2>2 DEF MapAgrees, Nothing, Made
      <3> QED
        BY <1>0, <2>1, <3>1 DEF LinkAgrees, LateMarks, PutBack
    <2> QED
      BY <1>0, <2>1, <2>2 DEF LinkAgrees, LinkOfNone
  <1>Publish. ASSUME NEW k \in Callers, Publish(k)
             PROVE  LinkOfNone'
    <2>1. UNCHANGED link
      BY <1>Publish, PublishFrame DEF LinkSame
    <2>2. \A t \in Threads : live'[t] = Nothing => live[t] = Nothing
      <3>1. \A t \in Threads : live'[t] = live[t] \/ live'[t] \in Sides
        BY <1>0, <1>Publish, PublishSteps DEF PublishEffect
      <3> QED
        BY <1>0, <3>1 DEF Sides, Nothing
    <2> QED
      BY <1>0, <2>1, <2>2 DEF LinkAgrees, LinkOfNone
  <1>ArchiveOwed. ASSUME NEW t \in Threads, ArchiveOwed(t)
                 PROVE  LinkOfNone'
    <2>1. /\ UNCHANGED live
          /\ \A u \in Threads : link'[u] = "live" => link[u] = "live"
      BY <1>0, <1>ArchiveOwed, ArchiveOwedSteps, ArchiveOwedFrame
      DEF ArchiveOwedEffect, LiveSame
    <2> QED
      BY <1>0, <2>1 DEF LinkAgrees, LinkOfNone
  <1>Archive. ASSUME NEW t \in Threads, Archive(t)
             PROVE  LinkOfNone'
    <2>1. /\ UNCHANGED live
          /\ \A u \in Threads : link'[u] = "live" => link[u] = "live"
      BY <1>0, <1>Archive, ArchiveSteps, ArchiveFrame DEF ArchiveEffect, LiveSame
    <2> QED
      BY <1>0, <2>1 DEF LinkAgrees, LinkOfNone
  <1> QED
    BY LinkOfNoneMoves, <1>Rest, <1>WriteEnd, <1>Leave, <1>Marked, <1>Publish,
       <1>ArchiveOwed,
       <1>Archive

LEMMA LinkWrittenMoves ==
  ASSUME Types, Known, MapAgrees, Next
  PROVE  \/ Claimed /\ ThreadsSame /\ LinkSame
         \/ \E s \in Sides : LetGo(s)
         \/ \E s \in Sides : WriteEnd(s)
         \/ \E s \in Sides : Leave(s)
         \/ \E s \in Sides : Marked(s)
         \/ \E k \in Callers : Publish(k)
         \/ \E t \in Threads : ArchiveOwed(t)
         \/ \E t \in Threads : Archive(t)
  BY BuiltFrame, LooksUpFrame, TakesFirstFrame, StartFailsFrame, DropFrame,
     BeginFrame, EndTurnFrame, StopsFrame, NextLineFrame, RestsFrame,
     ReopenFrame, AdmittedFrame, LooksFrame, ReserveFrame, EvictFrame,
     EvictedFrame, MarksLiveFrame, BroughtUpFrame, SayFrame, DropsFrame,
     AskFrame, OpenFrame, ParkFrame, MarkFrame, StopFrame, InvalidateFrame,
     ReattachFrame
  DEF Next, Owed, AgentSteps, Going, Start, RunQueue, Call, Claimed

LEMMA LinkWrittenKept ==
  ASSUME Types, Known, MapAgrees, LinkAgrees, Next
  PROVE  LinkWritten'
  <1>0. /\ Made \subseteq Sides /\ made \in Nat /\ LinkAgrees
        /\ live \in [Threads -> Sides \cup {Nothing}]
        /\ link \in [Threads -> {"none", "live", "parked", "closed"}]
        /\ \A t \in Threads : PutBack(t) => PutBack(t)'
        /\ \A s \in Made : side[s].thread \in Threads
    BY PutStays, Whom DEF Settled, RoomTypes, Known, SidesAgree
  <1>Rest. CASE Claimed /\ ThreadsSame /\ LinkSame
    BY <1>0, <1>Rest, ClaimedMeans
    DEF LinkAgrees, LinkWritten, LinkSame, ThreadsSame, Made
  <1>LetGo. ASSUME NEW s \in Sides, LetGo(s)
           PROVE  LinkWritten'
    <2>1. /\ UNCHANGED <<made, link>> /\ Only(s) /\ side'[s].going = "silent"
      BY <1>LetGo, LetGoSteps, LetGoFrame DEF LetGoEffect, LinkSame, ThreadsSame
    <2> QED
      BY <1>0, <2>1 DEF LinkAgrees, LinkWritten, Only, Made
  <1>WriteEnd. ASSUME NEW s \in Sides, WriteEnd(s)
              PROVE  LinkWritten'
    <2>1. /\ UNCHANGED made /\ Only(s) /\ s \in Made
          /\ side'[s].thread = side[s].thread
          /\ link'[side[s].thread] # "live"
          /\ \A t \in Threads : t # side[s].thread => link'[t] = link[t]
      <3>1. /\ UNCHANGED made /\ Only(s) /\ s \in Made
            /\ side'[s].thread = side[s].thread
        BY <1>0, <1>WriteEnd, WriteEndSteps DEF WriteEndEffect
      <3>2. link' = [link EXCEPT ![side[s].thread] =
                       IF side[s].to = "parked" THEN "parked" ELSE "closed"]
        BY <1>WriteEnd, WriteEndSteps DEF WriteEndEffect
      <3>3. side[s].thread \in Threads
        BY <1>0, <3>1
      <3> QED
        BY <1>0, <3>1, <3>2, <3>3
    <2> QED
      BY <1>0, <2>1 DEF LinkAgrees, LinkWritten, Only, Made
  <1>Leave. ASSUME NEW s \in Sides, Leave(s)
           PROVE  LinkWritten'
    <2>1. /\ UNCHANGED <<made, link>> /\ Only(s) /\ side'[s].going = "gone"
      BY <1>Leave, LeaveSteps, LeaveFrame DEF LeaveEffect, LinkSame, ThreadsSame
    <2> QED
      BY <1>0, <2>1 DEF LinkAgrees, LinkWritten, Only, Made
  <1>Marked. ASSUME NEW s \in Sides, Marked(s)
            PROVE  LinkWritten'
    <2>1. /\ UNCHANGED made /\ EndsStay /\ s \in Made /\ side[s].marking = TRUE
          /\ \A t \in Threads : link'[t] # link[t] => t = side[s].thread
      BY <1>0, <1>Marked, MarkedSteps, MarkedFrame DEF MarkedEffect, ThreadsSame
    <2>2. ASSUME NEW q \in Made, side[q].going = "written",
                 side[q].thread = side[s].thread
          PROVE  PutBack(side[s].thread)
      <3>1. CASE side[s].going = "gone"
        BY <1>0, <2>1, <3>1 DEF LinkAgrees, LateMarks, PutBack
      <3>2. CASE side[s].going # "gone"
        <4>1. s = q
          BY <2>1, <2>2, <3>2 DEF MapAgrees
        <4> QED
          BY <1>0, <2>1, <2>2, <4>1 DEF LinkAgrees, LateMarks, PutBack
      <3> QED
        BY <3>1, <3>2
    <2>3. ASSUME NEW q \in Made', side'[q].going = "written",
                 link'[side'[q].thread] = "live"
          PROVE  PutBack(side[q].thread)'
      <3>1. /\ q \in Made /\ side[q].going = "written"
            /\ side'[q].thread = side[q].thread
        BY <1>0, <2>1, <2>3 DEF EndsStay, Made
      <3>2. CASE side[q].thread = side[s].thread
        BY <1>0, <2>1, <2>2, <3>1, <3>2
      <3>3. CASE side[q].thread # side[s].thread
        BY <1>0, <2>1, <2>3, <3>1, <3>3 DEF LinkAgrees, LinkWritten
      <3> QED
        BY <3>2, <3>3
    <2> QED
      BY <2>3 DEF LinkWritten
  <1>Publish. ASSUME NEW k \in Callers, Publish(k)
             PROVE  LinkWritten'
    <2>1. UNCHANGED link
      BY <1>Publish, PublishFrame DEF LinkSame
    <2>2. made' # made => side'[made'].going = "no"
      BY <1>Publish, PublishSteps DEF PublishEffect
    <2>3. \A q \in Made' : side'[q].going = "written"
                               => q \in Made /\ side'[q] = side[q]
      BY <1>Publish, <2>2, PublishMakes
    <2> QED
      BY <1>0, <2>1, <2>3 DEF LinkAgrees, LinkWritten
  <1>ArchiveOwed. ASSUME NEW t \in Threads, ArchiveOwed(t)
                 PROVE  LinkWritten'
    <2>1. /\ Claimed /\ ThreadsSame
          /\ \A u \in Threads : link'[u] = "live" => link[u] = "live"
      BY <1>0, <1>ArchiveOwed, ArchiveOwedSteps, ArchiveOwedFrame DEF ArchiveOwedEffect
    <2> QED
      BY <1>0, <2>1, ClaimedMeans
      DEF LinkAgrees, LinkWritten, ThreadsSame, Made
  <1>Archive. ASSUME NEW t \in Threads, Archive(t)
             PROVE  LinkWritten'
    <2>1. /\ Claimed /\ ThreadsSame
          /\ \A u \in Threads : link'[u] = "live" => link[u] = "live"
      BY <1>0, <1>Archive, ArchiveSteps, ArchiveFrame DEF ArchiveEffect
    <2> QED
      BY <1>0, <2>1, ClaimedMeans
      DEF LinkAgrees, LinkWritten, ThreadsSame, Made
  <1> QED
    BY LinkWrittenMoves, <1>Rest, <1>LetGo, <1>WriteEnd, <1>Leave, <1>Marked,
       <1>Publish,
       <1>ArchiveOwed, <1>Archive

(* What a side that is made never takes back: its thread, the end of its   *)
(* authority, and that it is open no more.                                 *)
LEMMA Onward ==
  ASSUME Types, Known, MapAgrees, Next
  PROVE  \A q \in Made :
           /\ q \in Made' /\ side'[q].thread = side[q].thread
           /\ side'[q].phase = "open" => side[q].phase = "open"
           /\ \/ side'[q].lease = side[q].lease
              \/ side'[q].lease = -1 /\ side'[q].phase # "open"
  <1>0. Made \subseteq Sides /\ made \in Nat
        /\ \A q \in Made : side[q].phase = "open" <=> side[q].going = "no"
    BY Whom DEF Settled, Known, SidesAgree
  <1>1. CASE Claimed /\ ThreadsSame
    BY <1>1, ClaimedMeans DEF Made, ThreadsSame
  <1>2. ASSUME NEW s \in Sides, LetGo(s)
        PROVE  /\ Only(s) /\ s \in Made /\ UNCHANGED made
               /\ side'[s].thread = side[s].thread
               /\ side'[s].phase = side[s].phase /\ side'[s].phase # "open"
               /\ side'[s].lease = -1
    BY <1>0, <1>2, LetGoSteps, LetGoFrame DEF LetGoEffect, ThreadsSame
  <1>3. ASSUME NEW s \in Sides, WriteEnd(s) \/ Leave(s)
        PROVE  /\ UNCHANGED made
               /\ \A q \in Sides : /\ side'[q].thread = side[q].thread
                                   /\ side'[q].phase = side[q].phase
                                   /\ side'[q].lease = side[q].lease
    BY <1>3, WriteEndSteps, WriteEndFrame, LeaveSteps, LeaveFrame
    DEF WriteEndEffect, LeaveEffect, ThreadsSame
  <1>4. CASE \E s \in Sides : LetGo(s)
    BY <1>0, <1>2, <1>4 DEF Only, Made
  <1>5. CASE \E s \in Sides : WriteEnd(s) \/ Leave(s)
    BY <1>0, <1>3, <1>5 DEF Made
  <1>6. CASE \E k \in Callers : Publish(k)
    BY <1>6, PublishMakes
  <1> QED
    BY EndingMoves, <1>1, <1>4, <1>5, <1>6

LEMMA LateMarksMoves ==
  ASSUME Types, Known, MapAgrees, Next
  PROVE  \/ Claimed /\ MarksStay /\ ThreadsSame
         \/ \E s \in Sides : LetGo(s)
         \/ \E s \in Sides : WriteEnd(s)
         \/ \E s \in Sides : Leave(s)
         \/ \E s \in Sides : Marked(s)
         \/ \E k \in Callers : Publish(k)
         \/ \E k \in Callers : MarksLive(k)
         \/ \E s \in Sides : Mark(s)
  BY BuiltFrame, LooksUpFrame, TakesFirstFrame, StartFailsFrame, DropFrame,
     BeginFrame, EndTurnFrame, StopsFrame, NextLineFrame, RestsFrame,
     ReopenFrame, AdmittedFrame, LooksFrame, ReserveFrame, EvictFrame,
     EvictedFrame, BroughtUpFrame, SayFrame, ArchiveOwedFrame, DropsFrame,
     AskFrame, OpenFrame, ParkFrame, ArchiveFrame, StopFrame,
     InvalidateFrame, ReattachFrame
  DEF Next, Owed, AgentSteps, Going, Start, RunQueue, Call, Claimed

LEMMA LateMarksKept ==
  ASSUME Types, Known, MapAgrees, LinkAgrees, Next
  PROVE  LateMarks'
  <1>0. /\ Made \subseteq Sides /\ made \in Nat /\ LinkAgrees
        /\ live \in [Threads -> Sides \cup {Nothing}]
        /\ link \in [Threads -> {"none", "live", "parked", "closed"}]
        /\ \A s \in Made : /\ side[s].thread \in Threads
                           /\ side[s].phase = "open" <=> side[s].going = "no"
    BY Whom DEF Settled, RoomTypes, Known, SidesAgree
  <1>Rest. CASE Claimed /\ MarksStay /\ ThreadsSame
    BY <1>0, <1>Rest, ClaimedMeans
    DEF LinkAgrees, LateMarks, MarksStay, ThreadsSame, Made
  <1>LetGo. ASSUME NEW s \in Sides, LetGo(s)
           PROVE  LateMarks'
    <2>1. /\ UNCHANGED made /\ Only(s) /\ side'[s].going = "silent" /\ s \in Made
          /\ MarksStay /\ side'[s].to = side[s].to
      BY <1>LetGo, LetGoSteps, LetGoFrame DEF LetGoEffect, ThreadsSame
    <2> QED
      BY <1>0, <2>1 DEF LinkAgrees, LateMarks, Only, Made, MarksStay
  <1>WriteEnd. ASSUME NEW s \in Sides, WriteEnd(s)
              PROVE  LateMarks'
    <2>1. /\ UNCHANGED made /\ Only(s) /\ side'[s].going = "written" /\ s \in Made
          /\ MarksStay /\ side'[s].to = side[s].to
          /\ side[s].to # "prior" => side[s].marking = FALSE
      BY <1>WriteEnd, WriteEndSteps, WriteEndFrame DEF WriteEndEffect, ThreadsSame
    <2> QED
      BY <1>0, <2>1 DEF LinkAgrees, LateMarks, Only, Made, MarksStay
  <1>Leave. ASSUME NEW s \in Sides, Leave(s)
           PROVE  LateMarks'
    <2>1. /\ UNCHANGED made /\ Only(s) /\ side'[s].going = "gone" /\ s \in Made
          /\ MarksStay /\ side'[s].to = side[s].to
          /\ side[s].going = "written"
      BY <1>Leave, LeaveSteps, LeaveFrame DEF LeaveEffect, ThreadsSame
    <2> QED
      BY <1>0, <2>1 DEF LinkAgrees, LateMarks, Only, Made, MarksStay
  <1>Marked. ASSUME NEW s \in Sides, Marked(s)
            PROVE  LateMarks'
    <2>1. /\ UNCHANGED made /\ EndsStay /\ Only(s) /\ side'[s].marking = FALSE
      BY <1>Marked, MarkedSteps, MarkedFrame DEF MarkedEffect, ThreadsSame
    <2> QED
      BY <1>0, <2>1 DEF LinkAgrees, LateMarks, Only, Made, EndsStay
  <1>Publish. ASSUME NEW k \in Callers, Publish(k)
             PROVE  LateMarks'
    <2>1. made' # made => side'[made'].going = "no"
      BY <1>Publish, PublishSteps DEF PublishEffect
    <2> QED
      BY <1>0, <1>Publish, <2>1, PublishMakes DEF LinkAgrees, LateMarks
  <1>MarksLive. ASSUME NEW k \in Callers, MarksLive(k)
               PROVE  LateMarks'
    <2> DEFINE s == caller[k].side
    <2>1. /\ UNCHANGED made /\ EndsStay /\ Only(s)
          /\ side[s].phase # "open" => side'[s].marking = FALSE
          /\ s \in Made
      BY <1>MarksLive, MarksLiveSteps, MarksLiveFrame
      DEF MarksLiveEffect, ThreadsSame
    <2> HIDE DEF s
    <2>2. ASSUME NEW q \in Made, side'[q].marking = TRUE,
                 side'[q].going \in {"written", "gone"}
          PROVE  side'[q].to = "prior"
      <3>1. /\ side'[q].going = side[q].going /\ side'[q].to = side[q].to
            /\ side[q].phase # "open"
        BY <1>0, <2>1, <2>2 DEF EndsStay
      <3>2. q # s
        BY <2>1, <2>2, <3>1
      <3> QED
        BY <1>0, <2>1, <2>2, <3>1, <3>2 DEF LinkAgrees, LateMarks, Only
    <2> QED
      BY <2>1, <2>2 DEF LateMarks, Made
  <1>Mark. ASSUME NEW s \in Sides, Mark(s)
          PROVE  LateMarks'
    <2>1. /\ UNCHANGED made /\ EndsStay /\ Only(s) /\ side[s].phase = "open"
      BY <1>Mark, MarkSteps, MarkFrame DEF MarkEffect, ThreadsSame
    <2>2. ASSUME NEW q \in Made, side'[q].marking = TRUE,
                 side'[q].going \in {"written", "gone"}
          PROVE  side'[q].to = "prior"
      <3>1. /\ side'[q].going = side[q].going /\ side'[q].to = side[q].to
            /\ side[q].phase # "open"
        BY <1>0, <2>1, <2>2 DEF EndsStay
      <3>2. q # s
        BY <2>1, <3>1
      <3> QED
        BY <1>0, <2>1, <2>2, <3>1, <3>2 DEF LinkAgrees, LateMarks, Only
    <2> QED
      BY <2>1, <2>2 DEF LateMarks, Made
  <1> QED
    BY LateMarksMoves, <1>Rest, <1>LetGo, <1>WriteEnd, <1>Leave, <1>Marked,
       <1>Publish, <1>MarksLive,
       <1>Mark

(* The link of a side that stays open stays live, or is about to be.       *)
LinkKeeps == \A q \in Made :
  side'[q].phase = "open" =>
    /\ link[side[q].thread] = "live" => link'[side[q].thread] = "live"
    /\ side[q].marking = TRUE => \/ side'[q].marking = TRUE
                                 \/ link'[side[q].thread] = "live"

LEMMA LinkKeepsMoves ==
  ASSUME Types, Known, MapAgrees, Next
  PROVE  \/ Claimed /\ ThreadsSame /\ LinkSame /\ MarksStay
         \/ \E s \in Sides : LetGo(s)
         \/ \E s \in Sides : WriteEnd(s)
         \/ \E s \in Sides : Leave(s)
         \/ \E s \in Sides : Marked(s)
         \/ \E k \in Callers : Publish(k)
         \/ \E k \in Callers : MarksLive(k)
         \/ \E t \in Threads : ArchiveOwed(t)
         \/ \E t \in Threads : Archive(t)
         \/ \E s \in Sides : Mark(s)
  BY BuiltFrame, LooksUpFrame, TakesFirstFrame, StartFailsFrame, DropFrame,
     BeginFrame, EndTurnFrame, StopsFrame, NextLineFrame, RestsFrame,
     ReopenFrame, AdmittedFrame, LooksFrame, ReserveFrame, EvictFrame,
     EvictedFrame, BroughtUpFrame, SayFrame, DropsFrame, AskFrame, OpenFrame,
     ParkFrame, StopFrame, InvalidateFrame, ReattachFrame
  DEF Next, Owed, AgentSteps, Going, Start, RunQueue, Call, Claimed

LEMMA LinkKeepsKept ==
  ASSUME Types, Known, MapAgrees, Next
  PROVE  LinkKeeps
  <1>0. /\ Made \subseteq Sides /\ made \in Nat
        /\ live \in [Threads -> Sides \cup {Nothing}]
        /\ link \in [Threads -> {"none", "live", "parked", "closed"}]
        /\ \A s \in Made : /\ side[s].thread \in Threads
                           /\ side[s].phase = "open" <=> side[s].going = "no"
    BY Whom DEF Settled, RoomTypes, Known, SidesAgree
  <1>Rest. CASE Claimed /\ ThreadsSame /\ LinkSame /\ MarksStay
    BY <1>0, <1>Rest DEF LinkKeeps, LinkSame, MarksStay
  <1>LetGo. ASSUME NEW s \in Sides, LetGo(s)
           PROVE  LinkKeeps
    <2>1. UNCHANGED link /\ MarksStay
      BY <1>LetGo, LetGoFrame DEF LinkSame
    <2> QED
      BY <1>0, <2>1 DEF LinkKeeps, MarksStay
  <1>WriteEnd. ASSUME NEW s \in Sides, WriteEnd(s)
              PROVE  LinkKeeps
    <2>1. /\ MarksStay /\ s \in Made /\ side[s].going = "silent"
          /\ link' = [link EXCEPT ![side[s].thread] =
                       IF side[s].to = "parked" THEN "parked" ELSE "closed"]
      BY <1>WriteEnd, WriteEndSteps, WriteEndFrame DEF WriteEndEffect
    <2>2. ASSUME NEW q \in Made, side'[q].phase = "open"
          PROVE  side[q].thread # side[s].thread
      <3>1. side[q].phase = "open"
        BY <1>WriteEnd, <2>2, Onward DEF Next, Owed, Going
      <3> QED
        BY <2>1, <3>1, OpenIsLive DEF MapAgrees
    <2> QED
      BY <1>0, <2>1, <2>2 DEF LinkKeeps, MarksStay
  <1>Leave. ASSUME NEW s \in Sides, Leave(s)
           PROVE  LinkKeeps
    <2>1. UNCHANGED link /\ MarksStay
      BY <1>Leave, LeaveFrame DEF LinkSame
    <2> QED
      BY <1>0, <2>1 DEF LinkKeeps, MarksStay
  <1>Marked. ASSUME NEW s \in Sides, Marked(s)
            PROVE  LinkKeeps
    <2>1. /\ Only(s) /\ s \in Made
          /\ link' = [link EXCEPT ![side[s].thread] = "live"]
      BY <1>Marked, MarkedSteps DEF MarkedEffect
    <2>2. /\ link'[side[s].thread] = "live"
          /\ \A u \in Threads : link[u] = "live" => link'[u] = "live"
      BY <1>0, <2>1
    <2>3. \A q \in Made : side[q].marking = TRUE
             => side'[q].marking = TRUE \/ link'[side[q].thread] = "live"
      BY <1>0, <2>1, <2>2 DEF Only
    <2> QED
      BY <1>0, <2>2, <2>3 DEF LinkKeeps
  <1>Publish. ASSUME NEW k \in Callers, Publish(k)
             PROVE  LinkKeeps
    <2>1. UNCHANGED link
      BY <1>Publish, PublishFrame DEF LinkSame
    <2> QED
      BY <1>0, <1>Publish, <2>1, PublishMakes DEF LinkKeeps
  <1>MarksLive. ASSUME NEW k \in Callers, MarksLive(k)
               PROVE  LinkKeeps
    <2> DEFINE s == caller[k].side
    <2>1. UNCHANGED link /\ Only(s) /\ side[s].marking = FALSE
      BY <1>MarksLive, MarksLiveSteps, MarksLiveFrame
      DEF MarksLiveEffect, LinkSame
    <2> HIDE DEF s
    <2> QED
      BY <1>0, <2>1 DEF LinkKeeps, Only
  <1>ArchiveOwed. ASSUME NEW t \in Threads, ArchiveOwed(t)
                 PROVE  LinkKeeps
    <2>1. /\ MarksStay
          /\ \/ UNCHANGED link
             \/ /\ live[t] = Nothing
                /\ \A u \in Threads : u # t => link'[u] = link[u]
      BY <1>0, <1>ArchiveOwed, ArchiveOwedSteps, ArchiveOwedFrame DEF ArchiveOwedEffect
    <2>2. ASSUME NEW q \in Made, side'[q].phase = "open"
          PROVE  live[side[q].thread] = q
      BY <1>ArchiveOwed, <2>2, Onward, OpenIsLive DEF Next, Owed
    <2>3. ASSUME NEW q \in Made, side'[q].phase = "open"
          PROVE  link'[side[q].thread] = link[side[q].thread]
      <3>1. q # Nothing /\ side[q].thread \in Threads
        BY <1>0 DEF Made, Nothing
      <3> QED
        BY <2>1, <2>2, <2>3, <3>1
    <2> QED
      BY <1>0, <2>1, <2>3 DEF LinkKeeps, MarksStay
  <1>Archive. ASSUME NEW t \in Threads, Archive(t)
             PROVE  LinkKeeps
    <2>1. /\ MarksStay
          /\ \/ UNCHANGED link
             \/ /\ live[t] = Nothing
                /\ \A u \in Threads : u # t => link'[u] = link[u]
      BY <1>0, <1>Archive, ArchiveSteps, ArchiveFrame DEF ArchiveEffect
    <2>2. ASSUME NEW q \in Made, side'[q].phase = "open"
          PROVE  live[side[q].thread] = q
      BY <1>Archive, <2>2, Onward, OpenIsLive DEF Next, Owed
    <2>3. ASSUME NEW q \in Made, side'[q].phase = "open"
          PROVE  link'[side[q].thread] = link[side[q].thread]
      <3>1. q # Nothing /\ side[q].thread \in Threads
        BY <1>0 DEF Made, Nothing
      <3> QED
        BY <2>1, <2>2, <2>3, <3>1
    <2> QED
      BY <1>0, <2>1, <2>3 DEF LinkKeeps, MarksStay
  <1>Mark. ASSUME NEW s \in Sides, Mark(s)
          PROVE  LinkKeeps
    <2>1. UNCHANGED link /\ Only(s) /\ side'[s].marking = TRUE
      BY <1>Mark, MarkSteps, MarkFrame DEF MarkEffect, LinkSame
    <2> QED
      BY <1>0, <2>1 DEF LinkKeeps, Only
  <1> QED
    BY LinkKeepsMoves, <1>Rest, <1>LetGo, <1>WriteEnd, <1>Leave, <1>Marked,
       <1>Publish, <1>MarksLive,
       <1>ArchiveOwed, <1>Archive, <1>Mark

(* Whoever brings a thread up goes on doing so until it is marked live.    *)
MarkersStay ==
  \A j \in Callers :
    /\ caller[j].pc \in {"mark", "marked"} =>
         caller'[j].pc \in {"mark", "marked"} /\ caller'[j].side = caller[j].side
    /\ caller'[j].pc = "marked" =>
         caller[j].pc = "marked" /\ caller'[j].side = caller[j].side
MarkersMove == \/ MarkersStay
               \/ \E j \in Callers : MarksLive(j) \/ BroughtUp(j) \/ Publish(j)

LEMMA MarkersMoves ==
  ASSUME Types, Known, MapAgrees, Next
  PROVE  \/ CallersSame
         \/ \E k \in Callers : Reopen(k)
         \/ \E k \in Callers : Admitted(k)
         \/ \E k \in Callers : Looks(k)
         \/ \E k \in Callers : Reserve(k)
         \/ \E k \in Callers : Evict(k)
         \/ \E k \in Callers : Evicted(k)
         \/ \E k \in Callers : Publish(k)
         \/ \E k \in Callers : MarksLive(k)
         \/ \E k \in Callers : BroughtUp(k)
         \/ \E k \in Callers : Say(k)
         \/ \E k \in Callers, t \in Threads, l \in Lines, c \in BOOLEAN : Ask(k, t, l, c)
         \/ \E k \in Callers, t \in Threads, l \in Lines : Open(k, t, l)
  BY LetGoFrame, WriteEndFrame, LeaveFrame, MarkedFrame, BuiltFrame,
     LooksUpFrame, TakesFirstFrame, StartFailsFrame, DropFrame, BeginFrame,
     EndTurnFrame, StopsFrame, NextLineFrame, RestsFrame, ArchiveOwedFrame,
     DropsFrame, ParkFrame, ArchiveFrame, MarkFrame, StopFrame,
     InvalidateFrame, ReattachFrame
  DEF Next, Owed, AgentSteps, Going, Start, RunQueue, Call

LEMMA MarkersKept ==
  ASSUME Types, Known, MapAgrees, Next
  PROVE  MarkersMove
  <1>Rest. CASE CallersSame
    BY <1>Rest DEF MarkersMove, MarkersStay, CallersSame
  <1>Reopen. ASSUME NEW k \in Callers, Reopen(k)
            PROVE  MarkersMove
    <2>1. /\ OnlyCaller(k) /\ caller[k].pc \notin {"mark", "marked"}
          /\ caller'[k].pc # "marked"
      BY <1>Reopen, ReopenSteps DEF ReopenEffect, Begun, At
    <2> QED
      BY <2>1 DEF MarkersMove, MarkersStay, OnlyCaller
  <1>Admitted. ASSUME NEW k \in Callers, Admitted(k)
              PROVE  MarkersMove
    <2>1. /\ OnlyCaller(k) /\ caller[k].pc \notin {"mark", "marked"}
          /\ caller'[k].pc # "marked"
      BY <1>Admitted, AdmittedSteps
      DEF AdmittedEffect, GoesOnAlike, GoesOn, At
    <2> QED
      BY <2>1 DEF MarkersMove, MarkersStay, OnlyCaller
  <1>Looks. ASSUME NEW k \in Callers, Looks(k)
           PROVE  MarkersMove
    <2>1. /\ OnlyCaller(k) /\ caller[k].pc \notin {"mark", "marked"}
          /\ caller'[k].pc # "marked"
      BY <1>Looks, LooksSteps DEF LooksEffect, GoesOnAlike, GoesOn, Left, At, Idle
    <2> QED
      BY <2>1 DEF MarkersMove, MarkersStay, OnlyCaller
  <1>Reserve. ASSUME NEW k \in Callers, Reserve(k)
             PROVE  MarkersMove
    <2>1. /\ OnlyCaller(k) /\ caller[k].pc \notin {"mark", "marked"}
          /\ caller'[k].pc # "marked"
      BY <1>Reserve, ReserveSteps DEF ReserveEffect, GoesOnAlike, GoesOn, Left, At, Idle
    <2> QED
      BY <2>1 DEF MarkersMove, MarkersStay, OnlyCaller
  <1>Evict. ASSUME NEW k \in Callers, Evict(k)
           PROVE  MarkersMove
    <2>1. /\ OnlyCaller(k) /\ caller[k].pc \notin {"mark", "marked"}
          /\ caller'[k].pc # "marked"
      BY <1>Evict, EvictSteps
      DEF EvictEffect, GoesOnAlike, GoesOn, At
    <2> QED
      BY <2>1 DEF MarkersMove, MarkersStay, OnlyCaller
  <1>Evicted. ASSUME NEW k \in Callers, Evicted(k)
             PROVE  MarkersMove
    <2>1. /\ OnlyCaller(k) /\ caller[k].pc \notin {"mark", "marked"}
          /\ caller'[k].pc # "marked"
      BY <1>Evicted, EvictedSteps
      DEF EvictedEffect, GoesOnAlike, GoesOn, At
    <2> QED
      BY <2>1 DEF MarkersMove, MarkersStay, OnlyCaller
  <1>Publish. ASSUME NEW k \in Callers, Publish(k)
             PROVE  MarkersMove
    BY <1>Publish DEF MarkersMove
  <1>MarksLive. ASSUME NEW k \in Callers, MarksLive(k)
               PROVE  MarkersMove
    BY <1>MarksLive DEF MarkersMove
  <1>BroughtUp. ASSUME NEW k \in Callers, BroughtUp(k)
               PROVE  MarkersMove
    BY <1>BroughtUp DEF MarkersMove
  <1>Say. ASSUME NEW k \in Callers, Say(k)
         PROVE  MarkersMove
    <2>1. Left(k) /\ At(k, "say")
      BY <1>Say, SaySteps DEF SayEffect
    <2>2. Idle.pc = "idle"
      BY DEF Idle
    <2> QED
      BY <2>1, <2>2 DEF MarkersMove, MarkersStay, OnlyCaller, Left, At
  <1>Ask. ASSUME NEW k \in Callers, NEW t \in Threads, NEW l \in Lines,
                 NEW c \in BOOLEAN, Ask(k, t, l, c)
         PROVE  MarkersMove
    <2>1. /\ OnlyCaller(k) /\ caller[k].pc \notin {"mark", "marked"}
          /\ caller'[k].pc # "marked"
      BY <1>Ask, AskSteps DEF AskEffect, Begun, At
    <2> QED
      BY <2>1 DEF MarkersMove, MarkersStay, OnlyCaller
  <1>Open. ASSUME NEW k \in Callers, NEW t \in Threads, NEW l \in Lines, Open(k, t, l)
          PROVE  MarkersMove
    <2>1. /\ OnlyCaller(k) /\ caller[k].pc \notin {"mark", "marked"}
          /\ caller'[k].pc # "marked"
      BY <1>Open, OpenSteps DEF OpenEffect, Begun, At
    <2> QED
      BY <2>1 DEF MarkersMove, MarkersStay, OnlyCaller
  <1> QED
    BY MarkersMoves, <1>Rest, <1>Reopen, <1>Admitted, <1>Looks, <1>Reserve,
       <1>Evict, <1>Evicted,
       <1>Publish, <1>MarksLive, <1>BroughtUp, <1>Say, <1>Ask, <1>Open

LEMMA LiveMoves ==
  ASSUME Types, Known, MapAgrees, Next
  PROVE  \/ LiveSame
         \/ \E s \in Sides : Leave(s)
         \/ \E k \in Callers : Publish(k)
  BY LetGoFrame, WriteEndFrame, MarkedFrame, BuiltFrame, LooksUpFrame,
     TakesFirstFrame, StartFailsFrame, DropFrame, BeginFrame, EndTurnFrame,
     StopsFrame, NextLineFrame, RestsFrame, ReopenFrame, AdmittedFrame,
     LooksFrame, ReserveFrame, EvictFrame, EvictedFrame, MarksLiveFrame,
     BroughtUpFrame, SayFrame, ArchiveOwedFrame, DropsFrame, AskFrame,
     OpenFrame, ParkFrame, ArchiveFrame, MarkFrame, StopFrame,
     InvalidateFrame, ReattachFrame
  DEF Next, Owed, AgentSteps, Going, Start, RunQueue, Call

LEMMA LiveShrinks ==
  ASSUME Types, Known, MapAgrees, Next, ~\E k \in Callers : Publish(k)
  PROVE  \A t \in Threads : live'[t] # Nothing => live'[t] = live[t]
  <1>0. live \in [Threads -> Sides \cup {Nothing}]
    BY Whom DEF Settled, RoomTypes
  <1>1. ASSUME NEW s \in Sides, Leave(s)
        PROVE  \A t \in Threads : live'[t] # Nothing => live'[t] = live[t]
    BY <1>0, <1>1, LeaveSteps DEF LeaveEffect
  <1> QED
    BY <1>1, LiveMoves DEF LiveSame

LEMMA LinkOfLiveKept ==
  ASSUME Types, Known, MapAgrees, LinkAgrees, Next
  PROVE  LinkOfLive'
  <1>0. /\ Made \subseteq Sides /\ made \in Nat /\ LinkAgrees /\ CallersAgree
        /\ live \in [Threads -> Sides \cup {Nothing}]
    BY Whom DEF Settled, RoomTypes, Known
  <1>1. ASSUME NEW t \in Threads, live'[t] = live[t], live[t] # Nothing,
               side'[live[t]].phase = "open", link[t] = "live"
        PROVE  link'[t] = "live"
    <2>1. live[t] \in Made /\ side[live[t]].thread = t
      BY <1>1 DEF MapAgrees
    <2> QED
      BY <1>1, <2>1, LinkKeepsKept DEF LinkKeeps
  <1>2. ASSUME NEW t \in Threads, live'[t] = live[t], live[t] # Nothing,
               side'[live[t]].phase = "open", ~Brought(t)
        PROVE  link'[t] = "live"
    <2>1. live[t] \in Made
      BY <1>2 DEF MapAgrees
    <2>2. side[live[t]].phase = "open"
      BY <1>2, <2>1, Onward
    <2>3. link[t] = "live"
      BY <1>0, <1>2, <2>2 DEF LinkAgrees, LinkOfLive
    <2> QED
      BY <1>1, <1>2, <2>3
  <1>3. CASE \E k \in Callers : Publish(k)
    <2>1. PICK k \in Callers : Publish(k)
      BY <1>3
    <2>2. CASE UNCHANGED <<live, side, made>>
      <3>1. At(k, "publish") /\ Left(k)
        <4>1. made' # made + 1
          BY <1>0, <2>2
        <4>2. PublishEffect(k)
          BY <2>1, PublishSteps
        <4> QED
          BY <4>1, <4>2 DEF PublishEffect
      <3>2. \A t \in Threads : live[t] # Nothing => (Brought(t) <=> Brought(t)')
        <4>1. Idle.pc = "idle"
          BY DEF Idle
        <4> QED
          BY <2>2, <3>1, <4>1 DEF Brought, Left, OnlyCaller, At
      <3> QED
        BY <1>2, <2>2, <3>2 DEF LinkOfLive
    <2>3. CASE ~UNCHANGED <<live, side, made>>
      <3>0. PICK u \in Threads : u = caller[k].thread
        BY <2>1, PublishSteps
      <3>1. /\ made' = made + 1 /\ made' \in Sides /\ Only(made')
            /\ live' = [live EXCEPT ![u] = made']
            /\ GoesOn(k, "mark") /\ caller'[k].side = made'
            /\ At(k, "publish")
        BY <2>1, <2>3, <3>0, PublishSteps DEF PublishEffect
      <3>2. Brought(u)'
        BY <1>0, <3>1 DEF Brought, GoesOn
      <3>3. ASSUME NEW t \in Threads, t # u, live'[t] # Nothing,
                   side'[live'[t]].phase = "open", ~(Brought(t)')
            PROVE  link'[t] = "live"
        <4>1. live'[t] = live[t]
          BY <1>0, <3>1, <3>3
        <4>2. ~Brought(t)
          BY <1>0, <3>1, <3>3, <4>1 DEF Brought, GoesOn, OnlyCaller, At
        <4> QED
          BY <1>2, <3>3, <4>1, <4>2
      <3> QED
        BY <3>2, <3>3 DEF LinkOfLive
    <2> QED
      BY <2>2, <2>3
  <1>4. CASE MarkersStay /\ ~\E k \in Callers : Publish(k)
    <2>1. ASSUME NEW t \in Threads, live'[t] # Nothing, ~(Brought(t)')
          PROVE  live'[t] = live[t] /\ ~Brought(t)
      <3>1. live'[t] = live[t]
        BY <1>4, <2>1, LiveShrinks
      <3> QED
        BY <1>4, <2>1, <3>1 DEF Brought, MarkersStay
    <2> QED
      BY <1>2, <2>1 DEF LinkOfLive
  <1>5. ASSUME NEW k \in Callers, MarksLive(k)
        PROVE  LinkOfLive'
    <2>1. /\ LiveSame /\ GoesOnAlike(k, "marked")
      BY <1>5, MarksLiveSteps, MarksLiveFrame DEF MarksLiveEffect
    <2>2. \A t \in Threads : Brought(t) => Brought(t)'
      BY <2>1 DEF Brought, GoesOnAlike, GoesOn, OnlyCaller, LiveSame
    <2> QED
      BY <1>2, <2>1, <2>2 DEF LinkOfLive, LiveSame
  <1>6. ASSUME NEW k \in Callers, BroughtUp(k)
        PROVE  LinkOfLive'
    <2>1. /\ LiveSame /\ GoesOnAlike(k, "say") /\ At(k, "marked")
          /\ side[caller[k].side].marking = FALSE /\ LinkSame /\ EndsSame
          /\ caller[k].side \in Made
      BY <1>6, BroughtUpSteps, BroughtUpFrame DEF BroughtUpEffect
    <2>2. ASSUME NEW t \in Threads, live'[t] # Nothing, ~(Brought(t)'),
                 side'[live'[t]].phase = "open"
          PROVE  link'[t] = "live"
      <3>1. live'[t] = live[t] /\ live[t] \in Made /\ side[live[t]].thread = t
        BY <2>1, <2>2 DEF LiveSame, MapAgrees
      <3>2. CASE caller[k].side = live[t]
        <4>1. side[live[t]].phase = "open"
          BY <1>0, <2>1, <2>2, <3>1 DEF EndsSame, EndsStay
        <4> QED
          BY <1>0, <2>1, <3>1, <3>2, <4>1 DEF LinkAgrees, MarkedLinks, LinkSame
      <3>3. CASE caller[k].side # live[t]
        <4>1. ~Brought(t)
          BY <2>1, <2>2, <3>1, <3>3 DEF Brought, GoesOnAlike, GoesOn, OnlyCaller
        <4> QED
          BY <1>2, <2>2, <3>1, <4>1
      <3> QED
        BY <3>2, <3>3
    <2> QED
      BY <2>2 DEF LinkOfLive
  <1> QED
    BY MarkersKept, <1>3, <1>4, <1>5, <1>6 DEF MarkersMove

LEMMA MarkedLinksKept ==
  ASSUME Types, Known, MapAgrees, LinkAgrees, Next
  PROVE  MarkedLinks'
  <1>0. Made \subseteq Sides /\ CallersAgree /\ MarkedLinks
    BY Whom DEF Settled, Known, LinkAgrees
  <1>1. ASSUME NEW j \in Callers, caller[j].pc = "marked",
               caller'[j].side = caller[j].side,
               side'[caller[j].side].phase = "open"
        PROVE  \/ side'[caller[j].side].marking = TRUE
               \/ link'[side'[caller[j].side].thread] = "live"
    <2> DEFINE s == caller[j].side
    <2>1. s \in Made
      BY <1>0, <1>1 DEF CallersAgree
    <2>2. side[s].phase = "open" /\ side'[s].thread = side[s].thread
      BY <1>1, <2>1, Onward
    <2>3. side[s].marking = TRUE \/ link[side[s].thread] = "live"
      BY <1>0, <1>1, <2>2 DEF MarkedLinks, At
    <2> HIDE DEF s
    <2>4. \/ side'[s].marking = TRUE
          \/ link'[side'[s].thread] = "live"
      <3>1. side'[s].phase = "open"
        BY <1>1 DEF s
      <3> QED
        BY <2>1, <2>2, <2>3, <3>1, LinkKeepsKept DEF LinkKeeps
    <2> QED
      BY <2>4 DEF s
  <1>2. CASE MarkersStay
    BY <1>1, <1>2 DEF MarkersStay, MarkedLinks, At
  <1>3. ASSUME NEW k \in Callers, BroughtUp(k) \/ Publish(k)
        PROVE  MarkedLinks'
    <2>1. OnlyCaller(k) /\ caller'[k].pc # "marked"
      <3>1. Idle.pc = "idle"
        BY DEF Idle
      <3> QED
        BY <1>3, <3>1, BroughtUpSteps, PublishSteps
        DEF BroughtUpEffect, PublishEffect, GoesOnAlike, GoesOn, Left
    <2> QED
      BY <1>1, <2>1 DEF MarkedLinks, OnlyCaller, At
  <1>4. ASSUME NEW k \in Callers, MarksLive(k)
        PROVE  MarkedLinks'
    <2>1. /\ GoesOnAlike(k, "marked") /\ EndsStay /\ caller[k].side \in Sides
          /\ side[caller[k].side].phase = "open"
               => side'[caller[k].side].marking = TRUE
      BY <1>4, MarksLiveSteps DEF MarksLiveEffect
    <2>2. /\ OnlyCaller(k) /\ caller'[k].side = caller[k].side
          /\ side'[caller[k].side].phase = side[caller[k].side].phase
      BY <2>1 DEF GoesOnAlike, GoesOn, EndsStay
    <2>3. ASSUME NEW j \in Callers, At(j, "marked")',
                 side'[caller'[j].side].phase = "open"
          PROVE  \/ side'[caller'[j].side].marking = TRUE
                 \/ link'[side'[caller'[j].side].thread] = "live"
      <3>1. CASE j = k
        BY <2>1, <2>2, <2>3, <3>1
      <3>2. CASE j # k
        BY <1>1, <2>2, <2>3, <3>2 DEF OnlyCaller, At
      <3> QED
        BY <3>1, <3>2
    <2> QED
      BY <2>3 DEF MarkedLinks
  <1> QED
    BY MarkersKept, <1>2, <1>3, <1>4 DEF MarkersMove

LEMMA LinkAgreesKept ==
  ASSUME Types, Known, MapAgrees, LinkAgrees, Next
  PROVE  LinkAgrees'
  BY LinkOfNoneKept, LinkOfLiveKept, LinkWrittenKept, LateMarksKept,
     MarkedLinksKept DEF LinkAgrees
-----------------------------------------------------------------------------
(* Every step keeps Leases: an epoch only grows, and a revocation ends     *)
(* what holds a lease before it is over.                                   *)
LEMMA SceneStays ==
  ASSUME Types, Known, MapAgrees, Next
  PROVE  UNCHANGED scene
  BY LetGoFrame, WriteEndFrame, LeaveFrame, MarkedFrame, BuiltFrame,
     LooksUpFrame, TakesFirstFrame, StartFailsFrame, DropFrame, BeginFrame,
     EndTurnFrame, StopsFrame, NextLineFrame, RestsFrame, ReopenFrame,
     AdmittedFrame, LooksFrame, ReserveFrame, EvictFrame, EvictedFrame,
     PublishFrame, MarksLiveFrame, BroughtUpFrame, SayFrame,
     ArchiveOwedFrame, DropsFrame, AskFrame, OpenFrame, ParkFrame,
     ArchiveFrame, MarkFrame, StopFrame, InvalidateFrame, ReattachFrame
  DEF Next, Owed, AgentSteps, Going, Start, RunQueue, Call

LEMMA EpochMoves ==
  ASSUME Types, Known, MapAgrees, Next
  PROVE  \/ EpochSame
         \/ \E s \in Sides : Drop(s)
         \/ Drops
         \/ Invalidate
         \/ Reattach
  BY LetGoFrame, WriteEndFrame, LeaveFrame, MarkedFrame, BuiltFrame,
     LooksUpFrame, TakesFirstFrame, StartFailsFrame, BeginFrame,
     EndTurnFrame, StopsFrame, NextLineFrame, RestsFrame, ReopenFrame,
     AdmittedFrame, LooksFrame, ReserveFrame, EvictFrame, EvictedFrame,
     PublishFrame, MarksLiveFrame, BroughtUpFrame, SayFrame,
     ArchiveOwedFrame, AskFrame, OpenFrame, ParkFrame, ArchiveFrame,
     MarkFrame, StopFrame
  DEF Next, Owed, AgentSteps, Going, Start, RunQueue, Call

LEMMA EpochGrows ==
  ASSUME Types, Known, MapAgrees, Next
  PROVE  epoch \in Nat /\ epoch' \in Nat /\ epoch <= epoch'
  <1>0. epoch \in Nat
    BY Whom DEF Settled, RoomTypes
  <1>1. epoch' = epoch \/ epoch' = epoch + 1
    BY EpochMoves, DropSteps, DropsDoes, InvalidateDoes, ReattachDoes
    DEF EpochSame, DropEffect, DropsEffect, InvalidateEffect, ReattachEffect
  <1> QED
    BY <1>0, <1>1

LEMMA MadeBefore ==
  ASSUME Types, Known, MapAgrees, Next
  PROVE  \A q \in Made' : \/ q \in Made
                          \/ \E k \in Callers : Publish(k) /\ q = made'
                                                /\ made' # made
  <1>1. CASE ThreadsSame
    BY <1>1 DEF ThreadsSame, Made
  <1>2. ASSUME NEW k \in Callers, Publish(k)
        PROVE  \A q \in Made' : q \in Made \/ (q = made' /\ made' # made)
    BY <1>2, PublishMakes
  <1> QED
    BY <1>1, <1>2, ThreadsMoves

LEMMA SideLeasesKept ==
  ASSUME Types, Known, MapAgrees, Leases, Next
  PROVE  (\A s \in Made : SideLease(s))'
  <1>0. \A q \in Made : SideLease(q) /\ side[q].lease \in Int
    BY Whom DEF Leases, Settled, SideTypes, LiveSides
  <1>1. ASSUME NEW q \in Made
        PROVE  SideLease(q)'
    <2>1. epoch \in Nat /\ epoch' \in Nat /\ epoch <= epoch'
      BY EpochGrows
    <2>2. CASE side'[q].lease = side[q].lease
      <3>1. side'[q].phase = "open" => side[q].phase = "open"
        BY Onward
      <3>2. side'[q].lease <= epoch'
        BY <1>0, <2>1, <2>2 DEF SideLease
      <3> QED
        BY <1>0, <2>2, <3>1, <3>2 DEF SideLease
    <2>3. CASE side'[q].lease = -1 /\ side'[q].phase # "open"
      BY <2>1, <2>3 DEF SideLease
    <2> QED
      BY <2>2, <2>3, Onward
  <1>3. ASSUME NEW q \in Made'
        PROVE  SideLease(q)'
    <2>1. CASE q \in Made
      BY <1>1, <2>1
    <2>2. CASE q \notin Made
      <3>1. PICK k \in Callers : Publish(k) /\ q = made' /\ made' # made
        BY <2>2, MadeBefore
      <3>2. /\ Valid(caller[k].lease) /\ side'[q].lease = caller[k].lease
        BY <3>1, PublishSteps DEF PublishEffect
      <3>3. UNCHANGED epoch
        BY <3>1, PublishFrame DEF EpochSame
      <3>4. epoch \in Nat
        BY EpochGrows
      <3> QED
        BY <3>2, <3>3, <3>4 DEF SideLease, Valid, Even
    <2> QED
      BY <2>1, <2>2
  <1> QED
    BY <1>3

LEMMA CallerLeaseStays ==
  ASSUME Types, Known, MapAgrees, Next, NEW j \in Callers, CallerLease(j),
         caller'[j] = caller[j]
  PROVE  CallerLease(j)'
  <1>1. epoch \in Nat /\ epoch' \in Nat /\ epoch <= epoch'
    BY EpochGrows
  <1>2. caller[j].lease \in Int
    BY Whom DEF Settled, CallerTypes, Tasks
  <1> QED
    BY <1>1, <1>2 DEF CallerLease, Starts

LEMMA CallerLeaseLeft ==
  ASSUME epoch' \in Nat, NEW k \in Callers, caller'[k] = Idle
  PROVE  CallerLease(k)'
  <1>1. Idle.lease = -1 /\ Idle.pc = "idle"
    BY DEF Idle
  <1> QED
    BY <1>1 DEF CallerLease, Starts

(* One that goes on with the lease it has, or takes one that is standing.  *)
LEMMA CallerLeaseGoes ==
  ASSUME CallerTypes, epoch \in Nat, UNCHANGED epoch, NEW k \in Callers,
         CallerLease(k),
         \/ /\ caller'[k].lease = caller[k].lease
            /\ Starts(k)' => Starts(k)
            /\ caller'[k].pc \in {"knock", "look"} => caller[k].pc \in {"knock", "look"}
         \/ /\ caller'[k].lease = epoch /\ Even(epoch)
            /\ caller'[k].pc \notin {"knock", "look"}
         \/ caller'[k].lease = -1 /\ ~(Starts(k)')
  PROVE  CallerLease(k)'
  <1>1. caller[k].lease \in Int
    BY DEF CallerTypes, Tasks
  <1> QED
    BY <1>1 DEF CallerLease

LEMMA CallerLeasesMoves ==
  ASSUME Types, Known, MapAgrees, Next
  PROVE  \/ CallersSame
         \/ \E k \in Callers : Reopen(k)
         \/ \E k \in Callers : Admitted(k)
         \/ \E k \in Callers : Looks(k)
         \/ \E k \in Callers : Reserve(k)
         \/ \E k \in Callers : Evict(k)
         \/ \E k \in Callers : Evicted(k)
         \/ \E k \in Callers : Publish(k)
         \/ \E k \in Callers : MarksLive(k)
         \/ \E k \in Callers : BroughtUp(k)
         \/ \E k \in Callers : Say(k)
         \/ \E k \in Callers, t \in Threads, l \in Lines, c \in BOOLEAN : Ask(k, t, l, c)
         \/ \E k \in Callers, t \in Threads, l \in Lines : Open(k, t, l)
  BY LetGoFrame, WriteEndFrame, LeaveFrame, MarkedFrame, BuiltFrame,
     LooksUpFrame, TakesFirstFrame, StartFailsFrame, DropFrame, BeginFrame,
     EndTurnFrame, StopsFrame, NextLineFrame, RestsFrame, ArchiveOwedFrame,
     DropsFrame, ParkFrame, ArchiveFrame, MarkFrame, StopFrame,
     InvalidateFrame, ReattachFrame
  DEF Next, Owed, AgentSteps, Going, Start, RunQueue, Call

LEMMA CallerLeasesKept ==
  ASSUME Types, Known, MapAgrees, Leases, Next
  PROVE  (\A j \in Callers : CallerLease(j))'
  <1>0. /\ \A j \in Callers : CallerLease(j)
        /\ epoch \in Nat /\ epoch' \in Nat /\ CallerTypes
    BY EpochGrows, Whom DEF Leases, Settled
  <1>k. ASSUME NEW k \in Callers, OnlyCaller(k), CallerLease(k)'
         PROVE  (\A j \in Callers : CallerLease(j))'
    <2>1. ASSUME NEW j \in Callers
          PROVE  CallerLease(j)'
      <3>1. CASE j = k
        BY <1>k, <3>1
      <3>2. CASE j # k
        BY <1>0, <1>k, <3>2, CallerLeaseStays DEF OnlyCaller
      <3> QED
        BY <3>1, <3>2
    <2> QED
      BY <2>1
  <1>Rest. CASE CallersSame
    BY <1>0, <1>Rest, CallerLeaseStays DEF CallersSame
  <1>Reopen. ASSUME NEW k \in Callers, Reopen(k)
            PROVE  (\A j \in Callers : CallerLease(j))'
    <2>1. /\ OnlyCaller(k) /\ UNCHANGED epoch
          /\ /\ caller'[k].lease = -1 /\ ~(Starts(k)')
      BY <1>0, <1>Reopen, ReopenSteps, ReopenFrame
      DEF ReopenEffect, Begun, At, Starts, EpochSame
    <2>2. CallerLease(k)'
      BY <1>0, <2>1, CallerLeaseGoes
    <2> QED
      BY <1>k, <2>1, <2>2
  <1>Admitted. ASSUME NEW k \in Callers, Admitted(k)
              PROVE  (\A j \in Callers : CallerLease(j))'
    <2>1. /\ OnlyCaller(k) /\ UNCHANGED epoch
          /\ /\ caller'[k].lease = caller[k].lease
             /\ Starts(k)' => Starts(k)
             /\ caller'[k].pc \in {"knock", "look"}
                  => caller[k].pc \in {"knock", "look"}
      BY <1>0, <1>Admitted, AdmittedSteps, AdmittedFrame
      DEF AdmittedEffect, GoesOnAlike, GoesOn, At, Starts, EpochSame
    <2>2. CallerLease(k)'
      BY <1>0, <2>1, CallerLeaseGoes
    <2> QED
      BY <1>k, <2>1, <2>2
  <1>Looks. ASSUME NEW k \in Callers, Looks(k)
           PROVE  (\A j \in Callers : CallerLease(j))'
    <2>1. OnlyCaller(k) /\ UNCHANGED epoch
      BY <1>Looks, LooksSteps, LooksFrame
      DEF LooksEffect, GoesOnAlike, GoesOn, Left, EpochSame
    <2>2. CASE Left(k)
      BY <1>0, <1>k, <2>1, <2>2, CallerLeaseLeft DEF Left
    <2>3. CASE ~Left(k)
      <3>1. \/ /\ caller'[k].lease = caller[k].lease
               /\ Starts(k)' => Starts(k)
               /\ caller'[k].pc \in {"knock", "look"}
                    => caller[k].pc \in {"knock", "look"}
            \/ /\ caller'[k].lease = epoch /\ Even(epoch)
               /\ caller'[k].pc \notin {"knock", "look"}
        BY <1>Looks, LooksSteps, <2>3
        DEF LooksEffect, GoesOnAlike, GoesOn, At, Starts, Valid, Even
      <3>2. CallerLease(k)'
        BY <1>0, <2>1, <3>1, CallerLeaseGoes
      <3> QED
        BY <1>k, <2>1, <3>2
    <2> QED
      BY <2>2, <2>3
  <1>Reserve. ASSUME NEW k \in Callers, Reserve(k)
             PROVE  (\A j \in Callers : CallerLease(j))'
    <2>1. OnlyCaller(k) /\ UNCHANGED epoch
      BY <1>Reserve, ReserveSteps, ReserveFrame
      DEF ReserveEffect, GoesOnAlike, GoesOn, Left, EpochSame
    <2>2. CASE Left(k)
      BY <1>0, <1>k, <2>1, <2>2, CallerLeaseLeft DEF Left
    <2>3. CASE ~Left(k)
      <3>1. \/ /\ caller'[k].lease = caller[k].lease
               /\ Starts(k)' => Starts(k)
               /\ caller'[k].pc \in {"knock", "look"}
                    => caller[k].pc \in {"knock", "look"}
            \/ /\ caller'[k].lease = epoch /\ Even(epoch)
               /\ caller'[k].pc \notin {"knock", "look"}
        BY <1>Reserve, ReserveSteps, <2>3
        DEF ReserveEffect, GoesOnAlike, GoesOn, At, Starts, Valid, Even
      <3>2. CallerLease(k)'
        BY <1>0, <2>1, <3>1, CallerLeaseGoes
      <3> QED
        BY <1>k, <2>1, <3>2
    <2> QED
      BY <2>2, <2>3
  <1>Evict. ASSUME NEW k \in Callers, Evict(k)
           PROVE  (\A j \in Callers : CallerLease(j))'
    <2>1. /\ OnlyCaller(k) /\ UNCHANGED epoch
          /\ /\ caller'[k].lease = caller[k].lease
             /\ Starts(k)' => Starts(k)
             /\ caller'[k].pc \in {"knock", "look"}
                  => caller[k].pc \in {"knock", "look"}
      BY <1>0, <1>Evict, EvictSteps, EvictFrame
      DEF EvictEffect, GoesOnAlike, GoesOn, At, Starts, EpochSame
    <2>2. CallerLease(k)'
      BY <1>0, <2>1, CallerLeaseGoes
    <2> QED
      BY <1>k, <2>1, <2>2
  <1>Evicted. ASSUME NEW k \in Callers, Evicted(k)
             PROVE  (\A j \in Callers : CallerLease(j))'
    <2>1. /\ OnlyCaller(k) /\ UNCHANGED epoch
          /\ /\ caller'[k].lease = caller[k].lease
             /\ Starts(k)' => Starts(k)
             /\ caller'[k].pc \in {"knock", "look"}
                  => caller[k].pc \in {"knock", "look"}
      BY <1>0, <1>Evicted, EvictedSteps, EvictedFrame
      DEF EvictedEffect, GoesOnAlike, GoesOn, At, Starts, EpochSame
    <2>2. CallerLease(k)'
      BY <1>0, <2>1, CallerLeaseGoes
    <2> QED
      BY <1>k, <2>1, <2>2
  <1>Publish. ASSUME NEW k \in Callers, Publish(k)
             PROVE  (\A j \in Callers : CallerLease(j))'
    <2>1. OnlyCaller(k) /\ UNCHANGED epoch
      BY <1>Publish, PublishSteps, PublishFrame
      DEF PublishEffect, GoesOnAlike, GoesOn, Left, EpochSame
    <2>2. CASE Left(k)
      BY <1>0, <1>k, <2>1, <2>2, CallerLeaseLeft DEF Left
    <2>3. CASE ~Left(k)
      <3>1. \/ /\ caller'[k].lease = caller[k].lease
               /\ Starts(k)' => Starts(k)
               /\ caller'[k].pc \in {"knock", "look"}
                    => caller[k].pc \in {"knock", "look"}
            \/ /\ caller'[k].lease = epoch /\ Even(epoch)
               /\ caller'[k].pc \notin {"knock", "look"}
        BY <1>Publish, PublishSteps, <2>3
        DEF PublishEffect, GoesOnAlike, GoesOn, At, Starts, Valid, Even
      <3>2. CallerLease(k)'
        BY <1>0, <2>1, <3>1, CallerLeaseGoes
      <3> QED
        BY <1>k, <2>1, <3>2
    <2> QED
      BY <2>2, <2>3
  <1>MarksLive. ASSUME NEW k \in Callers, MarksLive(k)
               PROVE  (\A j \in Callers : CallerLease(j))'
    <2>1. /\ OnlyCaller(k) /\ UNCHANGED epoch
          /\ /\ caller'[k].lease = caller[k].lease
             /\ Starts(k)' => Starts(k)
             /\ caller'[k].pc \in {"knock", "look"}
                  => caller[k].pc \in {"knock", "look"}
      BY <1>0, <1>MarksLive, MarksLiveSteps, MarksLiveFrame
      DEF MarksLiveEffect, GoesOnAlike, GoesOn, At, Starts, EpochSame
    <2>2. CallerLease(k)'
      BY <1>0, <2>1, CallerLeaseGoes
    <2> QED
      BY <1>k, <2>1, <2>2
  <1>BroughtUp. ASSUME NEW k \in Callers, BroughtUp(k)
               PROVE  (\A j \in Callers : CallerLease(j))'
    <2>1. /\ OnlyCaller(k) /\ UNCHANGED epoch
          /\ /\ caller'[k].lease = caller[k].lease
             /\ Starts(k)' => Starts(k)
             /\ caller'[k].pc \in {"knock", "look"}
                  => caller[k].pc \in {"knock", "look"}
      BY <1>0, <1>BroughtUp, BroughtUpSteps, BroughtUpFrame
      DEF BroughtUpEffect, GoesOnAlike, GoesOn, At, Starts, EpochSame
    <2>2. CallerLease(k)'
      BY <1>0, <2>1, CallerLeaseGoes
    <2> QED
      BY <1>k, <2>1, <2>2
  <1>Say. ASSUME NEW k \in Callers, Say(k)
         PROVE  (\A j \in Callers : CallerLease(j))'
    <2>1. Left(k)
      BY <1>Say, SaySteps DEF SayEffect
    <2> QED
      BY <1>0, <1>k, <2>1, CallerLeaseLeft DEF Left
  <1>Ask. ASSUME NEW k \in Callers, NEW t \in Threads, NEW l \in Lines,
                 NEW c \in BOOLEAN, Ask(k, t, l, c)
         PROVE  (\A j \in Callers : CallerLease(j))'
    <2>1. /\ OnlyCaller(k) /\ UNCHANGED epoch
          /\ /\ caller'[k].lease = -1 /\ ~(Starts(k)')
      BY <1>0, <1>Ask, AskSteps, AskFrame
      DEF AskEffect, Begun, At, Starts, EpochSame
    <2>2. CallerLease(k)'
      BY <1>0, <2>1, CallerLeaseGoes
    <2> QED
      BY <1>k, <2>1, <2>2
  <1>Open. ASSUME NEW k \in Callers, NEW t \in Threads, NEW l \in Lines, Open(k, t, l)
          PROVE  (\A j \in Callers : CallerLease(j))'
    <2>1. /\ OnlyCaller(k) /\ UNCHANGED epoch
          /\ /\ caller'[k].lease = epoch /\ Even(epoch)
             /\ caller'[k].pc \notin {"knock", "look"}
      BY <1>0, <1>Open, OpenSteps, OpenFrame
      DEF OpenEffect, Begun, Valid, Even, EpochSame
    <2>2. CallerLease(k)'
      BY <1>0, <2>1, CallerLeaseGoes
    <2> QED
      BY <1>k, <2>1, <2>2
  <1> QED
    BY CallerLeasesMoves, <1>Rest, <1>Reopen, <1>Admitted, <1>Looks,
       <1>Reserve, <1>Evict, <1>Evicted,
       <1>Publish, <1>MarksLive, <1>BroughtUp, <1>Say, <1>Ask, <1>Open

LEMMA RevokedIsEndedKept ==
  ASSUME Types, Known, MapAgrees, Leases, Next
  PROVE  RevokedIsEnded'
  <1>0. /\ RevokedIsEnded /\ Made \subseteq Sides /\ made \in Nat
        /\ live \in [Threads -> Sides \cup {Nothing}]
        /\ \A q \in Made : SideLease(q)
        /\ epoch \in Nat /\ revoking \in BOOLEAN
    BY Whom DEF Settled, RoomTypes, Leases
  <1> DEFINE Stands(t) == \/ side[live[t]].lease = epoch
                          \/ revoking \/ live[t] \in dropping
  <1>1. ASSUME NEW t \in Threads, live'[t] # Nothing, live'[t] = live[t],
               side'[live'[t]].phase = "open"
        PROVE  /\ live[t] \in Made /\ side[live[t]].phase = "open"
               /\ side'[live[t]].lease = side[live[t]].lease
               /\ Stands(t)
    <2>1. live[t] \in Made
      BY <1>1 DEF MapAgrees
    <2>2. /\ side[live[t]].phase = "open"
          /\ side'[live[t]].lease = side[live[t]].lease
      BY <1>1, <2>1, Onward
    <2> QED
      BY <1>0, <1>1, <2>1, <2>2 DEF RevokedIsEnded, Held
  <1>2. ASSUME NEW k \in Callers, Publish(k)
        PROVE  RevokedIsEnded'
    <2>1. EpochSame
      BY <1>2, PublishFrame
    <2>2. ASSUME NEW t \in Threads, live'[t] # Nothing, live'[t] # live[t]
          PROVE  side'[live'[t]].lease = epoch
      <3>1. CASE UNCHANGED live
        BY <2>2, <3>1
      <3>2. CASE ~UNCHANGED live
        <4>1. /\ live' = [live EXCEPT ![caller[k].thread] = made']
              /\ side'[made'].lease = caller[k].lease
              /\ Valid(caller[k].lease)
          BY <1>2, <3>2, PublishSteps DEF PublishEffect
        <4>2. live'[t] = made'
          BY <1>0, <2>2, <4>1
        <4> QED
          BY <4>1, <4>2 DEF Valid
      <3> QED
        BY <3>1, <3>2
    <2> QED
      BY <1>1, <2>1, <2>2 DEF RevokedIsEnded, Held, EpochSame
  <1>3. ASSUME ~\E k \in Callers : Publish(k)
        PROVE  \A t \in Threads : live'[t] # Nothing => live'[t] = live[t]
    BY <1>3, LiveShrinks
  <1>4. CASE EpochSame /\ ~\E k \in Callers : Publish(k)
    BY <1>1, <1>3, <1>4 DEF RevokedIsEnded, Held, EpochSame
  <1>5. ASSUME NEW s \in Sides, Drop(s)
        PROVE  RevokedIsEnded'
    <2>1. /\ LiveSame /\ UNCHANGED <<epoch, revoking>>
          /\ dropping' = dropping \ {s} /\ CloseStep(s)
      BY <1>5, DropSteps, DropFrame DEF DropEffect
    <2>2. side'[s].phase # "open"
      BY <2>1 DEF CloseStep, ClaimStep, EndedStep
    <2> QED
      BY <1>1, <2>1, <2>2 DEF RevokedIsEnded, Held, LiveSame
  <1>6. CASE Drops
    <2>1. /\ LiveSame
          /\ \A t \in Threads : live[t] # Nothing => live[t] \in dropping'
      BY <1>6, DropsDoes, DropsFrame DEF DropsEffect
    <2> QED
      BY <2>1 DEF RevokedIsEnded, Held, LiveSame
  <1>7. CASE Invalidate
    BY <1>7, InvalidateDoes DEF InvalidateEffect, RevokedIsEnded
  <1>8. CASE Reattach
    <2>1. /\ LiveSame /\ epoch % 2 = 1 /\ ~revoking /\ dropping = {}
      BY <1>8, ReattachDoes, ReattachFrame DEF ReattachEffect
    <2>2. ASSUME NEW t \in Threads, live'[t] # Nothing,
                 side'[live'[t]].phase = "open"
          PROVE  FALSE
      <3>1. side[live[t]].lease = epoch /\ Even(side[live[t]].lease)
        BY <1>0, <1>1, <2>1, <2>2 DEF LiveSame, SideLease
      <3> QED
        BY <2>1, <3>1 DEF Even
    <2> QED
      BY <2>2 DEF RevokedIsEnded, Held
  <1> QED
    BY <1>2, <1>4, <1>5, <1>6, <1>7, <1>8, EpochMoves

LEMMA LeasesKept ==
  ASSUME Types, Known, MapAgrees, Leases, Next
  PROVE  Leases'
  <1>1. epoch' <= scene'.epochs
    <2>1. /\ epoch \in Nat /\ epoch <= scene.epochs /\ UNCHANGED scene
          /\ scene.epochs \in Nat
      BY Whom, SceneStays, BoundsAssumption DEF Settled, RoomTypes, Leases
    <2>2. epoch' = epoch \/ (epoch' = epoch + 1 /\ epoch < scene.epochs)
      BY EpochMoves, DropSteps, DropsDoes
      DEF EpochSame, DropEffect, DropsEffect, Invalidate, Reattach
    <2> QED
      BY <2>1, <2>2
  <1> QED
    BY <1>1, SideLeasesKept, CallerLeasesKept, RevokedIsEndedKept DEF Leases

OwnersStay == \A j \in Callers :
                Owns(j)' => Owns(j) /\ caller'[j].side = caller[j].side
OwnersApart == \A k, j \in Callers :
                 Owns(k) /\ Owns(j) /\ caller[k].side = caller[j].side => k = j
OwnersStart == \A k \in Callers : Owns(k) => starter[caller[k].side] = "none"
AgentOf(s) ==
  /\ starter[s] \in {"none", "building"} => side[s].agent = "none"
  /\ side[s].agent = "up" /\ side[s].going \in {"silent", "written", "gone"}
       => starter[s] = "up"
-----------------------------------------------------------------------------
(* Every step keeps Agents: an agent is spawned for one start, and taken   *)
(* down with it.                                                           *)
LEMMA OwnerLeft ==
  ASSUME NEW k \in Callers, Left(k)
  PROVE  OwnersStay
  <1>1. Idle.pc = "idle"
    BY DEF Idle
  <1> QED
    BY <1>1 DEF Left, OnlyCaller, OwnersStay, Owns


LEMMA OwnersMoves ==
  ASSUME Types, Known, MapAgrees, Next
  PROVE  \/ CallersSame
         \/ \E k \in Callers : Reopen(k)
         \/ \E k \in Callers : Admitted(k)
         \/ \E k \in Callers : Looks(k)
         \/ \E k \in Callers : Reserve(k)
         \/ \E k \in Callers : Evict(k)
         \/ \E k \in Callers : Evicted(k)
         \/ \E k \in Callers : Publish(k)
         \/ \E k \in Callers : MarksLive(k)
         \/ \E k \in Callers : BroughtUp(k)
         \/ \E k \in Callers : Say(k)
         \/ \E k \in Callers, t \in Threads, l \in Lines, c \in BOOLEAN : Ask(k, t, l, c)
         \/ \E k \in Callers, t \in Threads, l \in Lines : Open(k, t, l)
  BY LetGoFrame, WriteEndFrame, LeaveFrame, MarkedFrame, BuiltFrame,
     LooksUpFrame, TakesFirstFrame, StartFailsFrame, DropFrame, BeginFrame,
     EndTurnFrame, StopsFrame, NextLineFrame, RestsFrame, ArchiveOwedFrame,
     DropsFrame, ParkFrame, ArchiveFrame, MarkFrame, StopFrame,
     InvalidateFrame, ReattachFrame
  DEF Next, Owed, AgentSteps, Going, Start, RunQueue, Call

LEMMA OwnersKept ==
  ASSUME Types, Known, MapAgrees, Leases, Next
  PROVE  OwnersStay \/ \E j \in Callers : Publish(j)
  <1>Rest. CASE CallersSame
    BY <1>Rest DEF CallersSame, OwnersStay, Owns
  <1>Reopen. ASSUME NEW k \in Callers, Reopen(k)
            PROVE  OwnersStay \/ \E j \in Callers : Publish(j)
    BY <1>Reopen, ReopenSteps
    DEF ReopenEffect, Begun, OnlyCaller, OwnersStay, Owns
  <1>Admitted. ASSUME NEW k \in Callers, Admitted(k)
              PROVE  OwnersStay \/ \E j \in Callers : Publish(j)
    BY <1>Admitted, AdmittedSteps
    DEF AdmittedEffect, GoesOnAlike, GoesOn, OnlyCaller, At, OwnersStay, Owns
  <1>Looks. ASSUME NEW k \in Callers, Looks(k)
           PROVE  OwnersStay \/ \E j \in Callers : Publish(j)
    <2>1. CASE Left(k)
      BY <2>1, OwnerLeft
    <2>2. CASE ~Left(k)
      <3>1. /\ OnlyCaller(k)
            /\ \/ caller'[k].lease = caller[k].lease
               \/ caller'[k].pc = "reserve"
            /\ At(k, "look")
        BY <1>Looks, <2>2, LooksSteps DEF LooksEffect, GoesOn
      <3>2. caller[k].lease = -1
        BY <3>1 DEF Leases, CallerLease, At
      <3> QED
        BY <3>1, <3>2 DEF OnlyCaller, OwnersStay, Owns
    <2> QED
      BY <2>1, <2>2
  <1>Reserve. ASSUME NEW k \in Callers, Reserve(k)
             PROVE  OwnersStay \/ \E j \in Callers : Publish(j)
    <2>1. CASE Left(k)
      BY <2>1, OwnerLeft
    <2>2. CASE ~Left(k)
      BY <1>Reserve, <2>2, ReserveSteps
      DEF ReserveEffect, GoesOnAlike, GoesOn, OnlyCaller, OwnersStay, Owns
    <2> QED
      BY <2>1, <2>2
  <1>Evict. ASSUME NEW k \in Callers, Evict(k)
           PROVE  OwnersStay \/ \E j \in Callers : Publish(j)
    BY <1>Evict, EvictSteps
    DEF EvictEffect, GoesOnAlike, GoesOn, OnlyCaller, At, OwnersStay, Owns
  <1>Evicted. ASSUME NEW k \in Callers, Evicted(k)
             PROVE  OwnersStay \/ \E j \in Callers : Publish(j)
    BY <1>Evicted, EvictedSteps
    DEF EvictedEffect, GoesOnAlike, GoesOn, OnlyCaller, At, OwnersStay, Owns
  <1>Publish. ASSUME NEW k \in Callers, Publish(k)
             PROVE  OwnersStay \/ \E j \in Callers : Publish(j)
    BY <1>Publish
  <1>MarksLive. ASSUME NEW k \in Callers, MarksLive(k)
               PROVE  OwnersStay \/ \E j \in Callers : Publish(j)
    BY <1>MarksLive, MarksLiveSteps
    DEF MarksLiveEffect, GoesOnAlike, GoesOn, OnlyCaller, At, OwnersStay, Owns
  <1>BroughtUp. ASSUME NEW k \in Callers, BroughtUp(k)
               PROVE  OwnersStay \/ \E j \in Callers : Publish(j)
    BY <1>BroughtUp, BroughtUpSteps
    DEF BroughtUpEffect, GoesOnAlike, GoesOn, OnlyCaller, At, OwnersStay, Owns
  <1>Say. ASSUME NEW k \in Callers, Say(k)
         PROVE  OwnersStay \/ \E j \in Callers : Publish(j)
    BY <1>Say, SaySteps, OwnerLeft DEF SayEffect
  <1>Ask. ASSUME NEW k \in Callers, NEW t \in Threads, NEW l \in Lines,
                 NEW c \in BOOLEAN, Ask(k, t, l, c)
         PROVE  OwnersStay \/ \E j \in Callers : Publish(j)
    BY <1>Ask, AskSteps
    DEF AskEffect, Begun, OnlyCaller, OwnersStay, Owns
  <1>Open. ASSUME NEW k \in Callers, NEW t \in Threads, NEW l \in Lines, Open(k, t, l)
          PROVE  OwnersStay \/ \E j \in Callers : Publish(j)
    BY <1>Open, OpenSteps
    DEF OpenEffect, Begun, OnlyCaller, OwnersStay, Owns
  <1> QED
    BY OwnersMoves, <1>Rest, <1>Reopen, <1>Admitted, <1>Looks, <1>Reserve,
       <1>Evict, <1>Evicted,
       <1>Publish, <1>MarksLive, <1>BroughtUp, <1>Say, <1>Ask, <1>Open

(* A start that is published has a side of its own.                        *)
LEMMA OwnerPublished ==
  ASSUME Types, Known, MapAgrees, NEW k \in Callers, Publish(k)
  PROVE  \/ OwnersStay /\ UNCHANGED starter
         \/ /\ made' \in Sides /\ made' \notin Made
            /\ OnlyCaller(k) /\ caller'[k].side = made'
            /\ starter'[made'] = "none" /\ UNCHANGED starter
            /\ \A j \in Callers : j # k /\ Owns(j) => caller[j].side \in Made
            /\ side'[made'].agent = "none"
  <1>1. UNCHANGED starter
    BY PublishSteps DEF PublishEffect
  <1>2. CASE Left(k)
    BY <1>1, <1>2, OwnerLeft
  <1>3. CASE ~Left(k)
    <2>1. /\ made' \in Sides /\ made' = made + 1 /\ GoesOn(k, "mark")
          /\ caller'[k].side = made' /\ side'[made'].agent = "none"
      BY <1>3, PublishSteps DEF PublishEffect
    <2>2. made' \notin Made
      BY <2>1, Whom DEF Settled, Made
    <2>3. starter[made'] = "none"
      BY <2>1, <2>2, Whom
    <2>4. \A j \in Callers : Owns(j) => caller[j].side \in Made
      BY Whom DEF Owns
    <2> QED
      BY <1>1, <2>1, <2>2, <2>3, <2>4 DEF GoesOn
  <1> QED
    BY <1>2, <1>3

LEMMA OwnersApartKept ==
  ASSUME Types, Known, MapAgrees, Leases, OwnersApart, Next
  PROVE  OwnersApart'
  <1>1. CASE OwnersStay
    BY <1>1 DEF OwnersStay, OwnersApart
  <1>2. CASE ~OwnersStay
    <2>1. PICK k \in Callers : Publish(k)
      BY <1>2, OwnersKept
    <2>2. /\ made' \notin Made
          /\ OnlyCaller(k) /\ caller'[k].side = made'
          /\ \A j \in Callers : j # k /\ Owns(j) => caller[j].side \in Made
      BY <1>2, <2>1, OwnerPublished
    <2>3. ASSUME NEW j \in Callers, j # k, Owns(j)'
          PROVE  Owns(j) /\ caller'[j] = caller[j] /\ caller[j].side \in Made
      BY <2>2, <2>3 DEF OnlyCaller, Owns
    <2> QED
      BY <2>2, <2>3 DEF OwnersApart
  <1> QED
    BY <1>1, <1>2


LEMMA StarterMoves ==
  ASSUME Types, Known, MapAgrees, Next
  PROVE  \/ AgentsSame
         \/ \E s \in Sides : LetGo(s)
         \/ \E s \in Sides : Built(s)
         \/ \E s \in Sides : LooksUp(s)
         \/ \E s \in Sides : TakesFirst(s)
         \/ \E s \in Sides : StartFails(s)
         \/ \E k \in Callers : Publish(k)
         \/ \E k \in Callers : Say(k)
  BY WriteEndFrame, LeaveFrame, MarkedFrame, DropFrame, BeginFrame,
     EndTurnFrame, StopsFrame, NextLineFrame, RestsFrame, ReopenFrame,
     AdmittedFrame, LooksFrame, ReserveFrame, EvictFrame, EvictedFrame,
     MarksLiveFrame, BroughtUpFrame, ArchiveOwedFrame, DropsFrame, AskFrame,
     OpenFrame, ParkFrame, ArchiveFrame, MarkFrame, StopFrame,
     InvalidateFrame, ReattachFrame
  DEF Next, Owed, AgentSteps, Going, Start, RunQueue, Call

LEMMA OwnersStartKept ==
  ASSUME Types, Known, MapAgrees, Leases, OwnersApart, OwnersStart, Next
  PROVE  OwnersStart'
  <1>0. \A j \in Callers : Owns(j) => caller[j].side \in Sides
    BY Whom DEF Owns
  <1>1. ASSUME NEW k \in Callers, Publish(k)
        PROVE  OwnersStart'
    <2>1. CASE OwnersStay
      <3>1. UNCHANGED starter
        BY <1>1, PublishSteps DEF PublishEffect
      <3> QED
        BY <2>1, <3>1 DEF OwnersStay, OwnersStart
    <2>2. CASE ~OwnersStay
      <3>1. /\ OnlyCaller(k) /\ caller'[k].side = made'
            /\ starter'[made'] = "none" /\ UNCHANGED starter
        BY <1>1, <2>2, OwnerPublished
      <3> QED
        BY <3>1 DEF OwnersStart, OnlyCaller, Owns
    <2> QED
      BY <2>1, <2>2
  <1>2. ASSUME OwnersStay, NEW s \in Sides, starter[s] # "none",
               \A q \in Sides : q # s => starter'[q] = starter[q]
        PROVE  OwnersStart'
    BY <1>0, <1>2 DEF OwnersStay, OwnersStart
  <1>3. ASSUME NEW s \in Sides, OwnersStay,
               Built(s) \/ LooksUp(s) \/ TakesFirst(s) \/ StartFails(s)
        PROVE  OwnersStart'
    BY <1>2, <1>3, BuiltSteps, LooksUpSteps, TakesFirstSteps, StartFailsSteps
    DEF BuiltEffect, LooksUpEffect, TakesFirstEffect, StartFailsEffect
  <1>4. ASSUME NEW k \in Callers, Say(k)
        PROVE  OwnersStart'
    <2> DEFINE s == caller[k].side
    <2>1. /\ s \in Sides /\ At(k, "say") /\ Left(k)
          /\ \A q \in Sides : q # s => starter'[q] = starter[q]
          /\ starter'[s] = IF caller[k].lease = -1 THEN starter[s]
                           ELSE "building"
      BY <1>4, SaySteps DEF SayEffect
    <2>2. OwnersStay
      BY <2>1, OwnerLeft
    <2> HIDE DEF s
    <2>3. CASE caller[k].lease = -1
      BY <1>0, <2>1, <2>2, <2>3 DEF OwnersStay, OwnersStart
    <2>4. CASE caller[k].lease # -1
      <3>1. Owns(k) /\ Idle.pc = "idle" /\ caller'[k] = Idle
        BY <2>1, <2>4 DEF Owns, At, Idle, Left
      <3>2. ~(Owns(k)')
        BY <3>1 DEF Owns
      <3>3. \A j \in Callers : j # k /\ Owns(j) => caller[j].side # s
        BY <3>1 DEF OwnersApart, s
      <3> QED
        BY <1>0, <2>1, <2>2, <3>2, <3>3 DEF OwnersStay, OwnersStart
    <2> QED
      BY <2>3, <2>4
  <1>5. ASSUME NEW s \in Sides, LetGo(s)
        PROVE  UNCHANGED starter
    BY <1>5, LetGoSteps DEF LetGoEffect
  <1>6. CASE UNCHANGED starter /\ OwnersStay
    BY <1>6 DEF OwnersStay, OwnersStart
  <1> QED
    BY OwnersKept, StarterMoves, <1>1, <1>3, <1>4, <1>5, <1>6 DEF AgentsSame

LEMMA AgentOfAlike ==
  ASSUME NEW s, AgentOf(s), side'[s].agent = side[s].agent,
         starter'[s] = starter[s],
         side'[s].going \in {"silent", "written", "gone"}
           => side[s].going \in {"silent", "written", "gone"}
  PROVE  AgentOf(s)'
  BY DEF AgentOf


LEMMA AgentsOfMoves ==
  ASSUME Types, Known, MapAgrees, Next
  PROVE  \/ AgentsSame /\ Claimed /\ ThreadsSame
         \/ \E s \in Sides : LetGo(s)
         \/ \E s \in Sides : WriteEnd(s)
         \/ \E s \in Sides : Leave(s)
         \/ \E s \in Sides : Built(s)
         \/ \E s \in Sides : LooksUp(s)
         \/ \E s \in Sides : TakesFirst(s)
         \/ \E s \in Sides : StartFails(s)
         \/ \E k \in Callers : Publish(k)
         \/ \E k \in Callers : Say(k)
  BY MarkedFrame, DropFrame, BeginFrame, EndTurnFrame, StopsFrame,
     NextLineFrame, RestsFrame, ReopenFrame, AdmittedFrame, LooksFrame,
     ReserveFrame, EvictFrame, EvictedFrame, MarksLiveFrame, BroughtUpFrame,
     ArchiveOwedFrame, DropsFrame, AskFrame, OpenFrame, ParkFrame,
     ArchiveFrame, MarkFrame, StopFrame, InvalidateFrame, ReattachFrame
  DEF Next, Owed, AgentSteps, Going, Start, RunQueue, Call, Claimed

LEMMA AgentsOfKept ==
  ASSUME Types, Known, MapAgrees, OwnersStart, \A q \in Made : AgentOf(q), Next
  PROVE  (\A q \in Made : AgentOf(q))'
  <1>0. /\ Made \subseteq Sides /\ made \in Nat
        /\ \A s \in Made : side[s].phase = "open" <=> side[s].going = "no"
    BY Whom DEF Settled, Known, SidesAgree
  <1>Rest. CASE AgentsSame /\ Claimed /\ ThreadsSame
    BY <1>0, <1>Rest, ClaimedMeans, AgentOfAlike
    DEF AgentsSame, AgentsStay, ThreadsSame, Made
  <1>LetGo. ASSUME NEW s \in Sides, LetGo(s)
           PROVE  (\A q \in Made : AgentOf(q))'
    <2>1. UNCHANGED made /\ s \in Made
      BY <1>LetGo, LetGoSteps, LetGoFrame DEF ThreadsSame
    <2>2. LetGoEffect(s)
      BY <1>LetGo, LetGoSteps
    <2>3. Only(s)
      BY <2>2 DEF LetGoEffect
    <2>4. ASSUME NEW q \in Made, q # s
          PROVE  AgentOf(q)'
      <3>1. side'[q] = side[q] /\ starter'[q] = starter[q]
        BY <1>0, <2>2, <2>3, <2>4 DEF LetGoEffect, Only
      <3> QED
        BY <3>1, AgentOfAlike
    <2>5. AgentOf(s)'
      BY <1>0, <2>1, <2>2 DEF LetGoEffect, AgentOf, EndsStay, AgentsStay
    <2> QED
      BY <2>1, <2>4, <2>5 DEF Made
  <1>WriteEnd. ASSUME NEW s \in Sides, WriteEnd(s)
              PROVE  (\A q \in Made : AgentOf(q))'
    <2>1. /\ UNCHANGED made /\ AgentsSame /\ Only(s)
          /\ side[s].going \in {"silent", "written", "gone"}
      BY <1>WriteEnd, WriteEndSteps, WriteEndFrame DEF WriteEndEffect, ThreadsSame
    <2>2. ASSUME NEW q \in Made
          PROVE  AgentOf(q)'
      BY <1>0, <2>1, AgentOfAlike DEF AgentsSame, AgentsStay, Only
    <2> QED
      BY <2>1, <2>2 DEF Made
  <1>Leave. ASSUME NEW s \in Sides, Leave(s)
           PROVE  (\A q \in Made : AgentOf(q))'
    <2>1. /\ UNCHANGED made /\ AgentsSame /\ Only(s)
          /\ side[s].going \in {"silent", "written", "gone"}
      BY <1>Leave, LeaveSteps, LeaveFrame DEF LeaveEffect, ThreadsSame
    <2>2. ASSUME NEW q \in Made
          PROVE  AgentOf(q)'
      BY <1>0, <2>1, AgentOfAlike DEF AgentsSame, AgentsStay, Only
    <2> QED
      BY <2>1, <2>2 DEF Made
  <1>Built. ASSUME NEW s \in Sides, Built(s)
           PROVE  (\A q \in Made : AgentOf(q))'
    <2>1. UNCHANGED made /\ s \in Made
      BY <1>Built, BuiltSteps, BuiltFrame DEF ThreadsSame
    <2>2. BuiltEffect(s)
      BY <1>Built, BuiltSteps
    <2>3. Only(s)
      BY <2>2 DEF BuiltEffect
    <2>4. ASSUME NEW q \in Made, q # s
          PROVE  AgentOf(q)'
      <3>1. side'[q] = side[q] /\ starter'[q] = starter[q]
        BY <1>0, <2>2, <2>3, <2>4 DEF BuiltEffect, Only
      <3> QED
        BY <3>1, AgentOfAlike
    <2>5. AgentOf(s)'
      BY <1>0, <2>1, <2>2 DEF BuiltEffect, AgentOf, EndsStay, AgentsStay
    <2> QED
      BY <2>1, <2>4, <2>5 DEF Made
  <1>LooksUp. ASSUME NEW s \in Sides, LooksUp(s)
             PROVE  (\A q \in Made : AgentOf(q))'
    <2>1. UNCHANGED made /\ s \in Made
      BY <1>LooksUp, LooksUpSteps, LooksUpFrame DEF ThreadsSame
    <2>2. LooksUpEffect(s)
      BY <1>LooksUp, LooksUpSteps
    <2>3. Only(s)
      BY <2>2 DEF LooksUpEffect
    <2>4. ASSUME NEW q \in Made, q # s
          PROVE  AgentOf(q)'
      <3>1. side'[q] = side[q] /\ starter'[q] = starter[q]
        BY <1>0, <2>2, <2>3, <2>4 DEF LooksUpEffect, Only
      <3> QED
        BY <3>1, AgentOfAlike
    <2>5. AgentOf(s)'
      BY <1>0, <2>1, <2>2 DEF LooksUpEffect, AgentOf, EndsStay, AgentsStay
    <2> QED
      BY <2>1, <2>4, <2>5 DEF Made
  <1>TakesFirst. ASSUME NEW s \in Sides, TakesFirst(s)
                PROVE  (\A q \in Made : AgentOf(q))'
    <2>1. UNCHANGED made /\ s \in Made
      BY <1>TakesFirst, TakesFirstSteps, TakesFirstFrame DEF ThreadsSame
    <2>2. TakesFirstEffect(s)
      BY <1>TakesFirst, TakesFirstSteps
    <2>3. Only(s)
      BY <2>2 DEF TakesFirstEffect
    <2>4. ASSUME NEW q \in Made, q # s
          PROVE  AgentOf(q)'
      <3>1. side'[q] = side[q] /\ starter'[q] = starter[q]
        BY <1>0, <2>2, <2>3, <2>4 DEF TakesFirstEffect, Only
      <3> QED
        BY <3>1, AgentOfAlike
    <2>5. AgentOf(s)'
      BY <1>0, <2>1, <2>2 DEF TakesFirstEffect, AgentOf, EndsStay, AgentsStay
    <2> QED
      BY <2>1, <2>4, <2>5 DEF Made
  <1>StartFails. ASSUME NEW s \in Sides, StartFails(s)
                PROVE  (\A q \in Made : AgentOf(q))'
    <2>1. UNCHANGED made /\ s \in Made
      BY <1>StartFails, StartFailsSteps, StartFailsFrame DEF ThreadsSame
    <2>2. /\ AgentsStay /\ starter[s] = "failed" /\ starter'[s] = "done"
          /\ \A q \in Sides : q # s => starter'[q] = starter[q]
      BY <1>StartFails, StartFailsSteps, SideUnchanged
      DEF StartFailsEffect, EndedStep, ClaimStep, SidesStay
    <2>3. Claimed /\ ThreadsSame
      BY <1>StartFails, StartFailsFrame
    <2>4. ASSUME NEW q \in Made, q # s
          PROVE  AgentOf(q)'
      BY <1>0, <2>2, <2>3, <2>4, ClaimedMeans, AgentOfAlike DEF AgentsStay
    <2>5. AgentOf(s)'
      <3>1. side[s].agent = "up"
              => side[s].going \notin {"silent", "written", "gone"}
        BY <2>1, <2>2 DEF AgentOf
      <3>2. side'[s].going \in {"silent", "written", "gone"}
              => side[s].going \in {"silent", "written", "gone"}
        BY <2>1, <2>3, ClaimedMeans
      <3> QED
        BY <1>0, <2>1, <2>2, <3>1, <3>2 DEF AgentOf, AgentsStay
    <2> QED
      BY <2>1, <2>4, <2>5 DEF Made
  <1>Publish. ASSUME NEW k \in Callers, Publish(k)
             PROVE  (\A q \in Made : AgentOf(q))'
    <2>1. UNCHANGED starter
      BY <1>Publish, PublishSteps DEF PublishEffect
    <2>2. ASSUME NEW q \in Made
          PROVE  AgentOf(q)'
      BY <1>Publish, <2>1, PublishMakes, AgentOfAlike
    <2>3. ASSUME NEW q, made' # made, q = made'
          PROVE  AgentOf(q)'
      <3>1. side'[q].agent = "none"
        BY <1>Publish, <2>3, PublishSteps DEF PublishEffect
      <3>2. side'[q].going = "no"
        BY <1>Publish, <2>3, PublishSteps DEF PublishEffect
      <3> QED
        BY <3>1, <3>2 DEF AgentOf
    <2>4. \A q \in Made' : q \in Made \/ (made' # made /\ q = made')
      BY <1>Publish, PublishMakes
    <2> QED
      BY <2>2, <2>3, <2>4
  <1>Say. ASSUME NEW k \in Callers, Say(k)
         PROVE  (\A q \in Made : AgentOf(q))'
    <2> DEFINE s == caller[k].side
    <2>1. /\ s \in Made /\ At(k, "say") /\ UNCHANGED made
          /\ \A q \in Sides : q # s => starter'[q] = starter[q]
          /\ starter'[s] = IF caller[k].lease = -1 THEN starter[s]
                           ELSE "building"
          /\ EndsStay /\ AgentsStay
      BY <1>Say, SaySteps, SayFrame DEF SayEffect, ThreadsSame
    <2>2. caller[k].lease # -1 => starter[s] = "none"
      BY <2>1 DEF OwnersStart, Owns, At
    <2> HIDE DEF s
    <2>3. ASSUME NEW q \in Made
          PROVE  AgentOf(q)'
      <3>1. /\ side'[q].agent = side[q].agent /\ side'[q].going = side[q].going
            /\ q \in Sides
        BY <1>0, <2>1 DEF EndsStay, AgentsStay
      <3>2. CASE starter'[q] = starter[q]
        BY <3>1, <3>2, AgentOfAlike
      <3>3. CASE starter'[q] # starter[q]
        <4>1. q = s /\ starter[q] = "none"
          BY <2>1, <2>2, <3>1, <3>3
        <4>2. AgentOf(q)
          OBVIOUS
        <4> QED
          BY <3>1, <4>1, <4>2 DEF AgentOf
      <3> QED
        BY <3>2, <3>3
    <2> QED
      BY <2>1, <2>3 DEF Made
  <1> QED
    BY AgentsOfMoves, <1>Rest, <1>LetGo, <1>WriteEnd, <1>Leave, <1>Built,
       <1>LooksUp, <1>TakesFirst,
       <1>StartFails, <1>Publish, <1>Say

LEMMA AgentsParts ==
  Agents <=> OwnersStart /\ OwnersApart /\ \A s \in Made : AgentOf(s)
  BY DEF Agents, OwnersStart, OwnersApart, AgentOf

LEMMA AgentsKept ==
  ASSUME Types, Known, MapAgrees, Leases, Agents, Next
  PROVE  Agents'
  <1>1. OwnersStart /\ OwnersApart /\ \A s \in Made : AgentOf(s)
    BY AgentsParts
  <1>2. OwnersStart' /\ OwnersApart' /\ (\A s \in Made : AgentOf(s))'
    BY <1>1, OwnersStartKept, OwnersApartKept, AgentsOfKept
  <1> QED
    BY <1>2 DEF Agents, OwnersStart, OwnersApart, AgentOf
-----------------------------------------------------------------------------
(* Every step keeps Turns: a queue that something is put in has a runner,  *)
(* or the start that will drive it; a runner that finds it empty leaves    *)
(* under the same lock.                                                    *)
LEMMA AnsweringStays ==
  ASSUME Types, Known, MapAgrees, Leases, Next, NEW q \in Made, Answering(q)'
  PROVE  Answering(q)
  <1>1. /\ side[q].phase = "open" /\ side'[q].lease = side[q].lease
        /\ side'[q].lease = epoch' /\ Even(side'[q].lease)
    BY Onward DEF Answering, Valid, Even
  <1>2. side[q].lease <= epoch /\ side[q].lease \in Int
    BY Whom DEF Leases, SideLease, Settled, SideTypes, LiveSides
  <1>3. epoch \in Nat /\ epoch' \in Nat /\ epoch <= epoch'
    BY EpochGrows
  <1>4. side[q].lease = epoch
    BY <1>1, <1>2, <1>3
  <1> QED
    BY <1>1, <1>4 DEF Answering, Valid, Even

On(r, s) == runner[r].side = s /\ runner[r].pc # "free"
Driven(s) == Answering(s) /\ (side[s].waiting # <<>> \/ side[s].running = TRUE)
               => Drives(s) \/ starter[s] # "done"
Started(s) == starter[s] # "done" => /\ side[s].running = TRUE
                                     /\ \A r \in Runners : ~On(r, s)
Single(s) == side[s].slipped = FALSE =>
               /\ \A r, q \in Runners : Busy(r, s) /\ Busy(q, s) => r = q
               /\ \A r \in Runners : Busy(r, s) => side[s].running = TRUE
Quieted(s) == side[s].idly = TRUE /\ side[s].slipped = FALSE =>
                /\ side[s].waiting = <<>> /\ starter[s] = "done"
                /\ \A r \in Runners : ~Busy(r, s)
Drained(s) == side[s].phase = "parking" /\ side[s].going # "claimed"
                => side[s].waiting = <<>>
TurnOf(s) == Driven(s) /\ Started(s) /\ Single(s) /\ Quieted(s) /\ Drained(s)

LEMMA TurnsParts ==
  Turns <=> \A s \in Made : TurnOf(s)
  BY DEF Turns, TurnOf, Driven, Started, Single, Quieted, Drained, On

RunsAlike(q) == \A r \in Runners : \/ runner'[r] = runner[r]
                                   \/ ~On(r, q) /\ ~(On(r, q)')
QueueAlike(q) == /\ side'[q].running = side[q].running
                 /\ side'[q].waiting = side[q].waiting
                 /\ side'[q].slipped = side[q].slipped
EndAlike(q) == /\ Answering(q)' => Answering(q)
               /\ side'[q].idly = TRUE => side[q].idly = TRUE
               /\ side'[q].phase = "parking" /\ side'[q].going # "claimed"
                    => side[q].phase = "parking" /\ side[q].going # "claimed"

LEMMA TurnAlike ==
  ASSUME NEW q, TurnOf(q), RunsAlike(q), QueueAlike(q), EndAlike(q),
         starter'[q] = starter[q]
  PROVE  TurnOf(q)'
  <1>1. \A r \in Runners : /\ On(r, q)' <=> On(r, q)
                           /\ Busy(r, q)' <=> Busy(r, q)
    BY DEF RunsAlike, On, Busy
  <1>2. Drives(q) => Drives(q)'
    BY DEF RunsAlike, On, Drives
  <1>3. Driven(q)'
    BY <1>2 DEF TurnOf, Driven, QueueAlike, EndAlike
  <1>4. Started(q)'
    BY <1>1 DEF TurnOf, Started, QueueAlike
  <1>5. Single(q)'
    BY <1>1 DEF TurnOf, Single, QueueAlike
  <1>6. Quieted(q)'
    BY <1>1 DEF TurnOf, Quieted, QueueAlike, EndAlike
  <1>7. Drained(q)'
    BY DEF TurnOf, Drained, QueueAlike, EndAlike
  <1> QED
    BY <1>3, <1>4, <1>5, <1>6, <1>7 DEF TurnOf

(* A step about one side leaves the turns of the others alone.             *)
LEMMA OtherTurns ==
  ASSUME Types, Known, MapAgrees, Leases, Turns, Next, UNCHANGED made,
         NEW s, \A q \in Sides : q # s => side'[q] = side[q],
         \A q \in Sides : q # s => starter'[q] = starter[q],
         \A q \in Sides : q # s => RunsAlike(q)
  PROVE  TurnOf(s)' => Turns'
  <1>0. Made \subseteq Sides
    BY Whom DEF Settled
  <1>1. ASSUME NEW q \in Made, q # s
        PROVE  TurnOf(q)'
    <2>1. TurnOf(q) /\ q \in Sides
      BY <1>0, TurnsParts
    <2>2. EndAlike(q) /\ QueueAlike(q)
      BY <1>1, <2>1, AnsweringStays DEF EndAlike, QueueAlike
    <2> QED
      BY <1>1, <2>1, <2>2, TurnAlike
  <1>2. ASSUME TurnOf(s)'
        PROVE  \A q \in Made : TurnOf(q)'
    BY <1>1, <1>2
  <1>3. ASSUME \A q \in Made : TurnOf(q)'
        PROVE  Turns'
    <2>1. \A q \in Made' : TurnOf(q)'
      BY <1>3 DEF Made
    <2> QED
      BY <2>1 DEF Turns, TurnOf, Driven, Started, Single, Quieted, Drained, On
  <1> QED
    BY <1>2, <1>3

(* A side that is let go of as idle has nothing to do.                     *)
LEMMA ClaimedTurn ==
  ASSUME NEW s, TurnOf(s), QueueAlike(s), RunsAlike(s),
         starter'[s] = starter[s], MayClaim(s), ~UNCHANGED side,
         side'[s].phase # "open"
  PROVE  TurnOf(s)'
  <1>0. side'[s].going = "claimed" /\ side[s].phase = "open"
    BY DEF MayClaim, ClaimStep, ParkStep
  <1>1. \A r \in Runners : /\ On(r, s)' <=> On(r, s)
                           /\ Busy(r, s)' <=> Busy(r, s)
    BY DEF RunsAlike, On, Busy
  <1>2. ~(Answering(s)')
    BY DEF Answering
  <1>3. Driven(s)' /\ Drained(s)'
    BY <1>0, <1>2 DEF Driven, Drained
  <1>4. Started(s)' /\ Single(s)'
    BY <1>1 DEF TurnOf, Started, Single, QueueAlike
  <1>5. ASSUME side'[s].idly = TRUE, side[s].slipped = FALSE
        PROVE  /\ side[s].waiting = <<>> /\ starter[s] = "done"
               /\ \A r \in Runners : ~Busy(r, s)
    <2>1. side[s].running = FALSE /\ Valid(side[s].lease)
      BY <1>5 DEF MayClaim, ClaimStep, ParkStep
    <2>2. Answering(s)
      BY <1>0, <2>1 DEF Answering
    <2>3. starter[s] = "done" /\ \A r \in Runners : ~Busy(r, s)
      BY <1>5, <2>1 DEF TurnOf, Started, Single
    <2>4. ~Drives(s)
      BY <2>3 DEF Drives, Busy
    <2> QED
      BY <2>2, <2>3, <2>4 DEF TurnOf, Driven
  <1>6. Quieted(s)'
    BY <1>1, <1>5 DEF Quieted, QueueAlike
  <1> QED
    BY <1>3, <1>4, <1>6 DEF TurnOf

LEMMA RunnersStay ==
  ASSUME UNCHANGED runner
  PROVE  \A q : RunsAlike(q)
  BY DEF RunsAlike

LEMMA RunsOfOthers ==
  ASSUME NEW r \in Runners, OnlyRunner(r), NEW s,
         On(r, s) \/ runner[r].pc = "free",
         runner'[r].side = s \/ runner'[r] = Free
  PROVE  \A q : q # s => RunsAlike(q)
  <1>1. Free.pc = "free"
    BY DEF Free
  <1> QED
    BY <1>1 DEF OnlyRunner, RunsAlike, On

LEMMA EndsAlike ==
  ASSUME Types, Known, MapAgrees, Leases, Next, NEW q \in Made,
         EndsStay, Made \subseteq Sides
  PROVE  EndAlike(q)
  BY AnsweringStays DEF EndAlike, EndsStay


LEMMA TurnsMoves ==
  ASSUME Types, Known, MapAgrees, Next
  PROVE  \/ Claimed /\ QueuesStay /\ AgentsSame /\ RunnersSame /\ ThreadsSame
         \/ \E s \in Sides : LetGo(s)
         \/ \E s \in Sides : WriteEnd(s)
         \/ \E s \in Sides : Leave(s)
         \/ \E s \in Sides : Built(s)
         \/ \E s \in Sides : LooksUp(s)
         \/ \E s \in Sides : TakesFirst(s)
         \/ \E s \in Sides : StartFails(s)
         \/ \E r \in Runners : Begin(r)
         \/ \E r \in Runners : EndTurn(r)
         \/ \E r \in Runners : Stops(r)
         \/ \E r \in Runners : NextLine(r)
         \/ \E r \in Runners : Rests(r)
         \/ \E k \in Callers : Publish(k)
         \/ \E k \in Callers : Say(k)
         \/ \E s \in Sides : Stop(s)
  BY MarkedFrame, DropFrame, ReopenFrame, AdmittedFrame, LooksFrame,
     ReserveFrame, EvictFrame, EvictedFrame, MarksLiveFrame, BroughtUpFrame,
     ArchiveOwedFrame, DropsFrame, AskFrame, OpenFrame, ParkFrame,
     ArchiveFrame, MarkFrame, InvalidateFrame, ReattachFrame
  DEF Next, Owed, AgentSteps, Going, Start, RunQueue, Call, Claimed

LEMMA TurnsKept ==
  ASSUME Types, Known, MapAgrees, Leases, Agents, Turns, Next
  PROVE  Turns'
  <1>0. /\ Made \subseteq Sides /\ made \in Nat
        /\ \A s \in Made : /\ TurnOf(s)
                           /\ side[s].phase = "open" <=> side[s].going = "no"
                           /\ side[s].idly = TRUE => side[s].phase = "parking"
    BY Whom, TurnsParts DEF Settled, Known, SidesAgree
  <1>Rest. CASE Claimed /\ QueuesStay /\ AgentsSame /\ RunnersSame /\ ThreadsSame
    <2>0. /\ Claimed /\ QueuesStay /\ UNCHANGED <<made, starter>>
          /\ \A q : RunsAlike(q)
      BY <1>Rest, RunnersStay DEF ThreadsSame, AgentsSame, RunnersSame
    <2>1. \A q \in Made : QueueAlike(q)
      BY <1>0, <2>0 DEF QueuesStay, QueueAlike
    <2>2. CASE EndsSame
      <3>1. \A q \in Made : TurnOf(q)'
        BY <1>0, <2>0, <2>1, <2>2, EndsAlike, TurnAlike DEF EndsSame
      <3>2. \A q \in Made' : TurnOf(q)'
        BY <2>0, <3>1 DEF Made
      <3> QED
        BY <3>2
        DEF Turns, TurnOf, Driven, Started, Single, Quieted, Drained, On
    <2>3. ASSUME NEW s \in Made, ClaimOf(s)
          PROVE  Turns'
      <3>1. /\ MayClaim(s) /\ Only(s) /\ side'[s].phase # "open"
            /\ side[s].phase = "open"
        BY <2>3 DEF ClaimOf, MayClaim, ClaimStep, ParkStep
      <3>2. TurnOf(s)'
        BY <1>0, <2>0, <2>1, <3>1, ClaimedTurn
      <3> QED
        BY <2>0, <3>1, <3>2, OtherTurns DEF Only
    <2> QED
      BY <2>0, <2>2, <2>3 DEF Claimed
  <1>LetGo. ASSUME NEW s \in Sides, LetGo(s)
           PROVE  Turns'
    <2>0. s \in Made /\ s \in Sides /\ UNCHANGED made /\ LetGoEffect(s)
      BY <1>0, <1>LetGo, LetGoSteps, LetGoFrame DEF ThreadsSame
    <2>1. /\ Only(s) /\ UNCHANGED <<runner, starter>>
          /\ side'[s].phase = side[s].phase /\ side'[s].idly = side[s].idly
          /\ side[s].phase # "open" /\ side'[s].waiting = <<>>
          /\ side'[s].running = side[s].running
          /\ side'[s].slipped = side[s].slipped
      BY <1>0, <2>0 DEF LetGoEffect
    <2>2. ~(Answering(s)') /\ TurnOf(s)
      BY <1>0, <2>0, <2>1 DEF Answering
    <2>3. TurnOf(s)'
      BY <2>1, <2>2 DEF TurnOf, Driven, Started, Single, Quieted, Drained, On, Busy
    <2> QED
      BY <2>0, <2>1, <2>3, RunnersStay, OtherTurns DEF Only
  <1>WriteEnd. ASSUME NEW s \in Sides, WriteEnd(s)
              PROVE  Turns'
    <2>0. s \in Made /\ s \in Sides /\ UNCHANGED made /\ WriteEndEffect(s)
      BY <1>0, <1>WriteEnd, WriteEndSteps, WriteEndFrame DEF ThreadsSame
    <2>1. /\ Only(s) /\ UNCHANGED <<runner, starter>> /\ QueueAlike(s)
          /\ side'[s].phase = side[s].phase /\ side'[s].idly = side[s].idly
          /\ side[s].going # "claimed"
      BY <2>0 DEF WriteEndEffect, QueuesStay, QueueAlike
    <2>2. EndAlike(s)
      BY <2>0, <2>1, AnsweringStays DEF EndAlike
    <2>3. TurnOf(s)'
      BY <1>0, <2>0, <2>1, <2>2, RunnersStay, TurnAlike
    <2> QED
      BY <2>0, <2>1, <2>3, RunnersStay, OtherTurns DEF Only
  <1>Leave. ASSUME NEW s \in Sides, Leave(s)
           PROVE  Turns'
    <2>0. s \in Made /\ s \in Sides /\ UNCHANGED made /\ LeaveEffect(s)
      BY <1>0, <1>Leave, LeaveSteps, LeaveFrame DEF ThreadsSame
    <2>1. /\ Only(s) /\ UNCHANGED <<runner, starter>> /\ QueueAlike(s)
          /\ side'[s].phase = side[s].phase /\ side'[s].idly = side[s].idly
          /\ side[s].going # "claimed"
      BY <2>0 DEF LeaveEffect, QueuesStay, QueueAlike
    <2>2. EndAlike(s)
      BY <2>0, <2>1, AnsweringStays DEF EndAlike
    <2>3. TurnOf(s)'
      BY <1>0, <2>0, <2>1, <2>2, RunnersStay, TurnAlike
    <2> QED
      BY <2>0, <2>1, <2>3, RunnersStay, OtherTurns DEF Only
  <1>Built. ASSUME NEW s \in Sides, Built(s)
           PROVE  Turns'
    <2>0. s \in Made /\ s \in Sides /\ UNCHANGED made /\ BuiltEffect(s)
      BY <1>0, <1>Built, BuiltSteps, BuiltFrame DEF ThreadsSame
    <2>1. /\ Only(s) /\ UNCHANGED runner /\ EndsStay /\ QueuesStay
          /\ starter[s] # "done"
          /\ starter'[s] # "done" \/ side[s].phase # "open"
          /\ \A q \in Sides : q # s => starter'[q] = starter[q]
      BY <2>0 DEF BuiltEffect
    <2>2. EndAlike(s) /\ QueueAlike(s) /\ TurnOf(s)
      BY <1>0, <2>0, <2>1, EndsAlike DEF QueueAlike, QueuesStay
    <2>3. TurnOf(s)'
      <3>1. Driven(s)' /\ Started(s)' /\ Drained(s)'
        BY <2>1, <2>2
        DEF TurnOf, Driven, Started, Drained, QueueAlike, EndAlike, On,
            Answering
      <3>2. Single(s)' /\ Quieted(s)'
        BY <2>1, <2>2 DEF TurnOf, Single, Quieted, QueueAlike, EndAlike, Busy
      <3> QED
        BY <3>1, <3>2 DEF TurnOf
    <2> QED
      BY <2>0, <2>1, <2>3, RunnersStay, OtherTurns DEF Only
  <1>LooksUp. ASSUME NEW s \in Sides, LooksUp(s)
             PROVE  Turns'
    <2>0. s \in Made /\ s \in Sides /\ UNCHANGED made /\ LooksUpEffect(s)
      BY <1>0, <1>LooksUp, LooksUpSteps, LooksUpFrame DEF ThreadsSame
    <2>1. /\ Only(s) /\ UNCHANGED runner /\ EndsStay /\ QueuesStay
          /\ starter[s] # "done"
          /\ starter'[s] # "done" \/ side[s].phase # "open"
          /\ \A q \in Sides : q # s => starter'[q] = starter[q]
      BY <2>0 DEF LooksUpEffect
    <2>2. EndAlike(s) /\ QueueAlike(s) /\ TurnOf(s)
      BY <1>0, <2>0, <2>1, EndsAlike DEF QueueAlike, QueuesStay
    <2>3. TurnOf(s)'
      <3>1. Driven(s)' /\ Started(s)' /\ Drained(s)'
        BY <2>1, <2>2
        DEF TurnOf, Driven, Started, Drained, QueueAlike, EndAlike, On,
            Answering
      <3>2. Single(s)' /\ Quieted(s)'
        BY <2>1, <2>2 DEF TurnOf, Single, Quieted, QueueAlike, EndAlike, Busy
      <3> QED
        BY <3>1, <3>2 DEF TurnOf
    <2> QED
      BY <2>0, <2>1, <2>3, RunnersStay, OtherTurns DEF Only
  <1>TakesFirst. ASSUME NEW s \in Sides, TakesFirst(s)
                PROVE  Turns'
    <2>0. s \in Made /\ s \in Sides /\ UNCHANGED made /\ TakesFirstEffect(s)
      BY <1>0, <1>TakesFirst, TakesFirstSteps, TakesFirstFrame DEF ThreadsSame
    <2>1. /\ Only(s) /\ EndsStay /\ starter[s] = "take" /\ starter'[s] = "done"
          /\ \A q \in Sides : q # s => starter'[q] = starter[q]
          /\ side'[s].slipped = side[s].slipped
      BY <2>0 DEF TakesFirstEffect
    <2>2. EndAlike(s) /\ TurnOf(s)
      BY <1>0, <2>0, <2>1, EndsAlike
    <2>3. ~(side'[s].idly = TRUE /\ side'[s].slipped = FALSE)
      BY <2>1, <2>2 DEF TurnOf, Quieted, EndAlike
    <2>4. \A r \in Runners : ~On(r, s)
      BY <2>1, <2>2 DEF TurnOf, Started
    <2>5. Started(s)' /\ Quieted(s)'
      BY <2>1, <2>3 DEF Started, Quieted
    <2>6. CASE side[s].waiting = <<>>
      <3>1. /\ side'[s].waiting = <<>> /\ side'[s].running = FALSE
            /\ UNCHANGED runner
        BY <2>0, <2>6 DEF TakesFirstEffect
      <3>2. TurnOf(s)'
        BY <2>4, <2>5, <3>1 DEF TurnOf, Driven, Single, Drained, Busy, On
      <3> QED
        BY <2>0, <2>1, <3>1, <3>2, RunnersStay, OtherTurns DEF Only
    <2>7. CASE side[s].waiting # <<>>
      <3>1. PICK r \in Runners :
              /\ runner[r].pc = "free" /\ OnlyRunner(r)
              /\ runner'[r].pc = "door" /\ runner'[r].side = s
        BY <2>0, <2>7 DEF TakesFirstEffect
      <3>2. side'[s].running = TRUE
        BY <2>0, <2>1, <2>2, <2>7 DEF TakesFirstEffect, TurnOf, Started
      <3>3. Driven(s)'
        BY <3>1 DEF Driven, Drives
      <3>4. Single(s)'
        BY <2>4, <3>1, <3>2 DEF Single, Busy, On, OnlyRunner
      <3>5. Drained(s)'
        BY <2>2, <2>7 DEF TurnOf, Drained, EndAlike
      <3>6. \A q : q # s => RunsAlike(q)
        BY <3>1, RunsOfOthers
      <3>7. TurnOf(s)'
        BY <2>5, <3>3, <3>4, <3>5 DEF TurnOf
      <3> QED
        BY <2>0, <2>1, <3>6, <3>7, OtherTurns DEF Only
    <2> QED
      BY <2>6, <2>7
  <1>StartFails. ASSUME NEW s \in Sides, StartFails(s)
                PROVE  Turns'
    <2>0. s \in Made /\ s \in Sides /\ UNCHANGED made /\ StartFailsEffect(s)
      BY <1>0, <1>StartFails, StartFailsSteps, StartFailsFrame DEF ThreadsSame
    <2>1. /\ \A q \in Sides : q # s => side'[q] = side[q]
          /\ \A q \in Sides : q # s => starter'[q] = starter[q]
          /\ starter[s] = "failed" /\ starter'[s] = "done"
          /\ UNCHANGED runner /\ QueueAlike(s)
          /\ side'[s].phase # "open"
          /\ side'[s].idly = TRUE => side[s].idly = TRUE
          /\ side'[s].going # "claimed" => UNCHANGED side
      BY <2>0
      DEF StartFailsEffect, EndedStep, ClaimStep, Only, QueueAlike, QueuesStay
    <2>2. TurnOf(s)
      BY <1>0, <2>0
    <2>3. Driven(s)' /\ Started(s)'
      BY <2>1 DEF Driven, Started, Answering
    <2>4. Single(s)' /\ Quieted(s)'
      BY <2>1, <2>2 DEF TurnOf, Single, Quieted, QueueAlike, Busy
    <2>5. Drained(s)'
      BY <2>1, <2>2 DEF TurnOf, Drained
    <2>6. TurnOf(s)'
      BY <2>3, <2>4, <2>5 DEF TurnOf
    <2> QED
      BY <2>0, <2>1, <2>6, RunnersStay, OtherTurns
  <1>Begin. ASSUME NEW r \in Runners, Begin(r)
           PROVE  Turns'
    <2>s. PICK s \in Sides : s = runner[r].side
      BY <1>Begin, BeginSteps
    <2>0. s \in Made /\ UNCHANGED made /\ BeginEffect(r)
      BY <1>0, <1>Begin, <2>s, BeginSteps, BeginFrame DEF ThreadsSame
    <2>1. OnlyRunner(r) /\ UNCHANGED starter
      BY <2>0 DEF BeginEffect
    <2>2. TurnOf(s)
      BY <1>0, <2>0
    <2>3. /\ runner[r].pc = "door" /\ runner'[r].side = s /\ UNCHANGED side
          /\ \/ runner'[r].pc = "turn"
             \/ ~Answering(s) /\ runner'[r].pc = "rest"
      BY <2>0, <2>s DEF BeginEffect
    <2>4. Answering(s)' => Answering(s)
      BY <2>0, AnsweringStays
    <2>5. On(r, s)
      BY <2>3, <2>s DEF On
    <2>6. \A q \in Runners : Busy(q, s)' => Busy(q, s)
      BY <2>1, <2>3, <2>5 DEF Busy, OnlyRunner, On
    <2>7. Driven(s)'
      BY <2>3, <2>4 DEF Driven, Drives
    <2>8. TurnOf(s)'
      <3>1. Started(s)'
        BY <2>1, <2>2, <2>5 DEF TurnOf, Started
      <3>2. Single(s)' /\ Quieted(s)' /\ Drained(s)'
        BY <2>1, <2>2, <2>3, <2>6 DEF TurnOf, Single, Quieted, Drained
      <3> QED
        BY <2>7, <3>1, <3>2 DEF TurnOf
    <2>9. \A q : q # s => RunsAlike(q)
      BY <2>1, <2>3, <2>5, RunsOfOthers
    <2> QED
      BY <2>0, <2>1, <2>3, <2>8, <2>9, OtherTurns
  <1>EndTurn. ASSUME NEW r \in Runners, EndTurn(r)
             PROVE  Turns'
    <2>s. PICK s \in Sides : s = runner[r].side
      BY <1>EndTurn, EndTurnSteps
    <2>0. s \in Made /\ UNCHANGED made /\ EndTurnEffect(r)
      BY <1>0, <1>EndTurn, <2>s, EndTurnSteps, EndTurnFrame DEF ThreadsSame
    <2>1. OnlyRunner(r) /\ UNCHANGED starter
      BY <2>0 DEF EndTurnEffect
    <2>2. TurnOf(s)
      BY <1>0, <2>0
    <2>3. /\ runner[r].pc = "turn" /\ runner'[r].side = s
          /\ \/ UNCHANGED side /\ runner'[r].pc = "next"
             \/ CloseStep(s) /\ runner'[r].pc = "stop"
      BY <2>0, <2>s, CloseDoes, Whom DEF EndTurnEffect, Settled
    <2>4. Answering(s)' => Answering(s)
      BY <2>0, AnsweringStays
    <2>5. On(r, s) /\ Busy(r, s)
      BY <2>3, <2>s DEF On, Busy
    <2>6. \A q \in Runners : Busy(q, s)' => Busy(q, s)
      BY <2>1, <2>3, <2>5 DEF Busy, OnlyRunner
    <2>7. /\ \A q \in Sides : q # s => side'[q] = side[q]
          /\ QueueAlike(s)
          /\ UNCHANGED side \/ side'[s].phase # "open"
          /\ side'[s].idly = TRUE => side[s].idly = TRUE
          /\ side'[s].going # "claimed" => UNCHANGED side
      BY <2>0, <2>3
      DEF CloseStep, EndedStep, ClaimStep, Only, QueueAlike, QueuesStay
    <2>8. TurnOf(s)'
      <3>1. Started(s)'
        BY <2>1, <2>2, <2>5 DEF TurnOf, Started
      <3>2. Single(s)' /\ Quieted(s)'
        BY <2>1, <2>2, <2>6, <2>7 DEF TurnOf, Single, Quieted, QueueAlike
      <3>3. Drained(s)'
        BY <2>2, <2>7 DEF TurnOf, Drained
      <3>4. Driven(s)'
        <4>1. CASE runner'[r].pc = "next"
          BY <2>3, <4>1 DEF Driven, Drives
        <4>2. CASE runner'[r].pc # "next"
          BY <2>3, <4>2 DEF Driven, Answering, CloseStep, EndedStep, ClaimStep
        <4> QED
          BY <4>1, <4>2
      <3> QED
        BY <3>1, <3>2, <3>3, <3>4 DEF TurnOf
    <2>9. \A q : q # s => RunsAlike(q)
      BY <2>1, <2>3, <2>5, RunsOfOthers
    <2> QED
      BY <2>0, <2>1, <2>7, <2>8, <2>9, OtherTurns
  <1>Stops. ASSUME NEW r \in Runners, Stops(r)
           PROVE  Turns'
    <2>s. PICK s \in Sides : s = runner[r].side
      BY <1>Stops, StopsSteps
    <2>0. s \in Made /\ UNCHANGED made /\ StopsEffect(r)
      BY <1>0, <1>Stops, <2>s, StopsSteps, StopsFrame DEF ThreadsSame
    <2>1. OnlyRunner(r) /\ UNCHANGED starter
      BY <2>0 DEF StopsEffect
    <2>2. TurnOf(s)
      BY <1>0, <2>0
    <2>3. /\ runner[r].pc = "stop" /\ runner'[r].side = s /\ UNCHANGED side
          /\ runner'[r].pc = "rest"
      BY <2>0, <2>s DEF StopsEffect
    <2>4. Answering(s)' => Answering(s)
      BY <2>0, AnsweringStays
    <2>5. On(r, s)
      BY <2>3, <2>s DEF On
    <2>6. \A q \in Runners : Busy(q, s)' => Busy(q, s)
      BY <2>1, <2>3, <2>5 DEF Busy, OnlyRunner, On
    <2>7. Drives(s) => Drives(s)'
      BY <2>1, <2>3 DEF Drives, OnlyRunner
    <2>8. TurnOf(s)'
      <3>1. Started(s)' /\ Driven(s)'
        BY <2>1, <2>2, <2>3, <2>4, <2>5, <2>7 DEF TurnOf, Started, Driven
      <3>2. Single(s)' /\ Quieted(s)' /\ Drained(s)'
        BY <2>1, <2>2, <2>3, <2>6 DEF TurnOf, Single, Quieted, Drained
      <3> QED
        BY <3>1, <3>2 DEF TurnOf
    <2>9. \A q : q # s => RunsAlike(q)
      BY <2>1, <2>3, <2>5, RunsOfOthers
    <2> QED
      BY <2>0, <2>1, <2>3, <2>8, <2>9, OtherTurns
  <1>NextLine. ASSUME NEW r \in Runners, NextLine(r)
              PROVE  Turns'
    <2>s. PICK s \in Sides : s = runner[r].side
      BY <1>NextLine, NextLineSteps
    <2>0. s \in Made /\ UNCHANGED made /\ NextLineEffect(r)
      BY <1>0, <1>NextLine, <2>s, NextLineSteps, NextLineFrame DEF ThreadsSame
    <2>1. OnlyRunner(r) /\ UNCHANGED starter
      BY <2>0 DEF NextLineEffect
    <2>2. TurnOf(s)
      BY <1>0, <2>0
    <2>3. /\ runner[r].pc = "next" /\ runner'[r].side = s
          /\ Only(s) /\ EndsStay /\ side'[s].slipped = side[s].slipped
          /\ \/ /\ side'[s].waiting = <<>> /\ side'[s].running = FALSE
                /\ runner'[r].pc = "rest"
             \/ /\ side[s].waiting # <<>> /\ side'[s].running = side[s].running
                /\ runner'[r].pc = "door"
      BY <2>0, <2>s DEF NextLineEffect
    <2>4. EndAlike(s)
      BY <1>0, <2>0, <2>3, EndsAlike
    <2>5. On(r, s) /\ Busy(r, s)
      BY <2>3, <2>s DEF On, Busy
    <2>6. ~(side'[s].idly = TRUE /\ side'[s].slipped = FALSE)
      BY <2>2, <2>3, <2>4, <2>5 DEF TurnOf, Quieted, EndAlike
    <2>7. /\ \A q \in Runners : Busy(q, s)' => Busy(q, s)
          /\ runner'[r].pc = "rest" => ~(Busy(r, s)')
      BY <2>1, <2>3, <2>5 DEF Busy, OnlyRunner
    <2>8. TurnOf(s)'
      <3>1. Started(s)' /\ Quieted(s)'
        BY <2>1, <2>2, <2>5, <2>6 DEF TurnOf, Started, Quieted
      <3>2. Single(s)'
        <4>1. /\ Single(s)
              /\ side[s].slipped = FALSE
                   => /\ side[s].running = TRUE
                      /\ \A p, q \in Runners : Busy(p, s) /\ Busy(q, s) => p = q
          BY <2>2, <2>5 DEF TurnOf, Single
        <4>2. side[s].slipped = FALSE =>
                \A p, q \in Runners : Busy(p, s)' /\ Busy(q, s)' => p = q
          BY <2>7, <4>1
        <4>3. side[s].slipped = FALSE =>
                \A q \in Runners : Busy(q, s)' => side'[s].running = TRUE
          <5>1. CASE runner'[r].pc = "rest"
            BY <2>5, <2>7, <4>1, <5>1
          <5>2. CASE runner'[r].pc # "rest"
            BY <2>3, <4>1, <5>2
          <5> QED
            BY <5>1, <5>2
        <4> QED
          BY <2>3, <4>2, <4>3 DEF Single
      <3>3. Drained(s)'
        BY <2>2, <2>3, <2>4 DEF TurnOf, Drained, EndAlike
      <3>4. Driven(s)'
        BY <2>3 DEF Driven, Drives
      <3> QED
        BY <3>1, <3>2, <3>3, <3>4 DEF TurnOf
    <2>9. \A q : q # s => RunsAlike(q)
      BY <2>1, <2>3, <2>5, RunsOfOthers
    <2> QED
      BY <2>0, <2>1, <2>3, <2>8, <2>9, OtherTurns DEF Only
  <1>Rests. ASSUME NEW r \in Runners, Rests(r)
           PROVE  Turns'
    <2>s. PICK s \in Sides : s = runner[r].side
      BY <1>Rests, RestsSteps
    <2>0. s \in Made /\ UNCHANGED made /\ RestsEffect(r)
      BY <1>0, <1>Rests, <2>s, RestsSteps, RestsFrame DEF ThreadsSame
    <2>1. OnlyRunner(r) /\ UNCHANGED starter
      BY <2>0 DEF RestsEffect
    <2>2. TurnOf(s)
      BY <1>0, <2>0
    <2>3. /\ runner[r].pc = "rest" /\ runner'[r] = Free
          /\ Only(s) /\ EndsStay
          /\ side'[s].waiting = side[s].waiting /\ side'[s].running = FALSE
          /\ side'[s].slipped = FALSE =>
               /\ side[s].slipped = FALSE
               /\ \A q \in Runners : q # r => ~Busy(q, s)
      BY <2>0, <2>s DEF RestsEffect
    <2>4. EndAlike(s) /\ Free.pc = "free"
      BY <1>0, <2>0, <2>3, EndsAlike DEF Free
    <2>5. On(r, s)
      BY <2>3, <2>s DEF On
    <2>6. \A q \in Runners : Busy(q, s)' => q # r /\ Busy(q, s)
      BY <2>1, <2>3, <2>4 DEF Busy, OnlyRunner
    <2>7. Drives(s) => Drives(s)'
      BY <2>1, <2>3 DEF Drives, OnlyRunner
    <2>8. TurnOf(s)'
      <3>1. Started(s)' /\ Driven(s)'
        BY <2>1, <2>2, <2>3, <2>4, <2>5, <2>7
        DEF TurnOf, Started, Driven, EndAlike
      <3>2. Single(s)'
        BY <2>3, <2>6 DEF Single
      <3>3. Quieted(s)' /\ Drained(s)'
        BY <2>1, <2>2, <2>3, <2>4, <2>6 DEF TurnOf, Quieted, Drained, EndAlike
      <3> QED
        BY <3>1, <3>2, <3>3 DEF TurnOf
    <2>9. \A q : q # s => RunsAlike(q)
      BY <2>1, <2>3, <2>5, RunsOfOthers
    <2> QED
      BY <2>0, <2>1, <2>3, <2>8, <2>9, OtherTurns DEF Only
  <1>Publish. ASSUME NEW k \in Callers, Publish(k)
             PROVE  Turns'
    <2>0. UNCHANGED <<runner, starter>>
      BY <1>Publish, PublishSteps DEF PublishEffect
    <2>1. ASSUME NEW q \in Made
          PROVE  TurnOf(q)'
      <3>1. side'[q] = side[q]
        BY <1>Publish, PublishMakes
      <3>2. EndAlike(q) /\ QueueAlike(q)
        BY <3>1, AnsweringStays DEF EndAlike, QueueAlike
      <3> QED
        BY <1>0, <2>0, <3>2, RunnersStay, TurnAlike
    <2>2. ASSUME NEW q, q = made', made' # made
          PROVE  TurnOf(q)'
      <3>1. /\ side'[q].phase = "open" /\ side'[q].running = TRUE
            /\ side'[q].idly = FALSE
            /\ q \in Sides /\ q \notin Made
        BY <1>0, <1>Publish, <2>2, PublishSteps, PublishMakes
        DEF PublishEffect, Made
      <3>2. starter'[q] = "none"
        BY <2>0, <3>1, Whom
      <3>3. \A r \in Runners : ~(On(r, q)') /\ ~(Busy(r, q)')
        BY <2>0, <3>1, Whom DEF On, Busy
      <3> QED
        BY <3>1, <3>2, <3>3
        DEF TurnOf, Driven, Started, Single, Quieted, Drained
    <2>3. \A q \in Made' : q \in Made \/ (made' # made /\ q = made')
      BY <1>Publish, PublishMakes
    <2>4. \A q \in Made' : TurnOf(q)'
      BY <2>1, <2>2, <2>3
    <2> QED
      BY <2>4
      DEF Turns, TurnOf, Driven, Started, Single, Quieted, Drained, On
  <1>Say. ASSUME NEW k \in Callers, Say(k)
         PROVE  Turns'
    <2>a. PICK s \in Sides : s = caller[k].side
      BY <1>Say, SaySteps
    <2>b. PICK l \in Lines : l = caller[k].line
      BY <1>Say, SaySteps
    <2>0. s \in Made /\ UNCHANGED made /\ SayEffect(k, s, l) /\ TurnOf(s)
      BY <1>0, <1>Say, <2>a, <2>b, SaySteps, SayFrame DEF ThreadsSame
    <2>1. /\ Only(s) /\ EndsStay /\ At(k, "say")
          /\ \A q \in Sides : q # s => starter'[q] = starter[q]
          /\ side'[s].slipped = side[s].slipped
          /\ starter'[s] = IF caller[k].lease = -1 THEN starter[s]
                           ELSE "building"
      BY <2>0 DEF SayEffect
    <2>2. EndAlike(s)
      BY <1>0, <2>0, <2>1, EndsAlike
    <2>3. \/ starter'[s] = starter[s]
          \/ starter[s] = "none" /\ starter'[s] = "building"
      BY <2>1, <2>a DEF Agents, Owns, At
    <2>4. ASSUME QueueAlike(s), UNCHANGED runner
          PROVE  Turns'
      <3>1. CASE starter'[s] = starter[s]
        BY <2>0, <2>1, <2>2, <2>4, <3>1, RunnersStay, TurnAlike, OtherTurns
        DEF Only
      <3>2. CASE starter[s] = "none" /\ starter'[s] = "building"
        <4>1. Driven(s)' /\ Started(s)'
          BY <2>0, <2>4, <3>2 DEF TurnOf, Driven, Started, QueueAlike, On
        <4>2. Single(s)' /\ Quieted(s)' /\ Drained(s)'
          BY <2>0, <2>2, <2>4, <3>2
          DEF TurnOf, Single, Quieted, Drained, QueueAlike, EndAlike, Busy
        <4>3. TurnOf(s)'
          BY <4>1, <4>2 DEF TurnOf
        <4> QED
          BY <2>0, <2>1, <2>4, <4>3, RunnersStay, OtherTurns DEF Only
      <3> QED
        BY <2>3, <3>1, <3>2
    <2>5. ASSUME side[s].phase # "parking"
          PROVE  Quieted(s)' /\ Drained(s)'
      BY <1>0, <2>0, <2>1, <2>5 DEF Quieted, Drained, EndsStay
    <2>6. ASSUME side[s].phase # "parking", side[s].running = TRUE,
                 side'[s].running = TRUE, UNCHANGED runner
          PROVE  Turns'
      <3>1. Driven(s)'
        BY <2>0, <2>2, <2>3, <2>6 DEF TurnOf, Driven, EndAlike, Drives
      <3>2. Started(s)'
        BY <2>0, <2>3, <2>6 DEF TurnOf, Started, On
      <3>3. Single(s)'
        BY <2>0, <2>1, <2>6 DEF TurnOf, Single, Busy
      <3>4. TurnOf(s)'
        BY <2>5, <2>6, <3>1, <3>2, <3>3 DEF TurnOf
      <3> QED
        BY <2>0, <2>1, <2>6, <3>4, RunnersStay, OtherTurns DEF Only
    <2>7. ASSUME side[s].phase # "parking", side[s].running = FALSE,
                 side'[s].running = TRUE, NEW r \in Runners,
                 runner[r].pc = "free", OnlyRunner(r),
                 runner'[r].pc = "door", runner'[r].side = s
          PROVE  Turns'
      <3>1. Driven(s)'
        BY <2>7 DEF Driven, Drives
      <3>2. Started(s)'
        BY <2>0, <2>3, <2>7 DEF TurnOf, Started
      <3>3. Single(s)'
        BY <2>0, <2>1, <2>7 DEF TurnOf, Single, Busy, OnlyRunner
      <3>4. TurnOf(s)'
        BY <2>5, <2>7, <3>1, <3>2, <3>3 DEF TurnOf
      <3>5. \A q : q # s => RunsAlike(q)
        BY <2>7, RunsOfOthers
      <3> QED
        BY <2>0, <2>1, <3>4, <3>5, OtherTurns DEF Only
    <2>8. CASE QueuesStay /\ UNCHANGED runner
      BY <2>4, <2>8 DEF QueuesStay, QueueAlike
    <2> QED
      BY <2>0, <2>6, <2>7, <2>8 DEF SayEffect
  <1>Stop. ASSUME NEW s \in Sides, Stop(s)
          PROVE  Turns'
    <2>0. s \in Made /\ s \in Sides /\ UNCHANGED made /\ StopEffect(s)
      BY <1>0, <1>Stop, StopSteps, StopFrame DEF ThreadsSame
    <2>1. /\ Only(s) /\ UNCHANGED <<runner, starter>> /\ EndsStay
          /\ side'[s].waiting = <<>> /\ side'[s].running = side[s].running
          /\ side'[s].slipped = side[s].slipped
      BY <2>0 DEF StopEffect, tasks
    <2>2. EndAlike(s) /\ TurnOf(s)
      BY <1>0, <2>0, <2>1, EndsAlike
    <2>3. Driven(s)' /\ Started(s)' /\ Single(s)'
      BY <2>1, <2>2
      DEF TurnOf, Driven, Started, Single, EndAlike, Drives, On, Busy
    <2>4. Quieted(s)' /\ Drained(s)'
      BY <2>1, <2>2 DEF TurnOf, Quieted, Drained, EndAlike, Busy
    <2>5. TurnOf(s)'
      BY <2>3, <2>4 DEF TurnOf
    <2> QED
      BY <2>0, <2>1, <2>5, RunnersStay, OtherTurns DEF Only
  <1> QED
    BY TurnsMoves, <1>Rest, <1>LetGo, <1>WriteEnd, <1>Leave, <1>Built,
       <1>LooksUp, <1>TakesFirst,
       <1>StartFails, <1>Begin, <1>EndTurn, <1>Stops, <1>NextLine, <1>Rests,
       <1>Publish, <1>Say, <1>Stop
-----------------------------------------------------------------------------
(* Every step keeps LosesNothing: what an ending empties a queue of is     *)
(* dropped or refused by name.                                             *)
LEMMA RangeHolds ==
  ASSUME SideTypes, NEW s \in Sides, NEW l
  PROVE  l \in Range(side[s].waiting) <=> Holds(s, l)
  <1>1. side[s].waiting \in Seq(Lines)
    BY DEF SideTypes, LiveSides
  <1> QED
    BY <1>1 DEF Range, Holds

LEMMA LetGoFates ==
  ASSUME SideTypes, LineTypes, NEW s \in Sides, LetGo(s), NEW l \in Lines
  PROVE  lines'[l] = IF Holds(s, l) THEN Dropped(s) ELSE lines[l]
  BY RangeHolds DEF LetGo, Fate, LineTypes

LEMMA StopFates ==
  ASSUME SideTypes, LineTypes, NEW s \in Sides, Stop(s), NEW l \in Lines
  PROVE  lines'[l] = IF Holds(s, l) THEN "dropped" ELSE lines[l]
  BY RangeHolds DEF Stop, Fate, LineTypes

LEMMA LinesFrom ==
  ASSUME LosesNothing, \A l \in Lines : lines'[l] = lines[l] \/ lines'[l] # "lost"
  PROVE  LosesNothing'
  BY DEF LosesNothing

LEMMA LosesNothingMoves ==
  ASSUME Types, Known, MapAgrees, Next
  PROVE  \/ LinesSame
         \/ \E s \in Sides : LetGo(s)
         \/ \E r \in Runners : Begin(r)
         \/ \E k \in Callers : Looks(k)
         \/ \E k \in Callers : Reserve(k)
         \/ \E k \in Callers : Publish(k)
         \/ \E k \in Callers : Say(k)
         \/ \E k \in Callers, t \in Threads, l \in Lines, c \in BOOLEAN : Ask(k, t, l, c)
         \/ \E k \in Callers, t \in Threads, l \in Lines : Open(k, t, l)
         \/ \E s \in Sides : Stop(s)
  BY WriteEndFrame, LeaveFrame, MarkedFrame, BuiltFrame, LooksUpFrame,
     TakesFirstFrame, StartFailsFrame, DropFrame, EndTurnFrame, StopsFrame,
     NextLineFrame, RestsFrame, ReopenFrame, AdmittedFrame, EvictFrame,
     EvictedFrame, MarksLiveFrame, BroughtUpFrame, ArchiveOwedFrame,
     DropsFrame, ParkFrame, ArchiveFrame, MarkFrame, InvalidateFrame,
     ReattachFrame
  DEF Next, Owed, AgentSteps, Going, Start, RunQueue, Call

LEMMA LosesNothingKept ==
  ASSUME Types, Known, MapAgrees, Turns, LosesNothing, Next
  PROVE  LosesNothing'
  <1>Rest. CASE LinesSame
    BY <1>Rest DEF LinesSame, LosesNothing
  <1>LetGo. ASSUME NEW s \in Sides, LetGo(s)
           PROVE  LosesNothing'
    <2>1. s \in Made /\ Settled
      BY <1>LetGo, LetGoSteps, Whom
    <2>2. ASSUME NEW l \in Lines, Holds(s, l)
          PROVE  Dropped(s) # "lost"
      <3>1. side[s].waiting # <<>>
        BY <2>2 DEF Holds
      <3>2. TurnOf(s)
        BY <2>1, TurnsParts
      <3>3. side[s].idly \in BOOLEAN /\ side[s].slipped \in BOOLEAN
        BY <2>1 DEF Settled, SideTypes, LiveSides
      <3> QED
        BY <3>1, <3>2, <3>3 DEF TurnOf, Quieted, Dropped
    <2>3. \A l \in Lines : lines'[l] = lines[l] \/ lines'[l] # "lost"
      BY <1>LetGo, <2>1, <2>2, LetGoFates DEF Settled
    <2> QED
      BY <2>3, LinesFrom
  <1>Begin. ASSUME NEW r \in Runners, Begin(r)
           PROVE  LosesNothing'
    <2>s. PICK s \in Sides : s = runner[r].side
      BY <1>Begin, BeginSteps
    <2>1. /\ s \in Made /\ runner[r].pc = "door"
          /\ LinesStay(runner[r].line)
          /\ lines'[runner[r].line] \in {"heard", Dropped(s)}
      BY <1>Begin, <2>s, BeginSteps DEF BeginEffect
    <2>2. Dropped(s) # "lost"
      <3>1. Busy(r, s)
        BY <2>s, <2>1 DEF Busy
      <3>2. TurnOf(s)
        BY <2>1, TurnsParts
      <3>3. side[s].idly \in BOOLEAN /\ side[s].slipped \in BOOLEAN
        BY <2>1, Whom DEF Settled, SideTypes, LiveSides
      <3> QED
        BY <3>1, <3>2, <3>3 DEF TurnOf, Quieted, Dropped
    <2>3. \A l \in Lines : lines'[l] = lines[l] \/ lines'[l] # "lost"
      BY <2>1, <2>2 DEF LinesStay
    <2> QED
      BY <2>3, LinesFrom
  <1>Looks. ASSUME NEW k \in Callers, Looks(k)
           PROVE  LosesNothing'
    <2>1. \A m \in Lines : lines'[m] = lines[m] \/ lines'[m] # "lost"
      BY <1>Looks, LooksSteps DEF LooksEffect, LinesStay
    <2> QED
      BY <2>1, LinesFrom
  <1>Reserve. ASSUME NEW k \in Callers, Reserve(k)
             PROVE  LosesNothing'
    <2>1. \A m \in Lines : lines'[m] = lines[m] \/ lines'[m] # "lost"
      BY <1>Reserve, ReserveSteps DEF ReserveEffect, LinesStay
    <2> QED
      BY <2>1, LinesFrom
  <1>Publish. ASSUME NEW k \in Callers, Publish(k)
             PROVE  LosesNothing'
    <2>1. \A m \in Lines : lines'[m] = lines[m] \/ lines'[m] # "lost"
      BY <1>Publish, PublishSteps DEF PublishEffect, LinesStay
    <2> QED
      BY <2>1, LinesFrom
  <1>Say. ASSUME NEW k \in Callers, Say(k)
         PROVE  LosesNothing'
    <2>1. \A m \in Lines : lines'[m] = lines[m] \/ lines'[m] # "lost"
      <3>1. PICK s \in Sides, l \in Lines : SayEffect(k, s, l)
        BY <1>Say, SaySteps
      <3> QED
        BY <3>1 DEF SayEffect, LinesStay
    <2> QED
      BY <2>1, LinesFrom
  <1>Ask. ASSUME NEW k \in Callers, NEW t \in Threads, NEW l \in Lines,
                 NEW c \in BOOLEAN, Ask(k, t, l, c)
         PROVE  LosesNothing'
    <2>1. \A m \in Lines : lines'[m] = lines[m] \/ lines'[m] # "lost"
      BY <1>Ask, AskSteps DEF AskEffect, LinesStay
    <2> QED
      BY <2>1, LinesFrom
  <1>Open. ASSUME NEW k \in Callers, NEW t \in Threads, NEW l \in Lines, Open(k, t, l)
          PROVE  LosesNothing'
    <2>1. \A m \in Lines : lines'[m] = lines[m] \/ lines'[m] # "lost"
      BY <1>Open, OpenSteps DEF OpenEffect, LinesStay
    <2> QED
      BY <2>1, LinesFrom
  <1>Stop. ASSUME NEW s \in Sides, Stop(s)
          PROVE  LosesNothing'
    <2>1. \A l \in Lines : lines'[l] = lines[l] \/ lines'[l] # "lost"
      BY <1>Stop, Whom, StopFates DEF Settled
    <2> QED
      BY <2>1, LinesFrom
  <1> QED
    BY LosesNothingMoves, <1>Rest, <1>LetGo, <1>Begin, <1>Looks, <1>Reserve,
       <1>Publish, <1>Say, <1>Ask,
       <1>Open, <1>Stop
-----------------------------------------------------------------------------
(* Every step keeps SaidIsPlaced: a line goes from its caller to a queue   *)
(* or to the task that carries it, and from a queue to a runner, with no   *)
(* step between.                                                           *)
InCalls(l) == \E k \in Callers : ~At(k, "idle") /\ caller[k].line = l
InCarried(l) == \E t \in Threads : <<t, l>> \in carried
AtDoor(l) == \E r \in Runners : runner[r].pc = "door" /\ runner[r].line = l
InQueues(l) == \E s \in Made : Holds(s, l)

LEMMA PlacedParts ==
  \A l : Placed(l) <=> InCalls(l) \/ InCarried(l) \/ AtDoor(l) \/ InQueues(l)
  BY DEF Placed, InCalls, InCarried, AtDoor, InQueues

(* What holds a line holds it still.                                       *)
CallsHold(l) == InCalls(l) => InCalls(l)'
CarriedHolds(l) == InCarried(l) => InCarried(l)'
DoorHolds(l) == AtDoor(l) => AtDoor(l)'
QueuesHold(l) == InQueues(l) => InQueues(l)'

LEMMA CallersHold ==
  ASSUME CallersSame
  PROVE  \A l : CallsHold(l)
  BY DEF CallersSame, CallsHold, InCalls, At

LEMMA CallerGoing ==
  ASSUME NEW k \in Callers, NEW pc, GoesOn(k, pc), pc # "idle"
  PROVE  \A l : CallsHold(l)
  BY DEF GoesOn, OnlyCaller, CallsHold, InCalls, At

LEMMA CallerBeginning ==
  ASSUME NEW k \in Callers, At(k, "idle"), NEW pc, NEW t, NEW m,
         Begun(k, pc, t, m), pc # "idle"
  PROVE  \A l : CallsHold(l) /\ InCalls(m)'
  <1>1. InCalls(m)'
    BY DEF Begun, InCalls, At
  <1>2. \A l : CallsHold(l)
    BY DEF Begun, OnlyCaller, CallsHold, InCalls, At
  <1> QED
    BY <1>1, <1>2

LEMMA CallerLeaving ==
  ASSUME NEW k \in Callers, Left(k)
  PROVE  \A l : l # caller[k].line => CallsHold(l)
  BY DEF Left, OnlyCaller, CallsHold, InCalls, At

LEMMA CarriedSo ==
  ASSUME carried \subseteq carried'
  PROVE  \A l : CarriedHolds(l)
  BY DEF CarriedHolds, InCarried

LEMMA RunnersHold ==
  ASSUME UNCHANGED runner
  PROVE  \A l : DoorHolds(l)
  BY DEF DoorHolds, AtDoor

LEMMA OtherRunnersHold ==
  ASSUME NEW r \in Runners, OnlyRunner(r)
  PROVE  \A l : runner[r].pc # "door" \/ l # runner[r].line => DoorHolds(l)
  BY DEF DoorHolds, AtDoor, OnlyRunner

LEMMA QueuesHeld ==
  ASSUME QueuesStay, UNCHANGED made, Made \subseteq Sides
  PROVE  \A l : QueuesHold(l)
  <1>1. \A s \in Made : \A l : Holds(s, l) => Holds(s, l)'
    BY DEF Holds, QueuesStay
  <1>2. Made' = Made
    BY DEF Made
  <1> QED
    BY <1>1, <1>2 DEF QueuesHold, InQueues

LEMMA OtherQueuesHold ==
  ASSUME Made \subseteq Sides, NEW s \in Made, Only(s), UNCHANGED made, NEW l,
         Holds(s, l) => Holds(s, l)'
  PROVE  QueuesHold(l)
  <1>1. \A q \in Made : q # s => (Holds(q, l) => Holds(q, l)')
    BY DEF Holds, Only
  <1>2. Made' = Made
    BY DEF Made
  <1> QED
    BY <1>1, <1>2 DEF QueuesHold, InQueues

LEMMA FirstTaken ==
  ASSUME SideTypes, NEW s \in Sides, side[s].waiting # <<>>,
         side'[s].waiting = Tail(side[s].waiting), NEW l, Holds(s, l),
         l # Head(side[s].waiting)
  PROVE  Holds(s, l)'
  <1> DEFINE w == side[s].waiting
  <1>1. w \in Seq(Lines) /\ w # <<>>
    BY DEF SideTypes, LiveSides
  <1>2. PICK i \in 1 .. Len(w) : w[i] = l
    BY DEF Holds
  <1> HIDE DEF w
  <1>3. i # 1 /\ i \in 1 .. Len(w) /\ w[1] = Head(w)
    BY <1>1, <1>2 DEF w
  <1>4. /\ Len(Tail(w)) = Len(w) - 1 /\ i - 1 \in 1 .. Len(Tail(w))
        /\ Tail(w)[i - 1] = w[i]
    BY <1>1, <1>3
  <1> QED
    BY <1>2, <1>4 DEF Holds, w

LEMMA LastAdded ==
  ASSUME SideTypes, NEW s \in Sides, NEW m \in Lines,
         side'[s].waiting = Append(side[s].waiting, m), NEW l,
         Holds(s, l) \/ l = m
  PROVE  Holds(s, l)'
  <1> DEFINE w == side[s].waiting
  <1>1. w \in Seq(Lines)
    BY DEF SideTypes, LiveSides
  <1>2. (\E i \in 1 .. Len(w) : w[i] = l) \/ l = m
    BY DEF Holds
  <1>3. side'[s].waiting = Append(w, m)
    OBVIOUS
  <1> HIDE DEF w
  <1>4. /\ Len(Append(w, m)) = Len(w) + 1
        /\ \A i \in 1 .. Len(w) : Append(w, m)[i] = w[i]
        /\ Append(w, m)[Len(w) + 1] = m
    BY <1>1
  <1>5. Len(w) \in Nat
    BY <1>1
  <1>6. \E i \in 1 .. Len(Append(w, m)) : Append(w, m)[i] = l
    BY <1>2, <1>4, <1>5
  <1> QED
    BY <1>3, <1>6 DEF Holds

LEMMA SaidStays ==
  ASSUME SaidIsPlaced, NEW l \in Lines, lines[l] = "said",
         CallsHold(l), CarriedHolds(l), DoorHolds(l), QueuesHold(l)
  PROVE  Placed(l)'
  <1>1. Placed(l)
    BY DEF SaidIsPlaced
  <1>2. InCalls(l) \/ InCarried(l) \/ AtDoor(l) \/ InQueues(l)
    BY <1>1, PlacedParts
  <1>3. InCalls(l)' \/ InCarried(l)' \/ AtDoor(l)' \/ InQueues(l)'
    BY <1>2 DEF CallsHold, CarriedHolds, DoorHolds, QueuesHold
  <1> QED
    BY <1>3 DEF Placed, InCalls, InCarried, AtDoor, InQueues

LEMMA SaidIsPlacedMoves ==
  ASSUME Types, Known, MapAgrees, Next
  PROVE  \/ CallersSame /\ CarriedSame /\ RunnersSame /\ QueuesStay /\ ThreadsSame /\ LinesSame
         \/ \E s \in Sides : LetGo(s)
         \/ \E s \in Sides : TakesFirst(s)
         \/ \E r \in Runners : Begin(r)
         \/ \E r \in Runners : EndTurn(r)
         \/ \E r \in Runners : Stops(r)
         \/ \E r \in Runners : NextLine(r)
         \/ \E r \in Runners : Rests(r)
         \/ \E k \in Callers : Reopen(k)
         \/ \E k \in Callers : Admitted(k)
         \/ \E k \in Callers : Looks(k)
         \/ \E k \in Callers : Reserve(k)
         \/ \E k \in Callers : Evict(k)
         \/ \E k \in Callers : Evicted(k)
         \/ \E k \in Callers : Publish(k)
         \/ \E k \in Callers : MarksLive(k)
         \/ \E k \in Callers : BroughtUp(k)
         \/ \E k \in Callers : Say(k)
         \/ \E k \in Callers, t \in Threads, l \in Lines, c \in BOOLEAN : Ask(k, t, l, c)
         \/ \E k \in Callers, t \in Threads, l \in Lines : Open(k, t, l)
         \/ \E s \in Sides : Stop(s)
  BY WriteEndFrame, LeaveFrame, MarkedFrame, BuiltFrame, LooksUpFrame,
     StartFailsFrame, DropFrame, ArchiveOwedFrame, DropsFrame, ParkFrame,
     ArchiveFrame, MarkFrame, InvalidateFrame, ReattachFrame
  DEF Next, Owed, AgentSteps, Going, Start, RunQueue, Call

LEMMA SaidIsPlacedKept ==
  ASSUME Types, Known, MapAgrees, SaidIsPlaced, Next
  PROVE  SaidIsPlaced'
  <1>0. /\ Made \subseteq Sides /\ SideTypes /\ LineTypes /\ SaidIsPlaced
        /\ \A s \in Made : side[s].thread \in Threads
    BY Whom DEF Settled, Known, SidesAgree
  <1>Rest. CASE CallersSame /\ CarriedSame /\ RunnersSame /\ QueuesStay /\ ThreadsSame /\ LinesSame
    <2>9. ASSUME NEW l \in Lines, lines'[l] = "said"
          PROVE  Placed(l)'
      BY <1>0, <1>Rest, <2>9, CallersHold, CarriedSo, RunnersHold, QueuesHeld,
         SaidStays
      DEF LinesSame, CarriedSame, RunnersSame, ThreadsSame
    <2> QED
      BY <2>9 DEF SaidIsPlaced
  <1>LetGo. ASSUME NEW s \in Sides, LetGo(s)
           PROVE  SaidIsPlaced'
    <2>f. \A m : CallsHold(m) /\ CarriedHolds(m) /\ DoorHolds(m)
      BY <1>0, <1>LetGo, LetGoFrame, CallersHold, CarriedSo, RunnersHold
      DEF CarriedSame, RunnersSame, ThreadsSame
    <2>1. s \in Made /\ Only(s) /\ UNCHANGED made
      BY <1>LetGo, LetGoSteps, LetGoFrame DEF LetGoEffect, ThreadsSame
    <2>9. ASSUME NEW l \in Lines, lines'[l] = "said"
          PROVE  Placed(l)'
      <3>1. ~Holds(s, l) /\ lines[l] = "said"
        BY <1>0, <1>LetGo, <2>9, LetGoFates DEF Dropped
      <3>2. QueuesHold(l)
        BY <1>0, <2>1, <3>1, OtherQueuesHold
      <3> QED
        BY <1>0, <2>f, <3>1, <3>2, SaidStays
    <2> QED
      BY <2>9 DEF SaidIsPlaced
  <1>TakesFirst. ASSUME NEW s \in Sides, TakesFirst(s)
                PROVE  SaidIsPlaced'
    <2>f. \A m : CallsHold(m) /\ CarriedHolds(m)
      BY <1>0, <1>TakesFirst, TakesFirstFrame, CallersHold, CarriedSo
      DEF CarriedSame, RunnersSame, ThreadsSame
    <2>e. s \in Made /\ TakesFirstEffect(s) /\ UNCHANGED <<made, lines>>
      BY <1>TakesFirst, TakesFirstSteps, TakesFirstFrame
      DEF ThreadsSame, LinesSame
    <2>1. /\ s \in Made /\ Only(s) /\ UNCHANGED <<made, lines>>
          /\ TakesFirstEffect(s)
      BY <2>e DEF TakesFirstEffect
    <2>9. ASSUME NEW l \in Lines, lines'[l] = "said"
          PROVE  Placed(l)'
      <3>1. lines[l] = "said"
        BY <2>1, <2>9
      <3>2. CASE UNCHANGED runner /\ side[s].waiting = <<>>
        <4>1. ~Holds(s, l)
          BY <3>2 DEF Holds
        <4>2. QueuesHold(l) /\ DoorHolds(l)
          BY <1>0, <2>1, <3>2, <4>1, OtherQueuesHold, RunnersHold
        <4> QED
          BY <1>0, <2>f, <3>1, <4>2, SaidStays
      <3>3. CASE side[s].waiting # <<>>
        <4>1. PICK r \in Runners :
                /\ runner[r].pc = "free" /\ OnlyRunner(r)
                /\ runner'[r].pc = "door"
                /\ runner'[r].line = Head(side[s].waiting)
          BY <2>1, <3>3 DEF TakesFirstEffect
        <4>2. side'[s].waiting = Tail(side[s].waiting)
          BY <2>1, <3>3 DEF TakesFirstEffect
        <4>3. DoorHolds(l)
          BY <4>1, OtherRunnersHold
        <4>4. CASE l = Head(side[s].waiting)
          BY <4>1, <4>4 DEF Placed
        <4>5. CASE l # Head(side[s].waiting)
          <5>1. QueuesHold(l)
            BY <1>0, <2>1, <3>3, <4>2, <4>5, FirstTaken, OtherQueuesHold
          <5> QED
            BY <1>0, <2>f, <3>1, <4>3, <5>1, SaidStays
        <4> QED
          BY <4>4, <4>5
      <3> QED
        BY <2>1, <3>2, <3>3 DEF TakesFirstEffect
    <2> QED
      BY <2>9 DEF SaidIsPlaced
  <1>Begin. ASSUME NEW r \in Runners, Begin(r)
           PROVE  SaidIsPlaced'
    <2>f. \A m : CallsHold(m) /\ CarriedHolds(m) /\ QueuesHold(m)
      BY <1>0, <1>Begin, BeginFrame, CallersHold, CarriedSo, QueuesHeld
      DEF CarriedSame, RunnersSame, ThreadsSame
    <2>s. PICK s \in Sides : s = runner[r].side
      BY <1>Begin, BeginSteps
    <2>1. /\ OnlyRunner(r) /\ LinesStay(runner[r].line)
          /\ lines'[runner[r].line] \in {"heard", Dropped(s)}
      BY <1>Begin, <2>s, BeginSteps DEF BeginEffect
    <2>9. ASSUME NEW l \in Lines, lines'[l] = "said"
          PROVE  Placed(l)'
      <3>1. l # runner[r].line /\ lines[l] = "said"
        BY <2>1, <2>9 DEF LinesStay, Dropped
      <3>2. DoorHolds(l)
        BY <2>1, <3>1, OtherRunnersHold
      <3> QED
        BY <1>0, <2>f, <3>1, <3>2, SaidStays
    <2> QED
      BY <2>9 DEF SaidIsPlaced
  <1>EndTurn. ASSUME NEW r \in Runners, EndTurn(r)
             PROVE  SaidIsPlaced'
    <2>f. \A m : CallsHold(m) /\ CarriedHolds(m) /\ QueuesHold(m)
      BY <1>0, <1>EndTurn, EndTurnFrame, CallersHold, CarriedSo, QueuesHeld
      DEF CarriedSame, RunnersSame, ThreadsSame
    <2>1. OnlyRunner(r) /\ runner[r].pc # "door" /\ UNCHANGED lines
      BY <1>EndTurn, EndTurnSteps DEF EndTurnEffect
    <2>9. ASSUME NEW l \in Lines, lines'[l] = "said"
          PROVE  Placed(l)'
      BY <1>0, <2>1, <2>9, <2>f, OtherRunnersHold, SaidStays
    <2> QED
      BY <2>9 DEF SaidIsPlaced
  <1>Stops. ASSUME NEW r \in Runners, Stops(r)
           PROVE  SaidIsPlaced'
    <2>f. \A m : CallsHold(m) /\ CarriedHolds(m) /\ QueuesHold(m)
      BY <1>0, <1>Stops, StopsFrame, CallersHold, CarriedSo, QueuesHeld
      DEF CarriedSame, RunnersSame, ThreadsSame
    <2>1. OnlyRunner(r) /\ runner[r].pc # "door" /\ UNCHANGED lines
      BY <1>Stops, StopsSteps DEF StopsEffect
    <2>9. ASSUME NEW l \in Lines, lines'[l] = "said"
          PROVE  Placed(l)'
      BY <1>0, <2>1, <2>9, <2>f, OtherRunnersHold, SaidStays
    <2> QED
      BY <2>9 DEF SaidIsPlaced
  <1>NextLine. ASSUME NEW r \in Runners, NextLine(r)
              PROVE  SaidIsPlaced'
    <2>s. PICK s \in Sides : s = runner[r].side
      BY <1>NextLine, NextLineSteps
    <2>f. \A m : CallsHold(m) /\ CarriedHolds(m)
      BY <1>0, <1>NextLine, NextLineFrame, CallersHold, CarriedSo
      DEF CarriedSame, RunnersSame, ThreadsSame
    <2>1. s \in Made /\ Only(s) /\ UNCHANGED <<made, lines>> /\ OnlyRunner(r)
          /\ runner[r].pc = "next" /\ NextLineEffect(r)
      BY <1>NextLine, <2>s, NextLineSteps, NextLineFrame
      DEF NextLineEffect, ThreadsSame
    <2>9. ASSUME NEW l \in Lines, lines'[l] = "said"
          PROVE  Placed(l)'
      <3>1. lines[l] = "said" /\ DoorHolds(l)
        BY <2>1, <2>9, OtherRunnersHold
      <3>2. CASE side[s].waiting = <<>>
        <4>1. ~Holds(s, l)
          BY <3>2 DEF Holds
        <4>2. QueuesHold(l)
          BY <1>0, <2>1, <4>1, OtherQueuesHold
        <4> QED
          BY <1>0, <2>f, <3>1, <4>2, SaidStays
      <3>3. CASE side[s].waiting # <<>>
        <4>1. /\ runner'[r].pc = "door"
              /\ runner'[r].line = Head(side[s].waiting)
              /\ side'[s].waiting = Tail(side[s].waiting)
          BY <2>1, <2>s, <3>3 DEF NextLineEffect
        <4>4. CASE l = Head(side[s].waiting)
          BY <4>1, <4>4 DEF Placed
        <4>5. CASE l # Head(side[s].waiting)
          <5>1. QueuesHold(l)
            BY <1>0, <2>1, <3>3, <4>1, <4>5, FirstTaken, OtherQueuesHold
          <5> QED
            BY <1>0, <2>f, <3>1, <5>1, SaidStays
        <4> QED
          BY <4>4, <4>5
      <3> QED
        BY <3>2, <3>3
    <2> QED
      BY <2>9 DEF SaidIsPlaced
  <1>Rests. ASSUME NEW r \in Runners, Rests(r)
           PROVE  SaidIsPlaced'
    <2>s. PICK s \in Sides : s = runner[r].side
      BY <1>Rests, RestsSteps
    <2>f. \A m : CallsHold(m) /\ CarriedHolds(m)
      BY <1>0, <1>Rests, RestsFrame, CallersHold, CarriedSo
      DEF CarriedSame, RunnersSame, ThreadsSame
    <2>1. /\ OnlyRunner(r) /\ runner[r].pc # "door" /\ UNCHANGED <<lines, made>>
          /\ s \in Made /\ Only(s) /\ side'[s].waiting = side[s].waiting
      BY <1>Rests, <2>s, RestsSteps, RestsFrame DEF RestsEffect, ThreadsSame
    <2>9. ASSUME NEW l \in Lines, lines'[l] = "said"
          PROVE  Placed(l)'
      <3>1. Holds(s, l) => Holds(s, l)'
        BY <2>1 DEF Holds
      <3>2. QueuesHold(l)
        BY <1>0, <2>1, <3>1, OtherQueuesHold
      <3> QED
        BY <1>0, <2>1, <2>9, <2>f, <3>2, OtherRunnersHold, SaidStays
    <2> QED
      BY <2>9 DEF SaidIsPlaced
  <1>Reopen. ASSUME NEW k \in Callers, Reopen(k)
            PROVE  SaidIsPlaced'
    <2>f. \A m : DoorHolds(m) /\ QueuesHold(m)
      BY <1>0, <1>Reopen, ReopenFrame, RunnersHold, QueuesHeld
      DEF CarriedSame, RunnersSame, ThreadsSame
    <2>1. PICK t \in Threads, l \in Lines :
            carried' = carried \ {<<t, l>>} /\ Begun(k, "knock", t, l)
      BY <1>Reopen, ReopenSteps DEF ReopenEffect
    <2>2. At(k, "idle") /\ UNCHANGED lines
      BY <1>Reopen, ReopenSteps DEF ReopenEffect
    <2>3. \A m : CallsHold(m) /\ InCalls(l)'
      BY <2>1, <2>2, CallerBeginning
    <2>9. ASSUME NEW m \in Lines, lines'[m] = "said"
          PROVE  Placed(m)'
      <3>1. CASE m = l
        BY <2>3, <3>1 DEF Placed, InCalls
      <3>2. CASE m # l
        <4>1. CarriedHolds(m)
          BY <2>1, <3>2 DEF CarriedHolds, InCarried
        <4> QED
          BY <1>0, <2>2, <2>3, <2>9, <2>f, <4>1, SaidStays
      <3> QED
        BY <3>1, <3>2
    <2> QED
      BY <2>9 DEF SaidIsPlaced
  <1>Admitted. ASSUME NEW k \in Callers, Admitted(k)
              PROVE  SaidIsPlaced'
    <2>f. \A m : CarriedHolds(m) /\ DoorHolds(m) /\ QueuesHold(m)
      BY <1>0, <1>Admitted, AdmittedFrame, CarriedSo, RunnersHold, QueuesHeld
      DEF CarriedSame, RunnersSame, ThreadsSame
    <2>1. /\ UNCHANGED lines
          /\ \E pc \in {"look", "reserve", "evicting", "marked", "say"} : GoesOn(k, pc)
      BY <1>Admitted, AdmittedSteps DEF AdmittedEffect, GoesOnAlike
    <2>2. \A m : CallsHold(m)
      BY <2>1, CallerGoing
    <2>9. ASSUME NEW l \in Lines, lines'[l] = "said"
          PROVE  Placed(l)'
      BY <1>0, <2>1, <2>2, <2>9, <2>f, SaidStays
    <2> QED
      BY <2>9 DEF SaidIsPlaced
  <1>Looks. ASSUME NEW k \in Callers, Looks(k)
           PROVE  SaidIsPlaced'
    <2>f. \A m : CarriedHolds(m) /\ DoorHolds(m) /\ QueuesHold(m)
      BY <1>0, <1>Looks, LooksFrame, CarriedSo, RunnersHold, QueuesHeld
      DEF CarriedSame, RunnersSame, ThreadsSame
    <2>1. \/ /\ UNCHANGED lines
             /\ \E pc \in {"reserve", "evict", "publish", "say"} : GoesOn(k, pc)
          \/ /\ Left(k) /\ lines'[caller[k].line] = "refused"
             /\ LinesStay(caller[k].line)
      BY <1>Looks, LooksSteps DEF LooksEffect, GoesOnAlike
    <2>9. ASSUME NEW l \in Lines, lines'[l] = "said"
          PROVE  Placed(l)'
      <3>1. lines[l] = "said" /\ CallsHold(l)
        BY <2>1, <2>9, CallerGoing, CallerLeaving DEF LinesStay
      <3> QED
        BY <1>0, <2>f, <3>1, SaidStays
    <2> QED
      BY <2>9 DEF SaidIsPlaced
  <1>Reserve. ASSUME NEW k \in Callers, Reserve(k)
             PROVE  SaidIsPlaced'
    <2>f. \A m : CarriedHolds(m) /\ DoorHolds(m) /\ QueuesHold(m)
      BY <1>0, <1>Reserve, ReserveFrame, CarriedSo, RunnersHold, QueuesHeld
      DEF CarriedSame, RunnersSame, ThreadsSame
    <2>1. \/ /\ UNCHANGED lines
             /\ \E pc \in {"reserve", "evict", "publish", "say"} : GoesOn(k, pc)
          \/ /\ Left(k) /\ lines'[caller[k].line] = "refused"
             /\ LinesStay(caller[k].line)
      BY <1>Reserve, ReserveSteps DEF ReserveEffect, GoesOnAlike
    <2>9. ASSUME NEW l \in Lines, lines'[l] = "said"
          PROVE  Placed(l)'
      <3>1. lines[l] = "said" /\ CallsHold(l)
        BY <2>1, <2>9, CallerGoing, CallerLeaving DEF LinesStay
      <3> QED
        BY <1>0, <2>f, <3>1, SaidStays
    <2> QED
      BY <2>9 DEF SaidIsPlaced
  <1>Evict. ASSUME NEW k \in Callers, Evict(k)
           PROVE  SaidIsPlaced'
    <2>f. \A m : CarriedHolds(m) /\ DoorHolds(m) /\ QueuesHold(m)
      BY <1>0, <1>Evict, EvictFrame, CarriedSo, RunnersHold, QueuesHeld
      DEF CarriedSame, RunnersSame, ThreadsSame
    <2>1. /\ UNCHANGED lines
          /\ \E pc \in {"look", "reserve", "evicting", "marked", "say"} : GoesOn(k, pc)
      BY <1>Evict, EvictSteps DEF EvictEffect, GoesOnAlike
    <2>2. \A m : CallsHold(m)
      BY <2>1, CallerGoing
    <2>9. ASSUME NEW l \in Lines, lines'[l] = "said"
          PROVE  Placed(l)'
      BY <1>0, <2>1, <2>2, <2>9, <2>f, SaidStays
    <2> QED
      BY <2>9 DEF SaidIsPlaced
  <1>Evicted. ASSUME NEW k \in Callers, Evicted(k)
             PROVE  SaidIsPlaced'
    <2>f. \A m : CarriedHolds(m) /\ DoorHolds(m) /\ QueuesHold(m)
      BY <1>0, <1>Evicted, EvictedFrame, CarriedSo, RunnersHold, QueuesHeld
      DEF CarriedSame, RunnersSame, ThreadsSame
    <2>1. /\ UNCHANGED lines
          /\ \E pc \in {"look", "reserve", "evicting", "marked", "say"} : GoesOn(k, pc)
      BY <1>Evicted, EvictedSteps DEF EvictedEffect, GoesOnAlike
    <2>2. \A m : CallsHold(m)
      BY <2>1, CallerGoing
    <2>9. ASSUME NEW l \in Lines, lines'[l] = "said"
          PROVE  Placed(l)'
      BY <1>0, <2>1, <2>2, <2>9, <2>f, SaidStays
    <2> QED
      BY <2>9 DEF SaidIsPlaced
  <1>Publish. ASSUME NEW k \in Callers, Publish(k)
             PROVE  SaidIsPlaced'
    <2>f. \A m : CarriedHolds(m) /\ DoorHolds(m)
      BY <1>0, <1>Publish, PublishFrame, CarriedSo, RunnersHold
      DEF CarriedSame, RunnersSame, ThreadsSame
    <2>1. \/ /\ UNCHANGED lines /\ GoesOn(k, "mark")
          \/ /\ Left(k) /\ lines'[caller[k].line] = "refused"
             /\ LinesStay(caller[k].line)
      BY <1>Publish, PublishSteps DEF PublishEffect
    <2>2. \A s \in Made : s \in Made' /\ side'[s] = side[s]
      BY <1>Publish, PublishMakes
    <2>3. \A m : QueuesHold(m)
      BY <2>2 DEF QueuesHold, InQueues, Holds
    <2>9. ASSUME NEW l \in Lines, lines'[l] = "said"
          PROVE  Placed(l)'
      <3>1. lines[l] = "said" /\ CallsHold(l)
        BY <2>1, <2>9, CallerGoing, CallerLeaving DEF LinesStay
      <3> QED
        BY <1>0, <2>3, <2>f, <3>1, SaidStays
    <2> QED
      BY <2>9 DEF SaidIsPlaced
  <1>MarksLive. ASSUME NEW k \in Callers, MarksLive(k)
               PROVE  SaidIsPlaced'
    <2>f. \A m : CarriedHolds(m) /\ DoorHolds(m) /\ QueuesHold(m)
      BY <1>0, <1>MarksLive, MarksLiveFrame, CarriedSo, RunnersHold, QueuesHeld
      DEF CarriedSame, RunnersSame, ThreadsSame
    <2>1. /\ UNCHANGED lines
          /\ \E pc \in {"look", "reserve", "evicting", "marked", "say"} : GoesOn(k, pc)
      BY <1>MarksLive, MarksLiveSteps DEF MarksLiveEffect, GoesOnAlike
    <2>2. \A m : CallsHold(m)
      BY <2>1, CallerGoing
    <2>9. ASSUME NEW l \in Lines, lines'[l] = "said"
          PROVE  Placed(l)'
      BY <1>0, <2>1, <2>2, <2>9, <2>f, SaidStays
    <2> QED
      BY <2>9 DEF SaidIsPlaced
  <1>BroughtUp. ASSUME NEW k \in Callers, BroughtUp(k)
               PROVE  SaidIsPlaced'
    <2>f. \A m : CarriedHolds(m) /\ DoorHolds(m) /\ QueuesHold(m)
      BY <1>0, <1>BroughtUp, BroughtUpFrame, CarriedSo, RunnersHold, QueuesHeld
      DEF CarriedSame, RunnersSame, ThreadsSame
    <2>1. /\ UNCHANGED lines
          /\ \E pc \in {"look", "reserve", "evicting", "marked", "say"} : GoesOn(k, pc)
      BY <1>BroughtUp, BroughtUpSteps DEF BroughtUpEffect, GoesOnAlike
    <2>2. \A m : CallsHold(m)
      BY <2>1, CallerGoing
    <2>9. ASSUME NEW l \in Lines, lines'[l] = "said"
          PROVE  Placed(l)'
      BY <1>0, <2>1, <2>2, <2>9, <2>f, SaidStays
    <2> QED
      BY <2>9 DEF SaidIsPlaced
  <1>Say. ASSUME NEW k \in Callers, Say(k)
         PROVE  SaidIsPlaced'
    <2>a. PICK s \in Sides : s = caller[k].side
      BY <1>Say, SaySteps
    <2>b. PICK l \in Lines : l = caller[k].line
      BY <1>Say, SaySteps
    <2>1. /\ s \in Made /\ UNCHANGED made /\ SayEffect(k, s, l)
          /\ side[s].thread \in Threads
      BY <1>0, <1>Say, <2>a, <2>b, SaySteps, SayFrame DEF ThreadsSame
    <2>2. Left(k) /\ Only(s)
      BY <2>1 DEF SayEffect
    <2>3. \A m : m # l => CallsHold(m)
      BY <2>2, <2>b, CallerLeaving
    <2>4. carried \subseteq carried'
      BY <2>1 DEF SayEffect
    <2>5. \A m : DoorHolds(m)
      <3>1. UNCHANGED runner \/ \E r \in Runners : runner[r].pc = "free" /\ OnlyRunner(r)
        BY <2>1 DEF SayEffect
      <3> QED
        BY <3>1, RunnersHold, OtherRunnersHold
    <2>6. ASSUME NEW m
          PROVE  QueuesHold(m)
      <3>1. CASE QueuesStay
        BY <1>0, <2>1, <3>1, QueuesHeld
      <3>2. CASE ~QueuesStay
        <4>1. \/ side'[s].waiting = side[s].waiting
              \/ side'[s].waiting = Append(side[s].waiting, l)
          BY <2>1, <3>2 DEF SayEffect
        <4>2. Holds(s, m) => Holds(s, m)'
          <5>1. CASE side'[s].waiting = side[s].waiting
            BY <5>1 DEF Holds
          <5>2. CASE side'[s].waiting = Append(side[s].waiting, l)
            BY <1>0, <5>2, LastAdded
          <5> QED
            BY <4>1, <5>1, <5>2
        <4> QED
          BY <1>0, <2>1, <2>2, <4>2, OtherQueuesHold
      <3> QED
        BY <3>1, <3>2
    <2>7. lines'[l] = "said" => Placed(l)'
      <3>1. CASE lines'[l] = "heard"
        BY <3>1
      <3>2. CASE carried' = carried \cup {<<side[s].thread, l>>}
        BY <2>1, <3>2 DEF Placed
      <3>3. CASE side'[s].waiting = Append(side[s].waiting, l)
        <4>1. Holds(s, l)'
          BY <1>0, <3>3, LastAdded
        <4>2. s \in Made'
          BY <2>1 DEF Made
        <4> QED
          BY <4>1, <4>2 DEF Placed
      <3>4. CASE \E r \in Runners : runner'[r].pc = "door" /\ runner'[r].line = l
        BY <3>4 DEF Placed
      <3> QED
        BY <2>1, <3>1, <3>2, <3>3, <3>4 DEF SayEffect
    <2>8. \A m \in Lines : m # l => lines'[m] = lines[m]
      BY <2>1 DEF SayEffect, LinesStay
    <2>9. ASSUME NEW m \in Lines, lines'[m] = "said"
          PROVE  Placed(m)'
      BY <1>0, <2>3, <2>4, <2>5, <2>6, <2>7, <2>8, <2>9, CarriedSo, SaidStays
    <2> QED
      BY <2>9 DEF SaidIsPlaced
  <1>Ask. ASSUME NEW k \in Callers, NEW t \in Threads, NEW l \in Lines,
                 NEW c \in BOOLEAN, Ask(k, t, l, c)
         PROVE  SaidIsPlaced'
    <2>f. \A m : CarriedHolds(m) /\ DoorHolds(m) /\ QueuesHold(m)
      BY <1>0, <1>Ask, AskFrame, CarriedSo, RunnersHold, QueuesHeld
      DEF CarriedSame, RunnersSame, ThreadsSame
    <2>1. /\ At(k, "idle") /\ Begun(k, "knock", t, l) /\ LinesStay(l)
      BY <1>Ask, AskSteps DEF AskEffect
    <2>2. \A m : CallsHold(m) /\ InCalls(l)'
      BY <2>1, CallerBeginning
    <2>9. ASSUME NEW m \in Lines, lines'[m] = "said"
          PROVE  Placed(m)'
      <3>1. CASE m = l
        BY <2>2, <3>1 DEF Placed, InCalls
      <3>2. CASE m # l
        BY <1>0, <2>1, <2>2, <2>9, <2>f, <3>2, SaidStays DEF LinesStay
      <3> QED
        BY <3>1, <3>2
    <2> QED
      BY <2>9 DEF SaidIsPlaced
  <1>Open. ASSUME NEW k \in Callers, NEW t \in Threads, NEW l \in Lines, Open(k, t, l)
          PROVE  SaidIsPlaced'
    <2>f. \A m : CarriedHolds(m) /\ DoorHolds(m) /\ QueuesHold(m)
      BY <1>0, <1>Open, OpenFrame, CarriedSo, RunnersHold, QueuesHeld
      DEF CarriedSame, RunnersSame, ThreadsSame
    <2>1. /\ At(k, "idle") /\ Begun(k, "reserve", t, l) /\ LinesStay(l)
      BY <1>Open, OpenSteps DEF OpenEffect
    <2>2. \A m : CallsHold(m) /\ InCalls(l)'
      BY <2>1, CallerBeginning
    <2>9. ASSUME NEW m \in Lines, lines'[m] = "said"
          PROVE  Placed(m)'
      <3>1. CASE m = l
        BY <2>2, <3>1 DEF Placed, InCalls
      <3>2. CASE m # l
        BY <1>0, <2>1, <2>2, <2>9, <2>f, <3>2, SaidStays DEF LinesStay
      <3> QED
        BY <3>1, <3>2
    <2> QED
      BY <2>9 DEF SaidIsPlaced
  <1>Stop. ASSUME NEW s \in Sides, Stop(s)
          PROVE  SaidIsPlaced'
    <2>f. \A m : CallsHold(m) /\ CarriedHolds(m) /\ DoorHolds(m)
      BY <1>0, <1>Stop, StopFrame, CallersHold, CarriedSo, RunnersHold
      DEF CarriedSame, RunnersSame, ThreadsSame
    <2>1. s \in Made /\ Only(s) /\ UNCHANGED <<made, runner>>
      BY <1>Stop, StopSteps, StopFrame DEF StopEffect, ThreadsSame, tasks
    <2>9. ASSUME NEW l \in Lines, lines'[l] = "said"
          PROVE  Placed(l)'
      <3>1. ~Holds(s, l) /\ lines[l] = "said"
        BY <1>0, <1>Stop, <2>9, StopFates
      <3>2. QueuesHold(l)
        BY <1>0, <2>1, <3>1, OtherQueuesHold
      <3> QED
        BY <1>0, <2>1, <2>f, <3>1, <3>2, RunnersHold, SaidStays
    <2> QED
      BY <2>9 DEF SaidIsPlaced
  <1> QED
    BY SaidIsPlacedMoves, <1>Rest, <1>LetGo, <1>TakesFirst, <1>Begin,
       <1>EndTurn, <1>Stops, <1>NextLine,
       <1>Rests, <1>Reopen, <1>Admitted, <1>Looks, <1>Reserve, <1>Evict,
       <1>Evicted, <1>Publish, <1>MarksLive, <1>BroughtUp, <1>Say, <1>Ask,
       <1>Open, <1>Stop
-----------------------------------------------------------------------------
(* Every step keeps EndsHold: once a thread is archived, a park that was   *)
(* under way writes nothing over it.                                       *)
LEMMA ClosedIsWrittenMoves ==
  ASSUME Types, Known, MapAgrees, Next
  PROVE  \/ Claimed /\ LinkSame /\ ThreadsSame
         \/ \E s \in Sides : LetGo(s)
         \/ \E s \in Sides : WriteEnd(s)
         \/ \E s \in Sides : Leave(s)
         \/ \E s \in Sides : Marked(s)
         \/ \E k \in Callers : Publish(k)
         \/ \E t \in Threads : ArchiveOwed(t)
         \/ \E t \in Threads : Archive(t)
  BY BuiltFrame, LooksUpFrame, TakesFirstFrame, StartFailsFrame, DropFrame,
     BeginFrame, EndTurnFrame, StopsFrame, NextLineFrame, RestsFrame,
     ReopenFrame, AdmittedFrame, LooksFrame, ReserveFrame, EvictFrame,
     EvictedFrame, MarksLiveFrame, BroughtUpFrame, SayFrame, DropsFrame,
     AskFrame, OpenFrame, ParkFrame, MarkFrame, StopFrame, InvalidateFrame,
     ReattachFrame
  DEF Next, Owed, AgentSteps, Going, Start, RunQueue, Call, Claimed

LEMMA ClosedIsWrittenKept ==
  ASSUME Types, Known, MapAgrees, ClosedIsWritten, Next
  PROVE  ClosedIsWritten'
  <1>0. /\ Made \subseteq Sides /\ ClosedIsWritten /\ made \in Nat
        /\ link \in [Threads -> {"none", "live", "parked", "closed"}]
        /\ \A s \in Made : /\ side[s].thread \in Threads
                           /\ side[s].phase = "parking" <=> side[s].to = "parked"
    BY Whom DEF Settled, RoomTypes, Known, SidesAgree
  <1>Rest. CASE Claimed /\ LinkSame /\ ThreadsSame
    <2>1. ASSUME NEW q \in Made, side'[q].going = "written",
                 side'[q].phase = "closing"
          PROVE  link'[side'[q].thread] # "parked"
      <3>1. /\ side'[q].thread = side[q].thread
            /\ side[q].going = "written" /\ side[q].phase = "closing"
        BY <1>Rest, <2>1, ClaimedMeans
      <3> QED
        BY <1>0, <1>Rest, <3>1 DEF ClosedIsWritten, LinkSame
    <2> QED
      BY <1>Rest, <2>1 DEF ClosedIsWritten, ThreadsSame, Made
  <1>LetGo. ASSUME NEW s \in Sides, LetGo(s)
           PROVE  ClosedIsWritten'
    <2>1. /\ Only(s) /\ side'[s].going = "silent" /\ UNCHANGED <<made, link>>
      BY <1>LetGo, LetGoSteps, LetGoFrame DEF LetGoEffect, ThreadsSame
    <2> QED
      BY <1>0, <2>1 DEF ClosedIsWritten, Only, Made
  <1>WriteEnd. ASSUME NEW s \in Sides, WriteEnd(s)
              PROVE  ClosedIsWritten'
    <2>1. /\ Only(s) /\ side[s].going = "silent" /\ UNCHANGED made
          /\ side'[s].phase = side[s].phase
          /\ side'[s].thread = side[s].thread
          /\ link' = [link EXCEPT ![side[s].thread] =
                        IF side[s].to = "parked" THEN "parked" ELSE "closed"]
          /\ s \in Made
      BY <1>0, <1>WriteEnd, WriteEndSteps, WriteEndFrame
      DEF WriteEndEffect, ThreadsSame
    <2>2. live[side[s].thread] = s
      BY <2>1 DEF MapAgrees
    <2>3. ASSUME NEW q \in Made, side'[q].going = "written",
                 side'[q].phase = "closing"
          PROVE  link'[side'[q].thread] # "parked"
      <3>1. CASE q = s
        BY <1>0, <2>1, <2>3, <3>1
      <3>2. CASE q # s
        <4>1. side'[q] = side[q]
          BY <1>0, <2>1, <3>2 DEF Only
        <4>2. live[side[q].thread] = q
          BY <2>3, <4>1 DEF MapAgrees
        <4>3. link'[side[q].thread] = link[side[q].thread]
          BY <1>0, <2>1, <2>2, <3>2, <4>2
        <4> QED
          BY <1>0, <2>3, <4>1, <4>3 DEF ClosedIsWritten
      <3> QED
        BY <3>1, <3>2
    <2> QED
      BY <2>1, <2>3 DEF ClosedIsWritten, Made
  <1>Leave. ASSUME NEW s \in Sides, Leave(s)
           PROVE  ClosedIsWritten'
    <2>1. /\ Only(s) /\ side'[s].going = "gone" /\ UNCHANGED <<made, link>>
      BY <1>Leave, LeaveSteps, LeaveFrame DEF LeaveEffect, ThreadsSame
    <2> QED
      BY <1>0, <2>1 DEF ClosedIsWritten, Only, Made
  <1>Marked. ASSUME NEW s \in Sides, Marked(s)
            PROVE  ClosedIsWritten'
    <2>1. /\ EndsStay /\ UNCHANGED made
          /\ link' = [link EXCEPT ![side[s].thread] = "live"]
      BY <1>Marked, MarkedSteps, MarkedFrame DEF MarkedEffect, ThreadsSame
    <2> QED
      BY <1>0, <2>1 DEF ClosedIsWritten, EndsStay, Made
  <1>Publish. ASSUME NEW k \in Callers, Publish(k)
             PROVE  ClosedIsWritten'
    <2>1. UNCHANGED link
      BY <1>Publish, PublishFrame DEF LinkSame
    <2>2. ASSUME NEW q \in Made', side'[q].going = "written",
                 side'[q].phase = "closing"
          PROVE  link'[side'[q].thread] # "parked"
      <3>1. CASE q \in Made
        BY <1>0, <1>Publish, <2>1, <2>2, <3>1, PublishMakes DEF ClosedIsWritten
      <3>2. CASE q \notin Made
        <4>1. made' # made /\ q = made'
          BY <1>Publish, <3>2, PublishMakes
        <4>2. side'[q].phase = "open"
          BY <1>Publish, <4>1, PublishSteps DEF PublishEffect
        <4> QED
          BY <2>2, <4>2
      <3> QED
        BY <3>1, <3>2
    <2> QED
      BY <2>2 DEF ClosedIsWritten
  <1>ArchiveOwed. ASSUME NEW t \in Threads, ArchiveOwed(t)
                 PROVE  ClosedIsWritten'
    <2>1. Claimed /\ ThreadsSame
      BY <1>ArchiveOwed, ArchiveOwedFrame
    <2>2. \A u \in Threads : link'[u] = "parked" => link[u] = "parked"
      <3>1. \/ UNCHANGED link
            \/ link' = [link EXCEPT ![t] = "closed"]
            \/ link' = [link EXCEPT ![t] = IF @ = "parked" THEN "closed" ELSE @]
        BY <1>ArchiveOwed, ArchiveOwedSteps DEF ArchiveOwedEffect
      <3> QED
        BY <1>0, <3>1
    <2>3. ASSUME NEW q \in Made, side'[q].going = "written",
                 side'[q].phase = "closing"
          PROVE  link'[side'[q].thread] # "parked"
      <3>1. /\ side'[q].thread = side[q].thread
            /\ side[q].going = "written" /\ side[q].phase = "closing"
        BY <2>1, <2>3, ClaimedMeans
      <3> QED
        BY <1>0, <2>2, <3>1 DEF ClosedIsWritten
    <2> QED
      BY <2>1, <2>3 DEF ClosedIsWritten, ThreadsSame, Made
  <1>Archive. ASSUME NEW t \in Threads, Archive(t)
             PROVE  ClosedIsWritten'
    <2>1. Claimed /\ ThreadsSame
      BY <1>Archive, ArchiveFrame
    <2>2. \A u \in Threads : link'[u] = "parked" => link[u] = "parked"
      <3>1. \/ UNCHANGED link
            \/ link' = [link EXCEPT ![t] = "closed"]
            \/ link' = [link EXCEPT ![t] = IF @ = "parked" THEN "closed" ELSE @]
        BY <1>Archive, ArchiveSteps DEF ArchiveEffect
      <3> QED
        BY <1>0, <3>1
    <2>3. ASSUME NEW q \in Made, side'[q].going = "written",
                 side'[q].phase = "closing"
          PROVE  link'[side'[q].thread] # "parked"
      <3>1. /\ side'[q].thread = side[q].thread
            /\ side[q].going = "written" /\ side[q].phase = "closing"
        BY <2>1, <2>3, ClaimedMeans
      <3> QED
        BY <1>0, <2>2, <3>1 DEF ClosedIsWritten
    <2> QED
      BY <2>1, <2>3 DEF ClosedIsWritten, ThreadsSame, Made
  <1> QED
    BY ClosedIsWrittenMoves, <1>Rest, <1>LetGo, <1>WriteEnd, <1>Leave,
       <1>Marked, <1>Publish,
       <1>ArchiveOwed, <1>Archive

LEMMA EndedIsOverMoves ==
  ASSUME Types, Known, MapAgrees, Next
  PROVE  \/ Claimed /\ LiveSame /\ LinkSame /\ ArchivesSame /\ ThreadsSame
         \/ \E s \in Sides : LetGo(s)
         \/ \E s \in Sides : WriteEnd(s)
         \/ \E s \in Sides : Leave(s)
         \/ \E s \in Sides : Marked(s)
         \/ \E k \in Callers : Publish(k)
         \/ \E t \in Threads : ArchiveOwed(t)
         \/ \E t \in Threads : Archive(t)
  BY BuiltFrame, LooksUpFrame, TakesFirstFrame, StartFailsFrame, DropFrame,
     BeginFrame, EndTurnFrame, StopsFrame, NextLineFrame, RestsFrame,
     ReopenFrame, AdmittedFrame, LooksFrame, ReserveFrame, EvictFrame,
     EvictedFrame, MarksLiveFrame, BroughtUpFrame, SayFrame, DropsFrame,
     AskFrame, OpenFrame, ParkFrame, MarkFrame, StopFrame, InvalidateFrame,
     ReattachFrame
  DEF Next, Owed, AgentSteps, Going, Start, RunQueue, Call, Claimed

LEMMA EndedIsOverKept ==
  ASSUME Types, Known, MapAgrees, ClosedIsWritten, EndedIsOver, Next
  PROVE  EndedIsOver'
  <1>0. /\ Made \subseteq Sides /\ ClosedIsWritten /\ EndedIsOver /\ made \in Nat
        /\ link \in [Threads -> {"none", "live", "parked", "closed"}]
        /\ live \in [Threads -> Sides \cup {Nothing}]
        /\ owed \subseteq Threads /\ ended \subseteq Threads
        /\ \A s \in Made : /\ side[s].thread \in Threads
                           /\ side[s].phase = "parking" <=> side[s].to = "parked"
                           /\ side[s].phase = "open" <=> side[s].going = "no"
                           /\ side[s].phase \in Phases
    BY Whom DEF Settled, RoomTypes, Known, SidesAgree, SideTypes, LiveSides
  <1>m. \A t \in Threads : live[t] # Nothing =>
          live[t] \in Made /\ live[t] \in Sides /\ side[live[t]].thread = t
    BY <1>0 DEF MapAgrees
  <1>Rest. CASE Claimed /\ LiveSame /\ LinkSame /\ ArchivesSame /\ ThreadsSame
    <2>1. ASSUME NEW t \in Threads, live[t] # Nothing, side[live[t]].phase = "closing"
          PROVE  side'[live[t]].phase = "closing"
      BY <1>m, <1>Rest, <2>1, ClaimedMeans
    <2> QED
      BY <1>0, <1>Rest, <2>1 DEF EndedIsOver, LiveSame, LinkSame, ArchivesSame
  <1>LetGo. ASSUME NEW s \in Sides, LetGo(s)
           PROVE  EndedIsOver'
    <2>1. /\ \A q \in Sides : side'[q].phase = side[q].phase
          /\ UNCHANGED <<link, live, owed, ended>>
      BY <1>LetGo, LetGoSteps DEF LetGoEffect
    <2> QED
      BY <1>0, <1>m, <2>1 DEF EndedIsOver
  <1>WriteEnd. ASSUME NEW s \in Sides, WriteEnd(s)
              PROVE  EndedIsOver'
    <2>1. /\ \A q \in Sides : side'[q].phase = side[q].phase
          /\ UNCHANGED <<live, owed, ended>> /\ side[s].going = "silent"
          /\ link' = [link EXCEPT ![side[s].thread] =
                        IF side[s].to = "parked" THEN "parked" ELSE "closed"]
          /\ s \in Made
      BY <1>WriteEnd, WriteEndSteps DEF WriteEndEffect
    <2>n. s # Nothing
      BY BoundsAssumption DEF Sides, Nothing
    <2>2. live[side[s].thread] = s
      BY <2>1 DEF MapAgrees
    <2> QED
      BY <1>0, <1>m, <2>1, <2>2, <2>n DEF EndedIsOver
  <1>Leave. ASSUME NEW s \in Sides, Leave(s)
           PROVE  EndedIsOver'
    <2>1. /\ \A q \in Sides : side'[q].phase = side[q].phase
          /\ UNCHANGED <<link, owed, ended>> /\ side[s].going = "written"
          /\ live' = [t \in Threads |-> IF live[t] = s THEN Nothing ELSE live[t]]
          /\ s \in Made
      BY <1>Leave, LeaveSteps DEF LeaveEffect
    <2>2. ASSUME NEW t \in ended \ owed
          PROVE  /\ live'[t] = Nothing => link[t] # "parked"
                 /\ live'[t] # Nothing => side'[live'[t]].phase = "closing"
      <3>1. t \in Threads
        BY <1>0
      <3>2. CASE live[t] = s /\ live[t] # Nothing
        <4>1. side[s].phase = "closing" /\ side[s].thread = t
          BY <1>0, <1>m, <3>1, <3>2 DEF EndedIsOver
        <4> QED
          BY <1>0, <2>1, <3>1, <3>2, <4>1 DEF ClosedIsWritten
      <3>3. CASE live[t] # s \/ live[t] = Nothing
        BY <1>0, <1>m, <2>1, <3>1, <3>3 DEF EndedIsOver
      <3> QED
        BY <3>2, <3>3
    <2> QED
      BY <2>1, <2>2 DEF EndedIsOver
  <1>Marked. ASSUME NEW s \in Sides, Marked(s)
            PROVE  EndedIsOver'
    <2>1. /\ EndsStay /\ UNCHANGED <<live, owed, ended>>
          /\ link' = [link EXCEPT ![side[s].thread] = "live"]
      BY <1>Marked, MarkedSteps DEF MarkedEffect, tasks, archives
    <2> QED
      BY <1>0, <1>m, <2>1 DEF EndedIsOver, EndsStay
  <1>Publish. ASSUME NEW k \in Callers, Publish(k)
             PROVE  EndedIsOver'
    <2>0. PICK u \in Threads : u = caller[k].thread
      BY <1>Publish, PublishSteps
    <2>1. /\ UNCHANGED <<link, owed>>
          /\ \A q \in Made : side'[q] = side[q]
      BY <1>Publish, PublishSteps, PublishMakes DEF PublishEffect
    <2>2. \/ live' = [live EXCEPT ![u] = made'] /\ ended' = ended \ {u}
          \/ UNCHANGED <<live, ended>>
      BY <1>Publish, <2>0, PublishSteps DEF PublishEffect
    <2>3. ASSUME NEW t \in ended' \ owed'
          PROVE  live'[t] = live[t] /\ t \in ended \ owed /\ t \in Threads
      BY <1>0, <2>1, <2>2, <2>3
    <2>4. ASSUME NEW t \in ended' \ owed'
          PROVE  /\ live'[t] = Nothing => link'[t] # "parked"
                 /\ live'[t] # Nothing => side'[live'[t]].phase = "closing"
      BY <1>0, <1>m, <2>1, <2>3, <2>4 DEF EndedIsOver
    <2> QED
      BY <2>4 DEF EndedIsOver
  <1>ArchiveOwed. ASSUME NEW t \in Threads, ArchiveOwed(t)
                 PROVE  EndedIsOver'
    <2>1. /\ owed' = owed \ {t} /\ ended' = ended \cup {t} /\ UNCHANGED live
          /\ Claimed /\ ThreadsSame
      BY <1>ArchiveOwed, ArchiveOwedSteps, ArchiveOwedFrame DEF ArchiveOwedEffect
    <2>2. ASSUME NEW u \in ended \ owed
          PROVE  /\ live[u] = Nothing => link'[u] # "parked"
                 /\ live[u] # Nothing => side'[live[u]].phase = "closing"
      <3>1. /\ u \in Threads
            /\ live[u] = Nothing => link[u] # "parked"
            /\ live[u] # Nothing => side[live[u]].phase = "closing"
        BY <1>0 DEF EndedIsOver
      <3>2. live[u] # Nothing => side'[live[u]].phase = "closing"
        BY <1>m, <2>1, <3>1, ClaimedMeans
      <3>3. \/ UNCHANGED link
            \/ link' = [link EXCEPT ![t] = IF @ = "parked" THEN "closed" ELSE @]
        BY <1>ArchiveOwed, ArchiveOwedSteps DEF ArchiveOwedEffect
      <3> QED
        BY <1>0, <3>1, <3>2, <3>3
    <2>3. /\ live[t] = Nothing => link'[t] # "parked"
          /\ live[t] # Nothing => side'[live[t]].phase = "closing"
      <3>1. \/ /\ live[t] # Nothing
               /\ ClaimStep(live[t], "closing", "closed", FALSE)
            \/ /\ live[t] = Nothing
               /\ link' = [link EXCEPT ![t] = IF @ = "parked" THEN "closed"
                                              ELSE @]
        BY <1>ArchiveOwed, ArchiveOwedSteps DEF ArchiveOwedEffect
      <3> QED
        BY <1>0, <3>1 DEF ClaimStep
    <2> QED
      BY <2>1, <2>2, <2>3 DEF EndedIsOver
  <1>Archive. ASSUME NEW t \in Threads, Archive(t)
             PROVE  EndedIsOver'
    <2>1. /\ ended' = ended \cup {t} /\ UNCHANGED live
          /\ Claimed /\ ThreadsSame /\ owed \subseteq owed'
      BY <1>Archive, ArchiveSteps, ArchiveFrame DEF ArchiveEffect
    <2>2. ASSUME NEW u \in ended \ owed
          PROVE  /\ live[u] = Nothing => link'[u] # "parked"
                 /\ live[u] # Nothing => side'[live[u]].phase = "closing"
      <3>1. /\ u \in Threads
            /\ live[u] = Nothing => link[u] # "parked"
            /\ live[u] # Nothing => side[live[u]].phase = "closing"
        BY <1>0 DEF EndedIsOver
      <3>2. live[u] # Nothing => side'[live[u]].phase = "closing"
        BY <1>m, <2>1, <3>1, ClaimedMeans
      <3>3. \/ UNCHANGED link
            \/ link' = [link EXCEPT ![t] = "closed"]
        BY <1>Archive, ArchiveSteps DEF ArchiveEffect
      <3> QED
        BY <1>0, <3>1, <3>2, <3>3
    <2>3. t \notin owed' => /\ live[t] = Nothing => link'[t] # "parked"
                            /\ live[t] # Nothing => side'[live[t]].phase = "closing"
      <3>1. \/ t \in owed'
            \/ /\ live[t] # Nothing /\ side[live[t]].phase # "parking"
               /\ CloseStep(live[t])
            \/ /\ live[t] = Nothing
               /\ link' = [link EXCEPT ![t] = "closed"]
        BY <1>Archive, ArchiveSteps DEF ArchiveEffect
      <3>2. CASE live[t] # Nothing /\ side[live[t]].phase # "parking" /\ CloseStep(live[t])
        <4>1. side'[live[t]].phase = "closing"
          BY <1>0, <1>m, <3>2 DEF CloseStep, EndedStep, ClaimStep, Phases
        <4> QED
          BY <3>2, <4>1
      <3> QED
        BY <1>0, <3>1, <3>2
    <2> QED
      BY <2>1, <2>2, <2>3 DEF EndedIsOver
  <1> QED
    BY EndedIsOverMoves, <1>Rest, <1>LetGo, <1>WriteEnd, <1>Leave, <1>Marked,
       <1>Publish,
       <1>ArchiveOwed, <1>Archive

LEMMA EndsHoldKept ==
  ASSUME Types, Known, MapAgrees, EndsHold, Next
  PROVE  EndsHold'
  BY ClosedIsWrittenKept, EndedIsOverKept DEF EndsHold
-----------------------------------------------------------------------------
(* Every step keeps PlacesAgree: a place is granted only while those that  *)
(* live and those on their way are fewer than MAX_LIVE.                    *)
LEMMA FiniteRoom ==
  /\ IsFiniteSet(Held) /\ IsFiniteSet(Published) /\ IsFiniteSet(Granted)
  /\ Cardinality(Held) \in Nat /\ Cardinality(Published) \in Nat
  /\ Cardinality(Granted) \in Nat /\ Cardinality(Granted) <= Cardinality(Published)
  <1>1. Held \subseteq Threads /\ Published \subseteq Callers
        /\ Granted \subseteq Published
    BY DEF Held, Published, Granted
  <1>2. IsFiniteSet(Held) /\ IsFiniteSet(Published)
    BY <1>1, FiniteAssumption, FS_Subset
  <1>3. IsFiniteSet(Granted)
    BY <1>1, <1>2, FS_Subset
  <1>4. Cardinality(Granted) <= Cardinality(Published)
    BY <1>1, <1>2, FS_Subset
  <1> QED
    BY <1>2, <1>3, <1>4, FS_CardinalityType

LEMMA PlacesFrom ==
  ASSUME PlacesAgree, scene.places \in Nat, UNCHANGED <<starting, scene>>, Published' = Published,
         Granted' = Granted, Held' \subseteq Held
  PROVE  PlacesAgree'
  <1>1. Cardinality(Held') <= Cardinality(Held) /\ Cardinality(Held') \in Nat
    BY FiniteRoom, FS_Subset, FS_CardinalityType
  <1>3. \A p \in Nat : Cardinality(Held) + Cardinality(Granted) <= p
          => Cardinality(Held') + Cardinality(Granted) <= p
    BY <1>1, FiniteRoom
  <1> QED
    BY <1>1, <1>3 DEF PlacesAgree

(* A caller that neither takes a place nor gives one back.                 *)
LEMMA PlaceKept ==
  ASSUME NEW k \in Callers, OnlyCaller(k),
         k \in Published <=> (k \in Published)',
         k \in Granted <=> (k \in Granted)'
  PROVE  Published' = Published /\ Granted' = Granted
  BY DEF OnlyCaller, Published, Granted

LEMMA PlaceGone ==
  ASSUME NEW k \in Callers, OnlyCaller(k), k \in Published,
         ~((k \in Published)')
  PROVE  Published' = Published \ {k} /\ Granted' = Granted \ {k}
  BY DEF OnlyCaller, Published, Granted

LEMMA PlacesAgreeMoves ==
  ASSUME Types, Known, MapAgrees, Next
  PROVE  \/ StartingSame /\ CallersSame /\ LiveSame
         \/ \E s \in Sides : Leave(s)
         \/ \E k \in Callers : Reopen(k)
         \/ \E k \in Callers : Admitted(k)
         \/ \E k \in Callers : Looks(k)
         \/ \E k \in Callers : Reserve(k)
         \/ \E k \in Callers : Evict(k)
         \/ \E k \in Callers : Evicted(k)
         \/ \E k \in Callers : Publish(k)
         \/ \E k \in Callers : MarksLive(k)
         \/ \E k \in Callers : BroughtUp(k)
         \/ \E k \in Callers : Say(k)
         \/ \E k \in Callers, t \in Threads, l \in Lines, c \in BOOLEAN : Ask(k, t, l, c)
         \/ \E k \in Callers, t \in Threads, l \in Lines : Open(k, t, l)
  BY LetGoFrame, WriteEndFrame, MarkedFrame, BuiltFrame, LooksUpFrame,
     TakesFirstFrame, StartFailsFrame, DropFrame, BeginFrame, EndTurnFrame,
     StopsFrame, NextLineFrame, RestsFrame, ArchiveOwedFrame, DropsFrame,
     ParkFrame, ArchiveFrame, MarkFrame, StopFrame, InvalidateFrame,
     ReattachFrame
  DEF Next, Owed, AgentSteps, Going, Start, RunQueue, Call

LEMMA PlacesAgreeKept ==
  ASSUME Types, Known, MapAgrees, PlacesAgree, Next
  PROVE  PlacesAgree'
  <1>0. /\ PlacesAgree /\ UNCHANGED scene /\ scene.places \in Nat
        /\ starting \in Int /\ live \in [Threads -> Sides \cup {Nothing}]
    BY Whom, SceneStays, BoundsAssumption DEF Settled, RoomTypes
  <1>Rest. CASE StartingSame /\ CallersSame /\ LiveSame
    <2>1. Published' = Published /\ Granted' = Granted /\ Held' = Held
      BY <1>Rest DEF CallersSame, LiveSame, Published, Granted, Held
    <2> QED
      BY <1>0, <1>Rest, <2>1, PlacesFrom DEF StartingSame
  <1>Leave. ASSUME NEW s \in Sides, Leave(s)
           PROVE  PlacesAgree'
    <2>1. /\ UNCHANGED <<starting, caller>>
          /\ live' = [t \in Threads |-> IF live[t] = s THEN Nothing ELSE live[t]]
      BY <1>Leave, LeaveSteps DEF LeaveEffect
    <2>2. /\ Published' = Published /\ Granted' = Granted /\ Held' \subseteq Held
      BY <1>0, <2>1 DEF Published, Granted, Held
    <2> QED
      BY <1>0, <2>1, <2>2, PlacesFrom
  <1>Reopen. ASSUME NEW k \in Callers, Reopen(k)
            PROVE  PlacesAgree'
    <2>1. /\ OnlyCaller(k) /\ UNCHANGED <<starting, live>>
          /\ caller[k].pc \notin {"publish", "mark", "marked"}
          /\ caller'[k].pc \notin {"publish", "mark", "marked"}
      BY <1>Reopen, ReopenSteps, ReopenFrame
      DEF ReopenEffect, Begun, At, StartingSame, LiveSame
    <2>2. Published' = Published /\ Granted' = Granted /\ Held' = Held
      <3>1. Idle.pc = "idle"
        BY DEF Idle
      <3>2. Held' = Held
        BY <2>1 DEF Held
      <3>3. /\ k \in Published <=> (k \in Published)'
            /\ k \in Granted <=> (k \in Granted)'
        BY <2>1, <3>1 DEF Published, Granted
      <3> QED
        BY <2>1, <3>2, <3>3, PlaceKept
    <2> QED
      BY <1>0, <2>1, <2>2, PlacesFrom
  <1>Admitted. ASSUME NEW k \in Callers, Admitted(k)
              PROVE  PlacesAgree'
    <2>1. /\ OnlyCaller(k) /\ UNCHANGED <<starting, live>>
          /\ caller[k].pc \notin {"publish", "mark", "marked"}
          /\ caller'[k].pc \notin {"publish", "mark", "marked"}
      BY <1>Admitted, AdmittedSteps, AdmittedFrame
      DEF AdmittedEffect, GoesOnAlike, GoesOn, At, StartingSame, LiveSame
    <2>2. Published' = Published /\ Granted' = Granted /\ Held' = Held
      <3>1. Idle.pc = "idle"
        BY DEF Idle
      <3>2. Held' = Held
        BY <2>1 DEF Held
      <3>3. /\ k \in Published <=> (k \in Published)'
            /\ k \in Granted <=> (k \in Granted)'
        BY <2>1, <3>1 DEF Published, Granted
      <3> QED
        BY <2>1, <3>2, <3>3, PlaceKept
    <2> QED
      BY <1>0, <2>1, <2>2, PlacesFrom
  <1>Looks. ASSUME NEW k \in Callers, Looks(k)
           PROVE  PlacesAgree'
    <2>0. \/ Left(k) \/ GoesOn(k, "say") \/ GoesOn(k, "reserve")
      BY <1>Looks, LooksSteps DEF LooksEffect
    <2>i. Idle.pc = "idle" /\ At(k, "look")
      BY <1>Looks, LooksSteps DEF LooksEffect, Idle
    <2>1. /\ OnlyCaller(k) /\ UNCHANGED <<starting, live>>
          /\ caller[k].pc \notin {"publish", "mark", "marked"}
          /\ caller'[k].pc \notin {"publish", "mark", "marked"}
      BY <1>Looks, <2>0, <2>i, LooksFrame
      DEF Left, GoesOn, At, StartingSame, LiveSame
    <2>2. Published' = Published /\ Granted' = Granted /\ Held' = Held
      <3>1. Idle.pc = "idle"
        BY DEF Idle
      <3>2. Held' = Held
        BY <2>1 DEF Held
      <3>3. /\ k \in Published <=> (k \in Published)'
            /\ k \in Granted <=> (k \in Granted)'
        BY <2>1, <3>1 DEF Published, Granted
      <3> QED
        BY <2>1, <3>2, <3>3, PlaceKept
    <2> QED
      BY <1>0, <2>1, <2>2, PlacesFrom
  <1>Reserve. ASSUME NEW k \in Callers, Reserve(k)
             PROVE  PlacesAgree'
    <2>i. Idle.pc = "idle" /\ At(k, "reserve") /\ UNCHANGED live
      BY <1>Reserve, ReserveSteps DEF ReserveEffect, Idle
    <2>a. CASE UNCHANGED starting
      <3>0. \/ Left(k) \/ GoesOn(k, "evict")
        <4>1. starting' # starting + 1
          BY <1>0, <2>a
        <4> QED
          BY <1>Reserve, <4>1, ReserveSteps DEF ReserveEffect
      <3>1. /\ OnlyCaller(k)
            /\ caller[k].pc \notin {"publish", "mark", "marked"}
            /\ caller'[k].pc \notin {"publish", "mark", "marked"}
        BY <2>i, <3>0 DEF Left, GoesOn, At
      <3>2. /\ k \in Published <=> (k \in Published)'
            /\ k \in Granted <=> (k \in Granted)'
        BY <3>1 DEF Published, Granted
      <3>3. Held' = Held
        BY <2>i DEF Held
      <3> QED
        BY <1>0, <2>a, <3>1, <3>2, <3>3, PlaceKept, PlacesFrom
    <2>b. CASE ~UNCHANGED starting
      <3>1. /\ Places < scene.places /\ starting' = starting + 1
            /\ OnlyCaller(k) /\ caller'[k].pc = "publish"
        BY <1>Reserve, <2>b, ReserveSteps DEF ReserveEffect, GoesOnAlike, GoesOn
      <3>2. /\ k \notin Published /\ Published' = Published \cup {k}
            /\ k \notin Granted /\ Granted' = Granted \cup {k}
        BY <2>i, <3>1 DEF Published, Granted, OnlyCaller, At
      <3>3. /\ Cardinality(Published') = Cardinality(Published) + 1
            /\ Cardinality(Granted') = Cardinality(Granted) + 1
        BY <3>2, FiniteRoom, FS_AddElement
      <3>4. Held' = Held
        BY <2>i DEF Held
      <3>5. Cardinality(Held) + starting < scene.places
        BY <3>1 DEF Places
      <3>6. /\ starting = Cardinality(Published)
        BY <1>0 DEF PlacesAgree
      <3>7. Cardinality(Held) + Cardinality(Granted') <= scene.places
        BY <1>0, <3>3, <3>5, <3>6, FiniteRoom
      <3> QED
        BY <1>0, <3>1, <3>3, <3>4, <3>6, <3>7 DEF PlacesAgree
    <2> QED
      BY <2>a, <2>b
  <1>Evict. ASSUME NEW k \in Callers, Evict(k)
           PROVE  PlacesAgree'
    <2>1. /\ OnlyCaller(k) /\ UNCHANGED <<starting, live>>
          /\ caller[k].pc \notin {"publish", "mark", "marked"}
          /\ caller'[k].pc \notin {"publish", "mark", "marked"}
      BY <1>Evict, EvictSteps, EvictFrame
      DEF EvictEffect, GoesOnAlike, GoesOn, At, StartingSame, LiveSame
    <2>2. Published' = Published /\ Granted' = Granted /\ Held' = Held
      <3>1. Idle.pc = "idle"
        BY DEF Idle
      <3>2. Held' = Held
        BY <2>1 DEF Held
      <3>3. /\ k \in Published <=> (k \in Published)'
            /\ k \in Granted <=> (k \in Granted)'
        BY <2>1, <3>1 DEF Published, Granted
      <3> QED
        BY <2>1, <3>2, <3>3, PlaceKept
    <2> QED
      BY <1>0, <2>1, <2>2, PlacesFrom
  <1>Evicted. ASSUME NEW k \in Callers, Evicted(k)
             PROVE  PlacesAgree'
    <2>1. /\ OnlyCaller(k) /\ UNCHANGED <<starting, live>>
          /\ caller[k].pc \notin {"publish", "mark", "marked"}
          /\ caller'[k].pc \notin {"publish", "mark", "marked"}
      BY <1>Evicted, EvictedSteps, EvictedFrame
      DEF EvictedEffect, GoesOnAlike, GoesOn, At, StartingSame, LiveSame
    <2>2. Published' = Published /\ Granted' = Granted /\ Held' = Held
      <3>1. Idle.pc = "idle"
        BY DEF Idle
      <3>2. Held' = Held
        BY <2>1 DEF Held
      <3>3. /\ k \in Published <=> (k \in Published)'
            /\ k \in Granted <=> (k \in Granted)'
        BY <2>1, <3>1 DEF Published, Granted
      <3> QED
        BY <2>1, <3>2, <3>3, PlaceKept
    <2> QED
      BY <1>0, <2>1, <2>2, PlacesFrom
  <1>Publish. ASSUME NEW k \in Callers, Publish(k)
             PROVE  PlacesAgree'
    <2>u. PICK u \in Threads : u = caller[k].thread
      BY <1>Publish, PublishSteps
    <2>i. Idle.pc = "idle" /\ At(k, "publish") /\ k \in Published /\ k \in Granted
      BY <1>Publish, PublishSteps DEF PublishEffect, Idle, At, Published, Granted
    <2>a. CASE UNCHANGED starting
      <3>0. /\ GoesOn(k, "mark") /\ live' = [live EXCEPT ![u] = made']
        <4>1. starting' # starting - 1
          BY <1>0, <2>a
        <4> QED
          BY <1>Publish, <2>u, <4>1, PublishSteps DEF PublishEffect
      <3>1. Published' = Published /\ Granted' = Granted \ {k}
        BY <2>i, <3>0 DEF GoesOn, OnlyCaller, Published, Granted, At
      <3>2. Held' \subseteq Held \cup {u}
        BY <1>0, <3>0 DEF Held
      <3>3. Cardinality(Granted') = Cardinality(Granted) - 1
        BY <2>i, <3>1, FiniteRoom, FS_RemoveElement
      <3>4. /\ Cardinality(Held') <= Cardinality(Held) + 1
            /\ Cardinality(Held') \in Nat
        <4>1. /\ IsFiniteSet(Held \cup {u})
              /\ Cardinality(Held \cup {u}) <= Cardinality(Held) + 1
              /\ Cardinality(Held \cup {u}) \in Nat
          <5>1. CASE u \in Held
            <6>1. Held \cup {u} = Held
              BY <5>1
            <6>2. /\ IsFiniteSet(Held) /\ Cardinality(Held) \in Nat
                  /\ Cardinality(Held) <= Cardinality(Held) + 1
              BY FiniteRoom
            <6> QED
              BY <6>1, <6>2, Zenon
          <5>2. CASE u \notin Held
            <6>1. /\ IsFiniteSet(Held \cup {u})
                  /\ Cardinality(Held \cup {u}) = Cardinality(Held) + 1
              BY <5>2, FiniteRoom, FS_AddElement
            <6> QED
              BY <6>1, FiniteRoom
          <5> QED
            BY <5>1, <5>2
        <4>2. /\ Cardinality(Held') <= Cardinality(Held \cup {u})
              /\ Cardinality(Held') \in Nat
          BY <3>2, <4>1, FS_Subset, FS_CardinalityType
        <4> QED
          BY <4>1, <4>2, FiniteRoom
      <3>5. Cardinality(Held') + Cardinality(Granted') <= scene.places
        BY <1>0, <3>3, <3>4, FiniteRoom DEF PlacesAgree
      <3> QED
        BY <1>0, <2>a, <3>1, <3>5 DEF PlacesAgree
    <2>b. CASE ~UNCHANGED starting
      <3>1. starting' = starting - 1 /\ Left(k) /\ UNCHANGED live
        BY <1>Publish, <2>b, PublishSteps DEF PublishEffect
      <3>2. ~((k \in Published)') /\ OnlyCaller(k) /\ Held' = Held
        BY <2>i, <3>1 DEF Left, Published, Held
      <3>3. Published' = Published \ {k} /\ Granted' = Granted \ {k}
        BY <2>i, <3>2, PlaceGone
      <3>4. /\ Cardinality(Published') = Cardinality(Published) - 1
            /\ Cardinality(Granted') = Cardinality(Granted) - 1
        BY <2>i, <3>3, FiniteRoom, FS_RemoveElement
      <3>5. Cardinality(Held) + Cardinality(Granted') <= scene.places
        BY <1>0, <3>4, FiniteRoom DEF PlacesAgree
      <3> QED
        BY <1>0, <3>1, <3>2, <3>4, <3>5 DEF PlacesAgree
    <2> QED
      BY <2>a, <2>b
  <1>MarksLive. ASSUME NEW k \in Callers, MarksLive(k)
               PROVE  PlacesAgree'
    <2>1. /\ OnlyCaller(k) /\ UNCHANGED <<starting, live>>
          /\ caller[k].pc = "mark" /\ caller'[k].pc = "marked"
      BY <1>MarksLive, MarksLiveSteps, MarksLiveFrame
      DEF MarksLiveEffect, GoesOnAlike, GoesOn, At, StartingSame, LiveSame
    <2>2. Published' = Published /\ Granted' = Granted /\ Held' = Held
      <3>1. Idle.pc = "idle"
        BY DEF Idle
      <3>2. Held' = Held
        BY <2>1 DEF Held
      <3>3. /\ k \in Published <=> (k \in Published)'
            /\ k \in Granted <=> (k \in Granted)'
        BY <2>1, <3>1 DEF Published, Granted
      <3> QED
        BY <2>1, <3>2, <3>3, PlaceKept
    <2> QED
      BY <1>0, <2>1, <2>2, PlacesFrom
  <1>BroughtUp. ASSUME NEW k \in Callers, BroughtUp(k)
               PROVE  PlacesAgree'
    <2>1. /\ OnlyCaller(k) /\ UNCHANGED live /\ caller[k].pc = "marked"
          /\ caller'[k].pc = "say" /\ starting' = starting - 1
      BY <1>BroughtUp, BroughtUpSteps DEF BroughtUpEffect, GoesOnAlike, GoesOn, At
    <2>2. /\ k \in Published /\ k \notin Granted /\ ~((k \in Published)')
          /\ Held' = Held
      BY <2>1 DEF Published, Granted, Held
    <2>3. Published' = Published \ {k} /\ Granted' = Granted
      BY <2>1, <2>2, PlaceGone
    <2>4. Cardinality(Published') = Cardinality(Published) - 1
      BY <2>2, <2>3, FiniteRoom, FS_RemoveElement
    <2> QED
      BY <1>0, <2>1, <2>2, <2>3, <2>4 DEF PlacesAgree
  <1>Say. ASSUME NEW k \in Callers, Say(k)
         PROVE  PlacesAgree'
    <2>0. Left(k) /\ At(k, "say") /\ Idle.pc = "idle"
      <3>1. PICK s \in Sides, l \in Lines : SayEffect(k, s, l)
        BY <1>Say, SaySteps
      <3> QED
        BY <3>1 DEF SayEffect, Idle
    <2>1. /\ OnlyCaller(k) /\ UNCHANGED <<starting, live>>
          /\ caller[k].pc \notin {"publish", "mark", "marked"}
          /\ caller'[k].pc \notin {"publish", "mark", "marked"}
      BY <1>Say, <2>0, SayFrame DEF Left, At, StartingSame, LiveSame
    <2>2. Published' = Published /\ Granted' = Granted /\ Held' = Held
      <3>1. Idle.pc = "idle"
        BY DEF Idle
      <3>2. Held' = Held
        BY <2>1 DEF Held
      <3>3. /\ k \in Published <=> (k \in Published)'
            /\ k \in Granted <=> (k \in Granted)'
        BY <2>1, <3>1 DEF Published, Granted
      <3> QED
        BY <2>1, <3>2, <3>3, PlaceKept
    <2> QED
      BY <1>0, <2>1, <2>2, PlacesFrom
  <1>Ask. ASSUME NEW k \in Callers, NEW t \in Threads, NEW l \in Lines,
                 NEW c \in BOOLEAN, Ask(k, t, l, c)
         PROVE  PlacesAgree'
    <2>1. /\ OnlyCaller(k) /\ UNCHANGED <<starting, live>>
          /\ caller[k].pc \notin {"publish", "mark", "marked"}
          /\ caller'[k].pc \notin {"publish", "mark", "marked"}
      BY <1>Ask, AskSteps, AskFrame DEF AskEffect, Begun, At, StartingSame, LiveSame
    <2>2. Published' = Published /\ Granted' = Granted /\ Held' = Held
      <3>1. Idle.pc = "idle"
        BY DEF Idle
      <3>2. Held' = Held
        BY <2>1 DEF Held
      <3>3. /\ k \in Published <=> (k \in Published)'
            /\ k \in Granted <=> (k \in Granted)'
        BY <2>1, <3>1 DEF Published, Granted
      <3> QED
        BY <2>1, <3>2, <3>3, PlaceKept
    <2> QED
      BY <1>0, <2>1, <2>2, PlacesFrom
  <1>Open. ASSUME NEW k \in Callers, NEW t \in Threads, NEW l \in Lines, Open(k, t, l)
          PROVE  PlacesAgree'
    <2>1. /\ OnlyCaller(k) /\ UNCHANGED <<starting, live>>
          /\ caller[k].pc \notin {"publish", "mark", "marked"}
          /\ caller'[k].pc \notin {"publish", "mark", "marked"}
      BY <1>Open, OpenSteps, OpenFrame DEF OpenEffect, Begun, At, StartingSame, LiveSame
    <2>2. Published' = Published /\ Granted' = Granted /\ Held' = Held
      <3>1. Idle.pc = "idle"
        BY DEF Idle
      <3>2. Held' = Held
        BY <2>1 DEF Held
      <3>3. /\ k \in Published <=> (k \in Published)'
            /\ k \in Granted <=> (k \in Granted)'
        BY <2>1, <3>1 DEF Published, Granted
      <3> QED
        BY <2>1, <3>2, <3>3, PlaceKept
    <2> QED
      BY <1>0, <2>1, <2>2, PlacesFrom
  <1> QED
    BY PlacesAgreeMoves, <1>Rest, <1>Leave, <1>Reopen, <1>Admitted, <1>Looks,
       <1>Reserve, <1>Evict,
       <1>Evicted, <1>Publish, <1>MarksLive, <1>BroughtUp, <1>Say, <1>Ask,
       <1>Open

-----------------------------------------------------------------------------
(* The inductive invariant.                                                *)
IInv == /\ Types /\ Known /\ MapAgrees /\ HasThread /\ Admission
        /\ PlacesAgree /\ LinkAgrees /\ Leases /\ Agents /\ Turns
        /\ LosesNothing /\ SaidIsPlaced /\ EndsHold
-----------------------------------------------------------------------------
(* The initial states.                                                     *)
LEMMA InitTypes ==
  ASSUME Init
  PROVE  Types /\ Made = {} /\ (\A l \in Lines : lines[l] # "said")
  <1>1. Sides \subseteq Int /\ 0 \in 0 .. MaxSides
    BY BoundsAssumption DEF Sides
  <1>2. <<>> \in Seq(Lines)
    OBVIOUS
  <1>3. Unmade \in LiveSides
    <2>1. -1 \in Int
      OBVIOUS
    <2> QED
      BY <1>2, <2>1 DEF Unmade, LiveSides, Phases, Goings
  <1>4. Idle \in Tasks
    <2>1. -1 \in Int
      OBVIOUS
    <2> QED
      BY <2>1 DEF Idle, Tasks
  <1>5. Free \in Loops
    BY DEF Free, Loops
  <1>6. SideTypes
    BY <1>3 DEF Init, SideTypes
  <1>7. CallerTypes
    BY <1>4 DEF Init, CallerTypes
  <1>8. RunnerTypes
    BY <1>5 DEF Init, RunnerTypes
  <1>9. LineTypes /\ (\A l \in Lines : lines[l] # "said")
    BY DEF Init, LineTypes
  <1>10. StarterTypes
    BY DEF Init, StarterTypes
  <1>11. RoomTypes
    <2>1. /\ link \in [Threads -> {"none", "live", "parked", "closed"}]
          /\ live \in [Threads -> Sides \cup {Nothing}]
      BY DEF Init
    <2>2. /\ scene \in Scenes /\ starting \in Int /\ made \in 0 .. MaxSides
          /\ epoch \in Nat
      BY <1>1 DEF Init
    <2>3. /\ waking \in Callers \cup {None}
          /\ carried \subseteq Threads \X Lines
          /\ owed \subseteq Threads /\ ended \subseteq Threads
          /\ revoking \in BOOLEAN /\ dropping \subseteq Sides
      BY DEF Init
    <2>4. marks \in Nat
      BY DEF Init
    <2> QED
      BY <1>10, <2>1, <2>2, <2>3, <2>4 DEF RoomTypes
  <1>12. Made = {}
    <2>1. made = 0
      BY DEF Init
    <2> QED
      BY <2>1 DEF Made
  <1> QED
    BY <1>6, <1>7, <1>8, <1>9, <1>11, <1>12 DEF Types

LEMMA InitPlaces ==
  ASSUME Init
  PROVE  PlacesAgree
  <1>1. \A k \in Callers : caller[k].pc = "idle"
    BY DEF Init, Idle
  <1>2. Published = {} /\ Granted = {}
    BY <1>1 DEF Published, Granted
  <1>3. Held = {}
    BY DEF Init, Held
  <1>4. scene.places \in Nat
    BY BoundsAssumption DEF Init
  <1>5. Cardinality({}) = 0
    BY FS_EmptySet
  <1>6. starting = 0
    BY DEF Init
  <1> QED
    BY <1>2, <1>3, <1>4, <1>5, <1>6 DEF PlacesAgree

LEMMA InitHolds ==
  ASSUME Init
  PROVE  IInv
  <1>1. Types /\ Made = {} /\ (\A l \in Lines : lines[l] # "said")
    BY InitTypes
  <1>2. /\ \A t \in Threads : live[t] = Nothing /\ link[t] = "none"
        /\ \A r \in Runners : runner[r].pc = "free"
        /\ \A s \in Sides : starter[s] = "none"
        /\ carried = {} /\ ended = {} /\ dropping = {}
    BY DEF Init, Free
  <1>3. /\ \A k \in Callers : caller[k] = Idle
        /\ Idle.pc = "idle" /\ Idle.lease = -1
    BY DEF Init, Idle
  <1>4. \A s \in Sides : /\ side[s].phase = "open" /\ side[s].going = "no"
                        /\ side[s].marking = FALSE
    BY DEF Init, Unmade
  <1>5. Known
    <2>1. SidesAgree
      BY <1>1 DEF SidesAgree
    <2>2. Unborn
      BY <1>1, <1>2, <1>4 DEF Unborn
    <2>3. CallersAgree
      BY <1>3 DEF CallersAgree, At
    <2> QED
      BY <2>1, <2>2, <2>3 DEF Known
  <1>6. MapAgrees
    BY <1>1, <1>2 DEF MapAgrees
  <1>7. HasThread
    BY <1>2 DEF HasThread
  <1>8. Admission
    BY <1>3 DEF Admission, AdmissionOf, At, Starts
  <1>9. LinkAgrees
    <2>1. LinkOfNone
      BY <1>2 DEF LinkOfNone
    <2>2. LinkOfLive
      BY <1>2 DEF LinkOfLive
    <2>3. LinkWritten /\ LateMarks
      BY <1>1 DEF LinkWritten, LateMarks
    <2>4. MarkedLinks
      BY <1>3 DEF MarkedLinks, At
    <2> QED
      BY <2>1, <2>2, <2>3, <2>4 DEF LinkAgrees
  <1>10. Leases
    <2>1. epoch = 0 /\ epoch <= scene.epochs
      <3>1. scene.epochs \in Nat
        BY BoundsAssumption DEF Init
      <3> QED
        BY <3>1 DEF Init
    <2>2. RevokedIsEnded
      BY <1>2 DEF RevokedIsEnded, Held
    <2>3. \A k \in Callers : CallerLease(k)
      BY <1>3, <2>1 DEF CallerLease, Starts
    <2> QED
      BY <1>1, <2>1, <2>2, <2>3 DEF Leases
  <1>11. Agents
    BY <1>1, <1>3 DEF Agents, Owns
  <1>12. Turns
    BY <1>1 DEF Turns
  <1>13. LosesNothing /\ SaidIsPlaced
    <2>1. LosesNothing
      BY DEF Init, LosesNothing
    <2> QED
      BY <1>1, <2>1 DEF SaidIsPlaced
  <1>14. EndsHold
    BY <1>1, <1>2 DEF EndsHold, ClosedIsWritten, EndedIsOver
  <1> QED
    BY <1>1, <1>5, <1>6, <1>7, <1>8, <1>9, <1>10, <1>11, <1>12, <1>13,
       <1>14, InitPlaces DEF IInv

(* Each part is kept from all of them, and a step that changes nothing     *)
(* keeps them.                                                             *)
LEMMA StepHolds ==
  ASSUME IInv, Next
  PROVE  IInv'
  BY TypesKept, KnownKept, MapAgreesKept, HasThreadKept, AdmissionKept,
     PlacesAgreeKept, LinkAgreesKept, LeasesKept, AgentsKept, TurnsKept,
     LosesNothingKept, SaidIsPlacedKept, EndsHoldKept DEF IInv

LEMMA StutterHolds ==
  ASSUME IInv, UNCHANGED vars
  PROVE  IInv'
  <1>1. UNCHANGED <<link, live, starting, made, side, waking, caller>>
    BY DEF vars, room, tasks
  <1>2. UNCHANGED <<starter, runner, carried, owed, ended>>
    BY DEF vars, tasks, archives
  <1>3. UNCHANGED <<epoch, revoking, dropping, marks, scene, lines>>
    BY DEF vars, rest
  <1>4. Types'
    BY <1>1, <1>2, <1>3 DEF IInv, Types, RoomTypes, StarterTypes, SideTypes,
      CallerTypes, RunnerTypes, LineTypes
  <1>5. Known'
    BY <1>1, <1>2, <1>3 DEF IInv, Known, SidesAgree, Unborn, CallersAgree,
      Made, At
  <1>6. MapAgrees' /\ HasThread'
    BY <1>1, <1>2, <1>3 DEF IInv, MapAgrees, HasThread, Has, Made
  <1>7. Admission'
    BY <1>1, <1>2, <1>3 DEF IInv, Admission, AdmissionOf, Starts, Alone, At,
      Has, Made
  <1>8. PlacesAgree'
    BY <1>1, <1>3 DEF IInv, PlacesAgree, Published, Granted, Held
  <1>9. LinkAgrees'
    BY <1>1, <1>2, <1>3 DEF IInv, LinkAgrees, LinkOfNone, LinkOfLive,
      LinkWritten, LateMarks, MarkedLinks, PutBack, Brought, At, Made
  <1>10. Leases'
    BY <1>1, <1>2, <1>3 DEF IInv, Leases, RevokedIsEnded, SideLease,
      CallerLease, Even, Starts, Made, Held
  <1>11. Agents'
    BY <1>1, <1>2, <1>3 DEF IInv, Agents, Owns, Made
  <1>12. Turns'
    BY <1>1, <1>2, <1>3 DEF IInv, Turns, Answering, Valid, Drives, Busy, Made
  <1>13. LosesNothing' /\ SaidIsPlaced'
    BY <1>1, <1>2, <1>3 DEF IInv, LosesNothing, SaidIsPlaced, Placed, Holds,
      At, Made
  <1>14. EndsHold'
    BY <1>1, <1>2, <1>3 DEF IInv, EndsHold, ClosedIsWritten, EndedIsOver, Made
  <1> QED
    BY <1>4, <1>5, <1>6, <1>7, <1>8, <1>9, <1>10, <1>11, <1>12, <1>13, <1>14
    DEF IInv

LEMMA Invariance == Spec => []IInv
  <1>1. IInv /\ [Next]_vars => IInv'
    BY StepHolds, StutterHolds
  <1> QED
    BY InitHolds, <1>1, PTL DEF Spec
-----------------------------------------------------------------------------
(* What the properties take from the invariant.                            *)
LEMMA TypeHolds ==
  ASSUME IInv
  PROVE  TypeOK
  <1>0. RoomTypes /\ SideTypes /\ CallerTypes /\ RunnerTypes
    BY DEF IInv, Types
  <1>1. ASSUME NEW s \in Sides
        PROVE  /\ side[s].phase \in {"open", "parking", "closing"}
               /\ Range(side[s].waiting) \subseteq Lines
               /\ side[s].phase = "open" <=> side[s].going = "no"
    <2>1. side[s].phase \in Phases /\ side[s].waiting \in Seq(Lines)
      BY <1>0 DEF SideTypes, LiveSides
    <2>2. Range(side[s].waiting) \subseteq Lines
      BY <2>1 DEF Range
    <2>3. side[s].phase = "open" <=> side[s].going = "no"
      BY DEF IInv, Known, SidesAgree, Unborn
    <2> QED
      BY <2>1, <2>2, <2>3 DEF Phases
  <1>2. \A k \in Callers : caller[k].side \in Sides \cup {Nothing}
    BY <1>0 DEF CallerTypes, Tasks
  <1>3. \A r \in Runners : runner[r].side \in Sides \cup {Nothing}
    BY <1>0 DEF RunnerTypes, Loops
  <1>4. epoch \in 0 .. scene.epochs
    <2>1. epoch \in Nat /\ scene.epochs \in Nat
      BY <1>0, BoundsAssumption DEF RoomTypes
    <2>2. epoch <= scene.epochs
      BY DEF IInv, Leases
    <2> QED
      BY <2>1, <2>2
  <1>5. starting = Cardinality({k \in Callers :
                        caller[k].pc \in {"publish", "mark", "marked"}})
    BY DEF IInv, PlacesAgree, Published
  <1> QED
    BY <1>0, <1>1, <1>2, <1>3, <1>4, <1>5 DEF RoomTypes, TypeOK

LEMMA PlacesHold ==
  ASSUME IInv
  PROVE  WithinPlaces
  <1>1. /\ IsFiniteSet(Held) /\ IsFiniteSet(Granted)
    <2>1. Held \subseteq Threads /\ Granted \subseteq Callers
      BY DEF Held, Granted
    <2> QED
      BY <2>1, FiniteAssumption, FS_Subset
  <1>2. Cardinality(Held) \in Nat /\ Cardinality(Granted) \in Nat
    BY <1>1, FS_CardinalityType
  <1>3. scene.places \in Nat
    BY BoundsAssumption DEF IInv, Types, RoomTypes
  <1>4. Cardinality(Held) + Cardinality(Granted) <= scene.places
    BY DEF IInv, PlacesAgree
  <1> QED
    BY <1>2, <1>3, <1>4 DEF WithinPlaces

LEMMA ThreadsHold ==
  ASSUME IInv
  PROVE  ThreadsAgree
  <1>1. OneLive
    BY DEF IInv, MapAgrees, OneLive, Made
  <1>2. LinkIsTrue
    BY DEF IInv, LinkAgrees, LinkOfNone, LinkOfLive, LinkIsTrue, PutBack, Made
  <1>3. RevokedIsEnded
    BY DEF IInv, Leases
  <1>4. NoAgentLeft
    BY DEF IInv, Agents, NoAgentLeft, Made
  <1> QED
    BY <1>1, <1>2, <1>3, <1>4, TypeHolds, PlacesHold DEF ThreadsAgree

LEMMA LineKept ==
  ASSUME IInv
  PROVE  LineIsKept
  <1>1. SUFFICES ASSUME NEW s \in Made, Answering(s), side[s].waiting # <<>>
                 PROVE  Drives(s) \/ starter[s] # "done"
    BY DEF LineIsKept, Made, Drives
  <1> QED
    BY <1>1 DEF IInv, Turns

(* With nothing under way a thread that is open answers.                   *)
LEMMA QuietAnswers ==
  ASSUME IInv, Quiet, NEW s \in Made, side[s].phase = "open"
  PROVE  Answering(s)
  <1>1. s \in Sides /\ side[s].lease \in Int /\ epoch \in Nat
    BY MadeSides DEF IInv, Types, RoomTypes, SideTypes, LiveSides
  <1>2. side[s].going = "no"
    BY DEF IInv, Known, SidesAgree
  <1>3. side[s].thread \in Threads /\ live[side[s].thread] = s
    BY <1>2 DEF IInv, Known, SidesAgree, MapAgrees
  <1>4. s # Nothing
    BY DEF Made, Nothing
  <1>5. side[s].thread \in Held
    BY <1>3, <1>4 DEF Held
  <1>6. side[s].lease = epoch
    BY <1>3, <1>5 DEF IInv, Leases, RevokedIsEnded, Quiet
  <1>7. side[s].lease % 2 = 0
    BY DEF IInv, Leases, SideLease, Even
  <1> QED
    BY <1>6, <1>7 DEF Answering, Valid

LEMMA NoneLost ==
  ASSUME IInv
  PROVE  NoLineLost
  <1>1. SUFFICES ASSUME Quiet, NEW l \in Lines, lines[l] = "said"
                 PROVE  \E s \in 1 .. made : /\ l \in Range(side[s].waiting)
                                             /\ side[s].phase = "closing"
    BY DEF NoLineLost
  <1>2. /\ \A k \in Callers : caller[k].pc = "idle"
        /\ \A r \in Runners : runner[r].pc = "free"
        /\ carried = {}
    BY <1>1 DEF Quiet, Idle
  <1>3. PICK s \in Made : Holds(s, l)
    BY <1>1, <1>2 DEF IInv, SaidIsPlaced, Placed, At
  <1>4. s \in Sides /\ SideTypes
    BY MadeSides DEF IInv, Types
  <1>5. l \in Range(side[s].waiting)
    BY <1>3, <1>4, RangeHolds
  <1>6. side[s].waiting # <<>>
    BY <1>3 DEF Holds
  <1>7. Carried(s) /\ starter[s] = "done"
    BY <1>1 DEF Quiet, Made
  <1>8. side[s].phase # "open"
    <2>1. SUFFICES ASSUME side[s].phase = "open"
                   PROVE  FALSE
      OBVIOUS
    <2>2. Answering(s)
      BY <1>1, <2>1, QuietAnswers
    <2>3. Drives(s)
      BY <1>6, <1>7, <2>2 DEF IInv, Turns
    <2> QED
      BY <1>2, <2>3 DEF Drives
  <1>9. side[s].going = "gone"
    BY <1>7, <1>8 DEF Carried, IInv, Known, SidesAgree
  <1>10. side[s].phase # "parking"
    BY <1>6, <1>9 DEF IInv, Turns
  <1>11. side[s].phase \in Phases
    BY <1>4 DEF SideTypes, LiveSides
  <1> QED
    BY <1>5, <1>8, <1>10, <1>11 DEF Phases, Made

LEMMA EndHeld ==
  ASSUME IInv
  PROVE  EndHolds
  <1>1. SUFFICES ASSUME Quiet, NEW t \in ended
                 PROVE  live[t] = Nothing /\ link[t] # "parked"
    BY DEF EndHolds
  <1>2. t \in Threads /\ t \in ended \ owed
    BY <1>1 DEF IInv, Types, RoomTypes, Quiet
  <1>3. live[t] = Nothing
    <2>1. SUFFICES ASSUME live[t] # Nothing
                   PROVE  FALSE
      OBVIOUS
    <2>2. side[live[t]].phase = "closing"
      BY <1>2, <2>1 DEF IInv, EndsHold, EndedIsOver
    <2>3. live[t] \in Made /\ side[live[t]].going # "gone"
      BY <1>2, <2>1 DEF IInv, MapAgrees
    <2>4. side[live[t]].going = "no"
      BY <1>1, <2>3 DEF Quiet, Carried, Made
    <2> QED
      BY <2>2, <2>3, <2>4 DEF IInv, Known, SidesAgree
  <1> QED
    BY <1>2, <1>3 DEF IInv, EndsHold, EndedIsOver

(* A work thread has one agent at a time and leaves none behind, its link  *)
(* says what the room's map does as far as anyone asking can tell, no more *)
(* than MAX_LIVE are live, and none stays open under an authority whose    *)
(* end has been swept (start_side, leave, drop_sides).                     *)
THEOREM ThreadsAgreeHolds == Spec => []ThreadsAgree
  <1>1. IInv => ThreadsAgree
    BY ThreadsHold
  <1> QED
    BY Invariance, <1>1, PTL

(* What is said in a thread is not lost as its agent parks, ends or is     *)
(* started again: it has someone to take it, and once nothing is under way *)
(* it was heard, refused or dropped by an ending, unless it came after a   *)
(* close had emptied the queue (queue_in_side, run_queue, reopen_with).    *)
THEOREM LinesSurviveHolds == Spec => []LinesSurvive
  <1>1. IInv => LinesSurvive
    BY LineKept, NoneLost DEF IInv, LosesNothing, ParkLosesNothing,
      LinesSurvive
  <1> QED
    BY Invariance, <1>1, PTL

(* An archived thread stays archived, whatever park or start it raced, as  *)
(* long as nobody brings it back (archive_once_parked, close_side).        *)
THEOREM EndHoldsHolds == Spec => []EndHolds
  <1>1. IInv => EndHolds
    BY EndHeld
  <1> QED
    BY Invariance, <1>1, PTL

=============================================================================
