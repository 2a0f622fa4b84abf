---------------------------- MODULE SeatedSocket ----------------------------
(***************************************************************************)
(* One admitted socket (wire/socket.rs seated_inner): the reader and how   *)
(* it hands frames out, the lane of each teammate, the worker that keeps   *)
(* global commands and subscriptions in order, the writer, the client that *)
(* folds what it is sent, and the roster views of its subscriptions.       *)
(*                                                                         *)
(* The client's frames come from a script.  What a client sends is read at *)
(* once and what is written reaches it at once: the connection keeps order *)
(* and loses nothing before it breaks.                                     *)
(***************************************************************************)
EXTENDS RosterView

CONSTANTS Scenes,   \* bound: the scripts, and how much the desk changes
          PhoneMax  \* subscriptions a phone may have open, 8 in the code

Ask == [kind : {"hello"}] \cup [kind : {"sub", "unsub"}, sub : Subs]
       \cup [kind : {"cmd"}, lane : Teammates \cup {"ordered", "alone"},
             does : {"write"}, of : Teammates, to : 0 .. 2]
       \cup [kind : {"cmd"}, lane : Teammates \cup {"ordered", "alone"},
             does : {"lists", "reads"}, of : Teammates, to : 0 .. 1]

(* A client counts its numbers up: what it let go it does not ask again.   *)
LetGo(script, s) ==
  {n \in DOMAIN script : script[n].kind = "unsub" /\ script[n].sub = s}

ASSUME ScenesAssumption ==
  /\ {"ordered", "alone"} \cap Teammates = {}
  /\ \A sc \in Scenes : sc.remote \in BOOLEAN /\ sc.script \in Seq(Ask)

ASSUME NumbersAssumption ==
  /\ PhoneMax \in Nat \ {0}
  /\ \A sc \in Scenes : \A n \in DOMAIN sc.script :
       sc.script[n].kind = "sub" =>
         LetGo(sc.script, sc.script[n].sub) \cap 1 .. n = {}

VARIABLES scene,
          left,     \* changes the desk may still make of itself
          read,     \* frames of the script read so far
          line,     \* frames waiting in each lane
          spawned,  \* independent frames whose task has not run yet
          under,    \* frames under way
          acted,    \* frames whose command took effect
          closed,   \* the ordered worker has seen the cut
          client,   \* the rows each subscription shows the client
          heard     \* the number of the last required frame written

socketVars == <<read, line, spawned, under, acted, closed, client, heard>>
vars == <<truthVars, declared, views, outVars, scene, left, socketVars>>

Script == scene.script
Frames == DOMAIN Script
Lanes == Teammates \cup {"ordered"}

LaneOf(n) == IF Script[n].kind = "cmd" THEN Script[n].lane ELSE "ordered"

Init == /\ scene \in Scenes
        /\ remote = scene.remote
        /\ left = scene.changes
        /\ room = [t \in Teammates |-> 1]
        /\ tape = [t \in Teammates |-> 0]
        /\ session = [t \in Teammates |-> [k \in Keys |-> 0]]
        /\ OutboxInit /\ ViewsInit
        /\ read = 0 /\ line = [l \in Lanes |-> <<>>]
        /\ spawned = {} /\ under = {} /\ acted = {} /\ closed = FALSE
        /\ client = [s \in Subs |-> NoRows] /\ heard = 0
-----------------------------------------------------------------------------
(* The reader: a hello is applied before the next frame is looked at, an   *)
(* independent read runs by itself, all else waits in a lane.              *)
Hello == LET n == read + 1 IN
  /\ ~cut /\ n \in Frames /\ Script[n].kind = "hello"
  /\ read' = n /\ declared' = TRUE /\ acted' = acted \cup {n}
  /\ Sends(Reply)
  /\ UNCHANGED <<truthVars, views, scene, left, line, spawned, under, closed,
                 client, heard>>

Spawns == LET n == read + 1 IN
  /\ ~cut /\ n \in Frames
  /\ Script[n].kind = "cmd" /\ Script[n].lane = "alone"
  /\ read' = n /\ spawned' = spawned \cup {n}
  /\ UNCHANGED <<truthVars, declared, views, outVars, scene, left, line,
                 under, acted, closed, client, heard>>

Queues == LET n == read + 1 IN
  /\ ~cut /\ n \in Frames /\ Script[n].kind # "hello"
  /\ LaneOf(n) # "alone"
  /\ read' = n /\ line' = [line EXCEPT ![LaneOf(n)] = Append(@, n)]
  /\ UNCHANGED <<truthVars, declared, views, outVars, scene, left, spawned,
                 under, acted, closed, client, heard>>
-----------------------------------------------------------------------------
(* A lane: one frame at a time.  A remote lane stops when the seat is cut, *)
(* the desk's own goes on to the end of what it was given.                 *)
\* Mutant: a lane does not wait for the frame under way.
NeverBusy(l) == TRUE
Idle(l) == \A n \in under : LaneOf(n) # l

Sees(l) == l # "ordered" \/ ~cut \/ closed

\* Mutant: every lane stops when its socket goes.
StopsAll == cut
\* Mutant: no lane looks whether its socket is still there.
StopsNone == FALSE
Stops == remote /\ cut

Begins(l) == LET n == Head(line[l]) IN
  /\ line[l] # <<>> /\ Idle(l) /\ Sees(l)
  /\ Script[n].kind = "cmd"
  /\ IF Stops
       THEN /\ line' = [line EXCEPT ![l] = <<>>]
            /\ UNCHANGED under
       ELSE /\ line' = [line EXCEPT ![l] = Tail(@)]
            /\ under' = under \cup {n}
  /\ UNCHANGED <<truthVars, declared, views, outVars, scene, left, read,
                 spawned, acted, closed, client, heard>>

BeginsAlone(n) ==
  /\ n \in spawned /\ spawned' = spawned \ {n}
  /\ under' = IF Stops THEN under ELSE under \cup {n}
  /\ UNCHANGED <<truthVars, declared, views, outVars, scene, left, read,
                 line, acted, closed, client, heard>>

(* A command's effect, then its reply. An agent that never finishes        *)
(* starting may keep one under way for ever.                               *)
Acts(n) ==
  /\ n \in under \ acted
  /\ acted' = acted \cup {n}
  /\ LET c == Script[n] IN
       CASE c.does = "write" -> Writes(c.of, c.to)
         [] c.does = "lists" -> Lists(c.of, [k \in Keys |-> c.to])
         [] OTHER -> UNCHANGED <<truthVars, views>>
  /\ UNCHANGED <<declared, outVars, scene, left, read, line, spawned, under,
                 closed, client, heard>>

Replies(n) ==
  /\ n \in under \cap acted /\ under' = under \ {n}
  /\ Sends(Reply)
  /\ UNCHANGED <<truthVars, declared, views, scene, left, read, line,
                 spawned, acted, closed, client, heard>>

(* run_command: a remote's work is dropped where it is.                    *)
DropsWork(n) ==
  /\ Stops /\ n \in under /\ under' = under \ {n}
  /\ UNCHANGED <<truthVars, declared, views, outVars, scene, left, read,
                 line, spawned, acted, closed, client, heard>>
-----------------------------------------------------------------------------
(* The ordered worker's own frames.                                        *)
NextOrdered(kind) == LET q == line["ordered"] IN
  /\ q # <<>> /\ Idle("ordered") /\ Sees("ordered")
  /\ Script[Head(q)].kind = kind
  /\ line' = [line EXCEPT !["ordered"] = Tail(@)]
  /\ UNCHANGED <<truthVars, declared, scene, left, read, spawned, under,
                 closed, heard>>

(* What it keeps of its subscriptions: one that ended by itself is out.    *)
Kept == {s \in Subs : Open(views[s]) /\ ~views[s].aborted}

(* The remote seat is a phone's: an owner's may open as many as it likes.  *)
Refuses(s) == \/ s \in Kept
              \/ remote /\ Cardinality(Kept) >= PhoneMax

Subscribes == LET n == Head(line["ordered"])  s == Script[n].sub IN
  /\ NextOrdered("sub")
  /\ IF closed
       THEN UNCHANGED <<views, outVars, acted>>
       ELSE /\ Sends(Reply)
            /\ IF Refuses(s) THEN UNCHANGED views
                              ELSE Views(s, Subscribed(s))
            /\ acted' = acted \cup {n}
  /\ UNCHANGED client

Aborted(v) == IF Open(v) THEN [v EXCEPT !.aborted = TRUE] ELSE v

Unsubscribes == LET n == Head(line["ordered"])  s == Script[n].sub IN
  /\ NextOrdered("unsub")
  /\ client' = [client EXCEPT ![s] = NoRows]
  /\ IF closed
       THEN UNCHANGED <<views, outVars, acted>>
       ELSE /\ Sends(Reply)
            /\ Views(s, Aborted(views[s]))
            /\ acted' = acted \cup {n}

(* It sees the cut even while a command of its own is under way.           *)
Closes ==
  /\ cut /\ ~closed /\ closed' = TRUE
  /\ views' = [s \in Subs |-> Aborted(views[s])]
  /\ line' = IF remote THEN [line EXCEPT !["ordered"] = <<>>] ELSE line
  /\ UNCHANGED <<truthVars, declared, outVars, scene, left, read, spawned,
                 under, acted, client, heard>>
-----------------------------------------------------------------------------
(* What the client makes of a frame: a list left out is the one it has.    *)
Restored(row, old) ==
  [row EXCEPT !.lists = [k \in Keys |->
     IF @[k] # Omitted THEN @[k]
     ELSE IF old.lists[k] # Omitted THEN old.lists[k] ELSE 0]]

Applied(rows, f) ==
  CASE f.what = "snapshot" -> f.rows
    [] f.what = "removed" -> [rows EXCEPT ![f.of] = NoRow]
    [] f.what = "row" -> [rows EXCEPT ![f.of] = Restored(f.row, @)]
    [] OTHER -> rows

Unread(s) ==
  \A n \in 1 .. read : Script[n].kind = "unsub" => Script[n].sub # s

Writer == LET f == Head(outq) IN
  /\ ~cut /\ outq # <<>> /\ outq' = Tail(outq)
  /\ heard' = IF f.kind = "required" THEN f.n ELSE heard
  /\ client' = IF f.sub \in Subs /\ Unread(f.sub)
                 THEN [client EXCEPT ![f.sub] = Applied(@, f)] ELSE client
  /\ UNCHANGED <<truthVars, declared, views, remote, sent, cut, scene, left,
                 read, line, spawned, under, acted, closed>>

(* The client goes, stops reading, or loses its grant.                     *)
Goes ==
  /\ ~cut /\ left.cuts > 0 /\ cut' = TRUE
  /\ left' = [left EXCEPT !.cuts = @ - 1]
  /\ UNCHANGED <<truthVars, declared, views, remote, outq, sent, scene,
                 socketVars>>

(* The desk's other business, as often as the scene allows.                *)
Elsewhere ==
  /\ UNCHANGED <<declared, outVars, scene, socketVars>>
  /\ \E t \in Teammates :
       \/ /\ left.rooms > 0 /\ left' = [left EXCEPT !.rooms = @ - 1]
          /\ \E name \in 0 .. 2 : name # room[t] /\ Writes(t, name)
       \/ /\ left.sessions > 0
          /\ left' = [left EXCEPT !.sessions = @ - 1]
          /\ \E k \in Keys :
               Lists(t, [session[t] EXCEPT ![k] = 1 - @])
       \/ /\ left.lines > 0 /\ left' = [left EXCEPT !.lines = @ - 1]
          /\ Speaks(t)

(* Live words of a turn.                                                   *)
Chatter ==
  /\ left.words > 0 /\ left' = [left EXCEPT !.words = @ - 1]
  /\ Sends(Words)
  /\ UNCHANGED <<truthVars, declared, views, scene, socketVars>>
-----------------------------------------------------------------------------
View == /\ \E s \in Subs : ViewSteps(s)
        /\ UNCHANGED <<scene, left, socketVars>>

Told == /\ \E t \in Teammates : Hints(t)
        /\ UNCHANGED <<scene, left, socketVars>>

Reader == Hello \/ Spawns \/ Queues

Workers == \/ \E l \in Lanes : Begins(l)
           \/ \E n \in Frames : BeginsAlone(n) \/ DropsWork(n)
           \/ Subscribes \/ Unsubscribes \/ Closes

Commands == \E n \in Frames : Acts(n) \/ Replies(n)

(* What goes on by itself. No command is owed its end.                     *)
Owed == View \/ Told \/ Reader \/ Workers \/ Writer

Next == Owed \/ Commands \/ Elsewhere \/ Chatter \/ Goes

Spec == Init /\ [][Next]_vars /\ WF_vars(Owed)
-----------------------------------------------------------------------------
TypeOK ==
  /\ remote \in BOOLEAN /\ cut \in BOOLEAN /\ closed \in BOOLEAN
  /\ declared \in BOOLEAN /\ sent \in Nat /\ heard \in 0 .. sent
  /\ remote => Len(outq) <= Capacity
  /\ room \in [Teammates -> 0 .. 2] /\ tape \in [Teammates -> Nat]
  /\ session \in [Teammates -> [Keys -> 0 .. 1]]
  /\ owed \subseteq Teammates
  /\ \A s \in Subs :
       /\ views[s].stage \in {"none", "subscribed", "snapshot", "loop",
                              "rows", "over"}
       /\ Len(views[s].roomq) <= RoomDepth
       /\ Len(views[s].infoq) <= InfoDepth
       /\ views[s].dirty \subseteq Teammates
       /\ views[s].taken \subseteq Teammates
  /\ read \in 0 .. Len(Script)
  /\ spawned \subseteq Frames /\ under \subseteq Frames
  /\ acted \subseteq Frames

(* What the subscription will show once the client has read all that waits.*)
WillShow(s) ==
  FoldLeft(Applied, client[s], SelectSeq(outq, LAMBDA f : f.sub = s))

Live(s) == Open(views[s]) /\ ~views[s].aborted /\ Unread(s) /\ ~cut

Truth(t) == IF room[t] = 0 THEN NoRow
            ELSE [name |-> room[t], said |-> tape[t], lists |-> session[t]]

Shows(s) == \A t \in Teammates : client[s][t] = Truth(t)

(* Leaving a list out is safe: what the view recorded as sent of each      *)
(* teammate's lists is what the client will hold once it has read what     *)
(* waits, however rows were merged, and it holds no row of a teammate the  *)
(* view has none of (catalogs, Sender::send, the window's fold).           *)
BeliefIsTold ==
  \A s \in Subs : Live(s) =>
    \A t \in Teammates :
      \/ WillShow(s)[t].lists = views[s].watched[t].knows
      \/ views[s].stage = "snapshot" /\ ~views[s].watched[t].on

(* A required frame (a reply, a snapshot, a removal) is written in its     *)
(* turn or the seat is cut: none is shed, overtaken or lost.               *)
RequiredInOrder ==
  ~cut =>
    LET waits == {i \in DOMAIN outq : outq[i].kind = "required"}
    IN /\ {outq[i].n : i \in waits} = heard + 1 .. sent
       /\ \A i, j \in waits : i < j => outq[i].n < outq[j].n

Quiet(s) == LET v == views[s] IN
  /\ Live(s) /\ v.stage = "loop" /\ ~v.wake
  /\ v.roomq = <<>> /\ ~v.roomLost /\ v.infoq = <<>> /\ ~v.infoLost
  /\ \A t \in Teammates : ~v.watched[t].marks
  /\ \A t \in Teammates : v.watched[t].on => v.watched[t].said = tape[t]
  /\ owed = {} /\ \A i \in DOMAIN outq : outq[i].sub # s

(* With nothing on its way the client shows the desk as it is, whatever    *)
(* feed lost events and however the changes met a snapshot.                *)
CaughtUp ==
  \A s \in Subs : Quiet(s) => Shows(s)

(* docs/wire.md: a client that creates a teammate and then subscribes sees *)
(* the create, and its hello is applied by then.                           *)
SeesWhatItDid ==
  \A n \in acted : Script[n].kind = "sub" =>
    \A m \in 1 .. n - 1 :
      LaneOf(m) = "ordered" => m \in acted

(* docs/wire.md: a remote's work ends with its seat: no command is begun   *)
(* and no subscription opened for a seat that is cut.                      *)
CutEndsWork ==
  [][cut /\ remote => /\ under' \subseteq under
                      /\ \A s \in Subs : Open(views'[s]) => Open(views[s])
    ]_vars

(* Whether frame n, which asks for a subscription, came past the bound.    *)
AskedAndKept(n) ==
  {s \in Subs : /\ \E m \in 1 .. n - 1 : Script[m] = [kind |-> "sub",
                                                       sub |-> s]
                /\ LetGo(Script, s) \cap 1 .. n - 1 = {}}

TooMany(n) == remote /\ Cardinality(AskedAndKept(n)) >= PhoneMax

(* socket.rs: an agent that never finishes starting holds up its own lane, *)
(* not the desk. In the end all is read, no lane waits but behind a        *)
(* command of its own still under way, each subscription asked for before  *)
(* such a command is open, and each open one shows the desk as it is.      *)
ShowsTheDesk ==
  []<>(cut \/ /\ read = Len(Script) /\ spawned = {}
              /\ \A l \in Lanes : line[l] = <<>> \/ ~Idle(l)
              /\ \A s \in Subs : Open(views[s]) =>
                   \/ Quiet(s) /\ Shows(s)
                   \/ ~Unread(s) /\ line["ordered"] # <<>>
              /\ \A n \in Frames :
                   Script[n].kind = "sub" /\ Unread(Script[n].sub) =>
                     \/ Open(views[Script[n].sub])
                     \/ \E i \in DOMAIN line["ordered"] :
                          line["ordered"][i] = n
                     \/ TooMany(n))

(* After the cut every subscription ends, a command under way or not. A    *)
(* remote's work ends where it is; what the desk's own socket was asked is *)
(* done, but for what waits behind a command still under way.              *)
EndsWhole ==
  []<>(cut => /\ \A s \in Subs : ~Open(views[s])
              /\ spawned = {}
              /\ remote => under = {} /\ \A l \in Lanes : line[l] = <<>>
              /\ remote \/ \A n \in 1 .. read : Script[n].kind = "cmd" =>
                   \/ n \in acted \cup under
                   \/ LaneOf(n) # "alone" /\ ~Idle(LaneOf(n)))

(* What is written to a seat comes in the order of what it asked and did.  *)
SeatIsServedInOrder == TypeOK /\ RequiredInOrder /\ SeesWhatItDid

(* What the view believes its client has is what the client has, and with  *)
(* nothing on its way that is the desk.                                    *)
ClientIsInStep == BeliefIsTold /\ CaughtUp

(* Every seat comes to rest: in step with the desk, or ended.              *)
SeatSettles == ShowsTheDesk /\ EndsWhole
=============================================================================
