---------------------------- MODULE WorkThreads ----------------------------
(***************************************************************************)
(* The work threads of one teammate (session/sides.rs, sides/ending.rs,    *)
(* sides/input.rs, lifecycle.rs): a thread is live with an agent of its    *)
(* own, parked, or closed, as its link says.  It is opened, or brought     *)
(* back by what is said in it; it is let go of when it is quiet or its     *)
(* place is wanted, archived by the person or by its agent, and ended with *)
(* the teammate's authority.                                               *)
(*                                                                         *)
(* A LiveSide is a number: a thread may have one after another, and what   *)
(* still runs for an older one goes on with that.  Agents here take no     *)
(* input mid-turn, so that a line waits for the turn to end.               *)
(***************************************************************************)
EXTENDS Integers, Sequences, FiniteSets, Functions

CONSTANTS Threads,
          Callers,   \* tasks that say something, or open a thread
          Runners,   \* tasks in run_queue
          Lines,     \* what is said, each once
          Blanks,    \* of them those with no text: it is opened, or continued
          None,      \* no line, no thread, nobody
          MaxSides,  \* bound: live sides made
          Scenes     \* what a behaviour keeps to: MAX_LIVE (places), and the
                     \* bounds: the lines said, the revocations and
                     \* reattachments (epochs), the live marks that no start
                     \* of its own makes (marks)

Sides == 1 .. MaxSides
Nothing == 0    \* no live side

ASSUME BoundsAssumption ==
  /\ MaxSides \in Nat
  /\ Scenes \subseteq [places : Nat \ {0}, lines : SUBSET Lines,
                      epochs : Nat, marks : Nat]
ASSUME BlanksAssumption == Blanks \subseteq Lines
\* What is counted: the live threads, and the starts under way.
ASSUME FiniteAssumption == IsFiniteSet(Threads) /\ IsFiniteSet(Callers)
ASSUME NoneAssumption == None \notin Threads \cup Callers \cup Lines

VARIABLES scene,    \* of Scenes
          link,     \* the state on each thread's link
          live,     \* Inner.live
          starting, \* Inner.starting
          made,     \* live sides made so far
          side,     \* each of them
          waking,   \* who holds Sides.waking
          caller, starter, runner,  \* the tasks
          carried,  \* lines of reopen_with's tasks, with their threads
          owed,     \* threads that archive_once_parked waits for
          epoch,    \* of the teammate's authority, closed where odd
          revoking, \* an invalidate has still to come to drop_sides
          dropping, \* live sides that drop_sides has still to end
          marks,    \* live marks so far
          lines,    \* history: what has become of each line
          ended     \* history: archived, and not brought back since

room == <<link, live, starting, made>>
archives == <<owed, ended>>
tasks == <<waking, caller, starter, runner, carried, archives>>
rest == <<epoch, revoking, dropping, marks, scene>>
vars == <<room, side, tasks, rest, lines>>

Unmade == [thread |-> None, phase |-> "open", going |-> "no", to |-> "none",
           idly |-> FALSE, agent |-> "none", lease |-> -1,
           running |-> FALSE, waiting |-> <<>>, marking |-> FALSE,
           fresh |-> FALSE, prior |-> FALSE, slipped |-> FALSE]
Idle == [pc |-> "idle", thread |-> None, line |-> None, side |-> Nothing,
         lease |-> -1, continuing |-> FALSE, prior |-> FALSE]
Free == [pc |-> "free", side |-> Nothing, line |-> None, ending |-> FALSE]

Init == /\ scene \in Scenes
        /\ link = [t \in Threads |-> "none"]
        /\ live = [t \in Threads |-> Nothing]
        /\ starting = 0 /\ made = 0
        /\ side = [s \in Sides |-> Unmade]
        /\ waking = None
        /\ caller = [k \in Callers |-> Idle]
        /\ starter = [s \in Sides |-> "none"]
        /\ runner = [r \in Runners |-> Free]
        /\ carried = {} /\ owed = {}
        /\ epoch = 0 /\ revoking = FALSE /\ dropping = {} /\ marks = 0
        /\ ended = {}
        /\ lines = [l \in Lines |-> IF l \in scene.lines THEN "unsaid"
                                                   ELSE "unused"]
-----------------------------------------------------------------------------
Valid(lease) == lease = epoch /\ epoch % 2 = 0

InRoom(s) == \E t \in Threads : live[t] = s

(* LiveSide::answering.                                                    *)
Answering(s) == side[s].phase = "open" /\ Valid(side[s].lease)

Fate(ls, fate) == lines' = [l \in Lines |-> IF l \in ls THEN fate
                                            ELSE lines[l]]

At(k, pc) == caller[k].pc = pc
Goes(k, pc) == caller' = [caller EXCEPT ![k].pc = pc]

(* A caller is done: its reservation and the admission go with it.         *)
Leaves(k) == /\ caller' = [caller EXCEPT ![k] = Idle]
             /\ waking' = IF waking = k THEN None ELSE waking

(* Phase::claim, and what the ending is to come to.                        *)
Claims(s, phase, to, idly) ==
  /\ side[s].phase = "open"
  /\ side' = [side EXCEPT ![s].phase = phase, ![s].going = "claimed",
                          ![s].to = to, ![s].idly = idly]

(* end_side: the first ending to claim it is the one that happens.         *)
Ends(s, phase, to) == IF side[s].phase = "open"
                      THEN Claims(s, phase, to, FALSE)
                      ELSE UNCHANGED side

(* Mutant: the look at the queue and the claim are two steps, and a turn   *)
(* may begin between.                                                      *)
ParkLookingOnce(s) == Claims(s, "parking", "parked", Valid(side[s].lease))

(* park_if_idle, where it is idle and nobody else has claimed its end.     *)
ParkIdle(s) == /\ ~side[s].running
               /\ Claims(s, "parking", "parked", Valid(side[s].lease))
-----------------------------------------------------------------------------
(* Endings: carry_out, by whoever claimed.                                 *)

(* History: what is dropped in a thread let go of as idle, its authority   *)
(* standing, is lost, save where the claim of its queue had slipped.       *)
Dropped(s) == IF side[s].idly /\ ~side[s].slipped THEN "lost" ELSE "dropped"

(* What waits is dropped, the authority revoked, the agent stopped if it   *)
(* is up.                                                                  *)
LetGo(s) ==
  /\ side[s].going = "claimed"
  /\ side' = [side EXCEPT ![s].going = "silent", ![s].waiting = <<>>,
                          ![s].lease = -1,
                          ![s].agent = IF @ = "up" THEN "stopped" ELSE @]
  /\ Fate(Range(side[s].waiting), Dropped(s))
  /\ UNCHANGED <<room, tasks, rest>>

(* mark_side waits for a mark that was decided before; write_link does not.*)
Writes(s) == side[s].to # "prior" => ~side[s].marking

WriteEnd(s) ==
  /\ side[s].going = "silent" /\ Writes(s)
  /\ link' = [link EXCEPT ![side[s].thread] =
                IF side[s].to = "parked" THEN "parked" ELSE "closed"]
  /\ side' = [side EXCEPT ![s].going = "written"]
  /\ UNCHANGED <<live, starting, made, tasks, rest, lines>>

(* Mutant: a thread that is archived stays in the map.                     *)
LeavesParked(s) ==
  /\ side[s].going = "written"
  /\ live' = [t \in Threads |-> IF live[t] = s /\ side[s].to = "parked"
                                THEN Nothing ELSE live[t]]
  /\ side' = [side EXCEPT ![s].going = "gone"]
  /\ UNCHANGED <<link, starting, made, tasks, rest, lines>>

(* Sides::leave, by pointer.                                               *)
Leave(s) ==
  /\ side[s].going = "written"
  /\ live' = [t \in Threads |-> IF live[t] = s THEN Nothing ELSE live[t]]
  /\ side' = [side EXCEPT ![s].going = "gone"]
  /\ UNCHANGED <<link, starting, made, tasks, rest, lines>>

Going(s) == LetGo(s) \/ WriteEnd(s) \/ Leave(s)

Carried(s) == side[s].going \in {"no", "gone"}
-----------------------------------------------------------------------------
(* Live marks: mark_side(Live), which another task may make at any time a  *)
(* thread is live (a name, a handoff, the session of a turn).              *)

Markable(s) == ~side[s].marking /\ side[s].phase = "open"

Mark(s) == /\ marks < scene.marks /\ marks' = marks + 1
           /\ InRoom(s) /\ Markable(s)
           /\ side' = [side EXCEPT ![s].marking = TRUE]
           /\ UNCHANGED <<room, tasks, epoch, revoking, dropping, lines,
                          scene>>

Marked(s) == /\ side[s].marking
             /\ side' = [side EXCEPT ![s].marking = FALSE]
             /\ link' = [link EXCEPT ![side[s].thread] = "live"]
             /\ UNCHANGED <<live, starting, made, tasks, rest, lines>>
-----------------------------------------------------------------------------
(* Turns: queue_in_side and run_queue.                                     *)

(* Turns::claim, and the task a claim spawns.                              *)
Claim(s, l) ==
  IF side[s].running
  THEN /\ side' = [side EXCEPT ![s].waiting = Append(@, l)]
       /\ UNCHANGED runner
  ELSE /\ side' = [side EXCEPT ![s].running = TRUE]
       /\ \E r \in Runners :
            /\ runner[r].pc = "free"
            /\ runner' = [runner EXCEPT ![r] =
                 [Free EXCEPT !.pc = "door", !.side = s, !.line = l]]

(* queue_in_side: for a thread being let go of, reopen_with.               *)
Queue(s, l) ==
  IF side[s].phase = "parking"
  THEN /\ carried' = carried \cup {<<side[s].thread, l>>}
       /\ UNCHANGED <<side, runner>>
  ELSE Claim(s, l) /\ UNCHANGED carried

Runs(r, pc) == runner' = [runner EXCEPT ![r].pc = pc]

(* The top of the loop: one that does not answer drops what it was given.  *)
Begin(r) ==
  LET s == runner[r].side IN
  /\ runner[r].pc = "door"
  /\ IF Answering(s)
     THEN Runs(r, "turn") /\ Fate({runner[r].line}, "heard")
     ELSE Runs(r, "rest") /\ Fate({runner[r].line}, Dropped(s))
  /\ UNCHANGED <<room, side, waking, caller, starter, carried, archives, rest>>

(* The turn ends; the agent may have said it is done (archive_note), or    *)
(* what it answered closes the thread.                                     *)
EndTurn(r) ==
  LET s == runner[r].side IN
  /\ runner[r].pc = "turn"
  /\ \/ /\ side[s].phase = "open"
        /\ Runs(r, "next") /\ UNCHANGED side
     \/ /\ runner' = [runner EXCEPT ![r].pc = "stop",
                          ![r].ending = side[s].phase = "open"]
        /\ Ends(s, "closing", "closed")
  /\ UNCHANGED <<room, waking, caller, starter, carried, archives, rest,
                 lines>>

(* finish_side is over; one that another had claimed is not waited for.    *)
Stops(r) == /\ runner[r].pc = "stop"
            /\ runner[r].ending => side[runner[r].side].going = "gone"
            /\ Runs(r, "rest")
            /\ UNCHANGED <<room, side, waking, caller, starter, carried,
                           archives, rest, lines>>

(* Turns::next_line, the release of the claim with the look.               *)
NextLine(r) ==
  LET s == runner[r].side IN
  /\ runner[r].pc = "next"
  /\ IF side[s].waiting = <<>>
     THEN /\ side' = [side EXCEPT ![s].running = FALSE]
          /\ Runs(r, "rest")
     ELSE /\ side' = [side EXCEPT ![s].waiting = Tail(@)]
          /\ runner' = [runner EXCEPT ![r].pc = "door",
                                      ![r].line = Head(side[s].waiting)]
  /\ UNCHANGED <<room, waking, caller, starter, carried, archives, rest,
                 lines>>

(* rest lets go of the claim, which next_line had let go of already where  *)
(* the queue was empty: it slips from whoever has taken it since.          *)
Rest(r) ==
  LET s == runner[r].side IN
  /\ runner[r].pc = "rest"
  /\ side' = [side EXCEPT
       ![s].running = FALSE,
       ![s].slipped = @ \/ \E q \in Runners \ {r} :
                              /\ runner[q].side = s
                              /\ runner[q].pc # "rest"]

Rests(r) == /\ Rest(r)
            /\ runner' = [runner EXCEPT ![r] = Free]
            /\ UNCHANGED <<room, waking, caller, starter, carried, archives,
                           rest, lines>>

RunQueue(r) == Begin(r) \/ Stops(r) \/ NextLine(r) \/ Rests(r)
-----------------------------------------------------------------------------
(* Starts: launch.                                                         *)

(* start_agent: the agent is set before `closed` is looked at.             *)
Built(s) ==
  /\ starter[s] = "building"
  /\ \/ /\ side' = [side EXCEPT ![s].agent = "up"]
        /\ starter' = [starter EXCEPT ![s] = "up"]
     \/ starter' = [starter EXCEPT ![s] = "failed"] /\ UNCHANGED side
  /\ UNCHANGED <<room, waking, caller, runner, carried, archives, rest, lines>>

(* Mutant: the look is at the thread as it was before the agent was set.   *)
LooksTooSoon(s) ==
  /\ starter[s] = "up"
  /\ starter' = [starter EXCEPT ![s] = "take"]
  /\ UNCHANGED <<room, side, waking, caller, runner, carried, archives, rest,
                 lines>>

(* The thread may have ended meanwhile: then this stops the agent.         *)
LooksUp(s) ==
  /\ starter[s] = "up"
  /\ IF side[s].phase = "open"
     THEN starter' = [starter EXCEPT ![s] = "take"] /\ UNCHANGED side
     ELSE /\ starter' = [starter EXCEPT ![s] = "done"]
          /\ side' = [side EXCEPT ![s].agent = "stopped"]
  /\ UNCHANGED <<room, waking, caller, runner, carried, archives, rest,
                 lines>>

(* The first of the lines that waited for the start, if there is one.      *)
TakesFirst(s) ==
  /\ starter[s] = "take"
  /\ starter' = [starter EXCEPT ![s] = "done"]
  /\ IF side[s].waiting = <<>>
     THEN side' = [side EXCEPT ![s].running = FALSE] /\ UNCHANGED runner
     ELSE /\ side' = [side EXCEPT ![s].waiting = Tail(@)]
          /\ \E r \in Runners :
               /\ runner[r].pc = "free"
               /\ runner' = [runner EXCEPT ![r] =
                    [Free EXCEPT !.pc = "door", !.side = s,
                                 !.line = Head(side[s].waiting)]]
  /\ UNCHANGED <<room, waking, caller, carried, archives, rest, lines>>

(* start_failed: a new thread is closed, one continued closed as it was,   *)
(* any other parked.                                                       *)
StartFails(s) ==
  /\ starter[s] = "failed"
  /\ starter' = [starter EXCEPT ![s] = "done"]
  /\ CASE side[s].fresh -> Ends(s, "closing", "closed")
       [] ~side[s].fresh /\ side[s].prior -> Ends(s, "closing", "prior")
       [] OTHER -> Ends(s, "parking", "parked")
  /\ UNCHANGED <<room, waking, caller, runner, carried, archives, rest, lines>>

Start(s) == LooksUp(s) \/ TakesFirst(s) \/ StartFails(s)
-----------------------------------------------------------------------------
(* What is said in a thread, and what opens one.                           *)

(* prompt_side_replying, or a delivery or continue_side, either of which   *)
(* also continues a closed one.                                            *)
Ask(k, t, l, continuing) ==
  /\ At(k, "idle") /\ lines[l] = "unsaid" /\ link[t] # "none"
  /\ l \in Blanks => continuing
  /\ caller' = [caller EXCEPT ![k] = [Idle EXCEPT !.pc = "knock",
                                        !.thread = t, !.line = l,
                                        !.continuing = continuing]]
  /\ Fate({l}, "said")
  /\ UNCHANGED <<room, side, waking, starter, runner, carried, archives, rest>>

(* reopen_with's task.                                                     *)
Reopen(k) ==
  /\ At(k, "idle")
  /\ \E c \in carried :
       /\ carried' = carried \ {c}
       /\ caller' = [caller EXCEPT ![k] = [Idle EXCEPT !.pc = "knock",
                                             !.thread = c[1],
                                             !.line = c[2]]]
  /\ UNCHANGED <<room, side, waking, starter, runner, archives, rest, lines>>

(* start_side, or a handoff: a thread of its own, without the admission.   *)
Open(k, t, l) ==
  /\ At(k, "idle") /\ lines[l] = "unsaid"
  /\ \A j \in Callers : caller[j].thread # t
  /\ \A s \in 1 .. made : side[s].thread # t
  /\ Valid(epoch)
  /\ caller' = [caller EXCEPT ![k] = [Idle EXCEPT !.pc = "reserve",
                                        !.thread = t, !.line = l,
                                        !.lease = epoch]]
  /\ Fate({l}, "said")
  /\ UNCHANGED <<room, side, waking, starter, runner, carried, archives, rest>>

Admitted(k) == /\ At(k, "knock") /\ waking = None
               /\ waking' = k /\ Goes(k, "look")
               /\ UNCHANGED <<room, side, starter, runner, carried, archives,
                              rest, lines>>

(* live_side, then standing, which waits for one that is ending.           *)
Standing(t) == IF live[t] = Nothing THEN "stored"
               ELSE IF side[live[t]].phase # "open" THEN "ending" ELSE "live"

(* wake_work refuses: not live any more, or archived.                      *)
Refuses(k) == Leaves(k) /\ Fate({caller[k].line}, "refused")

Looks(k) ==
  LET t == caller[k].thread IN
  /\ At(k, "look")
  /\ \/ /\ Standing(t) = "live" /\ Answering(live[t])
        /\ caller' = [caller EXCEPT ![k].pc = "say", ![k].side = live[t]]
        /\ UNCHANGED <<waking, lines>>
     \/ /\ Standing(t) = "live" /\ ~Answering(live[t])
        /\ Refuses(k)
     \/ /\ Standing(t) = "stored"
        /\ IF /\ link[t] \in {"parked"} \cup
                           IF caller[k].continuing THEN {"closed"} ELSE {}
              /\ Valid(epoch)
           THEN /\ caller' = [caller EXCEPT ![k].pc = "reserve",
                                            ![k].lease = epoch]
                /\ UNCHANGED <<waking, lines>>
           ELSE Refuses(k)
  /\ UNCHANGED <<room, side, starter, runner, carried, archives, rest>>

Held == {t \in Threads : live[t] # Nothing}

Places == Cardinality(Held) + starting

(* Sides::reserve; which of those that are idle is not told apart.  With   *)
(* the place goes a look at what the thread was before.                    *)
Reserve(k) ==
  /\ At(k, "reserve")
  /\ IF Places < scene.places
     THEN /\ starting' = starting + 1
          /\ caller' = [caller EXCEPT
               ![k].pc = "publish",
               ![k].prior = link[caller[k].thread] = "closed"]
          /\ UNCHANGED <<waking, lines>>
     ELSE LET idle == {t \in Held : /\ side[live[t]].phase = "open"
                                    /\ ~side[live[t]].running} IN
          /\ UNCHANGED starting
          /\ IF idle = {} THEN Refuses(k)
             ELSE /\ \E t \in idle :
                       caller' = [caller EXCEPT ![k].pc = "evict",
                                                ![k].side = live[t]]
                  /\ UNCHANGED <<waking, lines>>
  /\ UNCHANGED <<link, live, made, side, starter, runner, carried, archives,
                 rest>>

(* park_if_idle of the one picked, and its end carried out by this task.   *)
Evict(k) ==
  /\ At(k, "evict")
  /\ IF side[caller[k].side].running \/ side[caller[k].side].phase # "open"
     THEN Goes(k, "reserve") /\ UNCHANGED side
     ELSE ParkIdle(caller[k].side) /\ Goes(k, "evicting")
  /\ UNCHANGED <<room, waking, starter, runner, carried, archives, rest,
                 lines>>

Evicted(k) ==
  /\ At(k, "evicting") /\ side[caller[k].side].going = "gone"
  /\ Goes(k, "reserve")
  /\ UNCHANGED <<room, side, waking, starter, runner, carried, archives, rest,
                 lines>>

(* The reservation is dropped.                                             *)
GivesBack == starting' = starting - 1

Current(k) == Valid(caller[k].lease)

(* bring_up, once it has a place: publication and revocation share a lock. *)
Publish(k) ==
  LET t == caller[k].thread IN
  /\ At(k, "publish")
  /\ IF Current(k)
     THEN /\ made < MaxSides /\ made' = made + 1
          /\ live' = [live EXCEPT ![t] = made']
          /\ side' = [side EXCEPT ![made'] =
               [Unmade EXCEPT !.thread = t, !.lease = caller[k].lease,
                              !.running = TRUE, !.fresh = link[t] = "none",
                              !.prior = caller[k].prior]]
          /\ caller' = [caller EXCEPT ![k].pc = "mark", ![k].side = made']
          /\ ended' = ended \ {t}
          /\ UNCHANGED <<starting, waking, lines>>
     ELSE GivesBack /\ Refuses(k) /\ UNCHANGED <<live, made, side, ended>>
  /\ UNCHANGED <<link, starter, runner, carried, owed, rest>>

(* Its own live mark, unless the thread has ended.                         *)
MarksLive(k) ==
  LET s == caller[k].side IN
  /\ At(k, "mark") /\ ~side[s].marking
  /\ Goes(k, "marked")
  /\ side' = [side EXCEPT ![s].marking = Markable(s)]
  /\ UNCHANGED <<room, waking, starter, runner, carried, archives, rest,
                 lines>>

(* The reservation ends with bring_up.                                     *)
BroughtUp(k) == /\ At(k, "marked") /\ ~side[caller[k].side].marking
                /\ GivesBack /\ Goes(k, "say")
                /\ UNCHANGED <<link, live, made, side, waking, starter,
                               runner, carried, archives, rest, lines>>

(* say_in_side, and then launch of the one it brought up.                  *)
Say(k) ==
  LET s == caller[k].side IN
  /\ At(k, "say")
  /\ IF caller[k].line \in Blanks
     THEN /\ UNCHANGED <<side, runner, carried>>
          /\ Fate({caller[k].line}, "heard")
     ELSE Queue(s, caller[k].line) /\ UNCHANGED lines
  /\ starter' = IF caller[k].lease = -1 THEN starter
                ELSE [starter EXCEPT ![s] = "building"]
  /\ Leaves(k)
  /\ UNCHANGED <<room, archives, rest>>

Call(k) == \/ Reopen(k) \/ Admitted(k) \/ Looks(k) \/ Reserve(k) \/ Evict(k)
           \/ Evicted(k) \/ Publish(k) \/ MarksLive(k) \/ BroughtUp(k)
           \/ Say(k)
-----------------------------------------------------------------------------
(* Ends from outside.                                                      *)

(* park_when_quiet and park_side_thread: decided again where the park is.  *)
Park(t) == /\ live[t] # Nothing /\ ParkIdle(live[t])
           /\ UNCHANGED <<room, tasks, rest, lines>>

(* Mutant: one that is being let go of is archived there and then.         *)
ArchiveAtOnce(t) ==
  IF live[t] # Nothing
  THEN Ends(live[t], "closing", "closed") /\ UNCHANGED <<link, owed>>
  ELSE /\ link[t] = "parked"
       /\ link' = [link EXCEPT ![t] = "closed"]
       /\ UNCHANGED <<side, owed>>

(* close_side; one being let go of is archived once it is parked.          *)
CloseSide(t) ==
  IF live[t] # Nothing
  THEN /\ UNCHANGED link
       /\ IF side[live[t]].phase = "parking"
          THEN owed' = owed \cup {t} /\ UNCHANGED side
          ELSE Ends(live[t], "closing", "closed") /\ UNCHANGED owed
  ELSE /\ link[t] = "parked"
       /\ link' = [link EXCEPT ![t] = "closed"]
       /\ UNCHANGED <<side, owed>>

Archive(t) == /\ CloseSide(t) /\ ended' = ended \cup {t}
              /\ UNCHANGED <<live, starting, made, waking, caller, starter,
                             runner, carried, rest, lines>>

(* archive_once_parked: what is neither parked nor live has been ended.    *)
ArchiveOwed(t) ==
  /\ t \in owed /\ Standing(t) # "ending"
  /\ owed' = owed \ {t} /\ ended' = ended \cup {t}
  /\ IF live[t] # Nothing
     THEN Ends(live[t], "closing", "closed") /\ UNCHANGED link
     ELSE /\ link' = [link EXCEPT ![t] = IF @ = "parked" THEN "closed"
                                         ELSE @]
          /\ UNCHANGED side
  /\ UNCHANGED <<live, starting, made, waking, caller, starter, runner,
                 carried, rest, lines>>

(* The person's Stop in a thread drops what waits behind its turn.         *)
Stop(s) ==
  /\ InRoom(s) /\ Answering(s) /\ side[s].waiting # <<>>
  /\ side' = [side EXCEPT ![s].waiting = <<>>]
  /\ Fate(Range(side[s].waiting), "dropped")
  /\ UNCHANGED <<room, tasks, rest>>

(* invalidate: the epoch is closed, and then what is live is ended.        *)
Invalidate == /\ epoch < scene.epochs /\ epoch % 2 = 0
              /\ epoch' = epoch + 1
              /\ revoking' = TRUE
              /\ UNCHANGED <<room, side, tasks, dropping, marks, lines, scene>>

(* drop_sides.                                                             *)
Drops == /\ revoking /\ revoking' = FALSE
         /\ dropping' = {live[t] : t \in Held}
         /\ UNCHANGED <<room, side, tasks, epoch, marks, lines, scene>>

Drop(s) == /\ s \in dropping
           /\ dropping' = dropping \ {s}
           /\ Ends(s, "closing", "closed")
           /\ UNCHANGED <<room, tasks, epoch, revoking, marks, lines, scene>>

(* Reattachment, once invalidate has returned.                             *)
Reattach == /\ epoch % 2 = 1 /\ ~revoking /\ dropping = {}
            /\ epoch < scene.epochs
            /\ epoch' = epoch + 1
            /\ UNCHANGED <<room, side, tasks, revoking, dropping, marks,
                           lines, scene>>
-----------------------------------------------------------------------------
(* An agent takes as long as it likes over its start and its turns; only   *)
(* one that was stopped ends the turn it was in (Driver::invalidate).      *)
AgentSteps == \/ \E s \in Sides : Built(s)
              \/ \E r \in Runners : EndTurn(r)

Stopped(r) == side[runner[r].side].agent = "stopped"

Owed == \/ \E s \in Sides : Going(s) \/ Marked(s) \/ Start(s) \/ Drop(s)
        \/ \E r \in Runners : RunQueue(r) \/ (EndTurn(r) /\ Stopped(r))
        \/ \E k \in Callers : Call(k)
        \/ \E t \in Threads : ArchiveOwed(t)
        \/ Drops

Next == \/ Owed \/ AgentSteps
        \/ \E k \in Callers, t \in Threads, l \in Lines :
             \/ \E continuing \in BOOLEAN : Ask(k, t, l, continuing)
             \/ Open(k, t, l)
        \/ \E t \in Threads : Park(t) \/ Archive(t)
        \/ \E s \in Sides : Mark(s) \/ Stop(s)
        \/ Invalidate \/ Reattach

Spec == Init /\ [][Next]_vars /\ WF_vars(Owed)
-----------------------------------------------------------------------------
(* The variables keep to their types; a thread is open until an ending is  *)
(* claimed, and a place is reserved by every start that was granted one,   *)
(* until its thread is marked live or it is refused.                       *)
TypeOK ==
  /\ link \in [Threads -> {"none", "live", "parked", "closed"}]
  /\ live \in [Threads -> Sides \cup {Nothing}] /\ made \in 0 .. MaxSides
  /\ \A s \in Sides : /\ side[s].phase \in {"open", "parking", "closing"}
                      /\ Range(side[s].waiting) \subseteq Lines
                      /\ side[s].phase = "open" <=> side[s].going = "no"
  /\ waking \in Callers \cup {None}
  /\ \A k \in Callers : caller[k].side \in Sides \cup {Nothing}
  /\ \A r \in Runners : runner[r].side \in Sides \cup {Nothing}
  /\ carried \subseteq Threads \X Lines
  /\ owed \cup ended \subseteq Threads
  /\ epoch \in 0 .. scene.epochs /\ dropping \subseteq Sides
  /\ starting = Cardinality({k \in Callers :
                              caller[k].pc \in {"publish", "mark", "marked"}})

(* A thread has one agent at a time: whatever has not been let go of to    *)
(* the end is the one in the room's map, so that no other was started      *)
(* beside it (Sides::waking, Room::standing).                              *)
OneLive == \A s \in 1 .. made : side[s].going # "gone"
                                  => live[side[s].thread] = s

(* A teammate never has more than MAX_LIVE threads, however many starts    *)
(* are under way at once.                                                  *)
WithinPlaces == Cardinality(Held) <= scene.places

Brought(t) == \E k \in Callers : /\ caller[k].side = live[t]
                                 /\ caller[k].pc \in {"mark", "marked"}

(* The link and the map agree, as far as anyone asking can tell: no link   *)
(* says live with no thread behind it, and none that is live and marked    *)
(* says otherwise.  A live mark that was decided before a failed start put *)
(* a continued thread back may still land after it: Ending::Restore writes *)
(* its link without the lock that a mark is made under.                    *)
LinkIsTrue ==
  \A t \in Threads :
    /\ live[t] = Nothing /\ link[t] = "live"
         => \E s \in 1 .. made : side[s].thread = t /\ side[s].to = "prior"
    /\ live[t] # Nothing /\ side[live[t]].phase = "open" /\ ~Brought(t)
         => link[t] = "live"

(* A line that waits in a thread that answers has someone to take it: its  *)
(* turn loop, before it looks at the queue, or the start it waits for.     *)
LineIsKept ==
  \A s \in 1 .. made :
    Answering(s) /\ side[s].waiting # <<>>
      => \/ \E r \in Runners : /\ runner[r].side = s
                               /\ runner[r].pc \in {"door", "turn", "next"}
         \/ starter[s] # "done"

(* Once a revocation has swept the teammate's threads none is open under   *)
(* the authority it ended, whatever start it raced: publication looks at   *)
(* the authority under the lock that revocation takes.                     *)
RevokedIsEnded ==
  \A t \in Held : side[live[t]].phase = "open"
                    => \/ side[live[t]].lease = epoch
                       \/ revoking \/ live[t] \in dropping

(* What is said in a thread as it is let go of is not lost: it begins a    *)
(* turn first, or is carried to the thread's next agent (park_if_idle,     *)
(* queue_in_side, reopen_with).                                            *)
ParkLosesNothing == \A l \in Lines : lines[l] # "lost"

(* A thread ended while its agent starts leaves no agent behind: the end   *)
(* stops it, or the start does, as each looks after it has left its mark.  *)
NoAgentLeft == \A s \in 1 .. made :
  side[s].going = "gone" /\ starter[s] = "done" => side[s].agent # "up"

Quiet == /\ \A s \in 1 .. made : Carried(s) /\ ~side[s].marking
         /\ \A s \in 1 .. made : starter[s] = "done"
         /\ \A r \in Runners : runner[r].pc = "free"
         /\ \A k \in Callers : caller[k] = Idle
         /\ carried = {} /\ owed = {} /\ dropping = {} /\ ~revoking

(* When nothing is under way every line that was said has been heard,      *)
(* refused or dropped by what ended or stopped its thread, save one that   *)
(* reached a thread after its close had drained it: nobody fails that one. *)
NoLineLost ==
  Quiet => \A l \in Lines :
    lines[l] = "said" => \E s \in 1 .. made :
                            /\ l \in Range(side[s].waiting)
                            /\ side[s].phase = "closing"

(* A thread that was archived, or was to be once it was parked, is not     *)
(* live or left parked when nothing is under way, unless it was brought    *)
(* back since (archive_once_parked).                                       *)
EndHolds == Quiet => \A t \in ended : live[t] = Nothing /\ link[t] # "parked"

OutOfSides == made = MaxSides /\ \E k \in Callers : At(k, "publish")

(* All that is still to come is an agent's: a start, or a turn of one that *)
(* was not stopped.                                                        *)
AwaitsAgents ==
  /\ \A s \in 1 .. made : Carried(s) /\ ~side[s].marking
  /\ \A s \in 1 .. made : starter[s] \in {"building", "done"}
  /\ \A r \in Runners : \/ runner[r].pc = "free"
                        \/ runner[r].pc = "turn" /\ ~Stopped(r)
  /\ \A k \in Callers : caller[k] = Idle
  /\ carried = {} /\ owed = {} /\ dropping = {} /\ ~revoking

(* Nobody waits for ever but for an agent, and for that only its own start *)
(* or line does: whatever agents work on or never come up, every ending,   *)
(* archive, revocation and caller gets to its end, whatever start waits    *)
(* for an ending, park for a start or caller for the admission.  Only the  *)
(* bound on live sides holds a start up.                                   *)
Settles == []<>(AwaitsAgents \/ OutOfSides)

(* The threads, their agents and their links agree, within the limit: one  *)
(* agent a thread, none left behind, none under an authority that ended.   *)
ThreadsAgree == /\ TypeOK /\ OneLive /\ WithinPlaces /\ LinkIsTrue
                /\ RevokedIsEnded /\ NoAgentLeft

(* No line is lost between a thread's agents: not as one parks, and not    *)
(* as it ends or starts.                                                   *)
LinesSurvive == LineIsKept /\ ParkLosesNothing /\ NoLineLost
=============================================================================
