------------------------------ MODULE DmTurns ------------------------------
(***************************************************************************)
(* The main conversation of one teammate: the person's lines, the queue    *)
(* behind the agent's turn and the one loop over it                        *)
(* (session/turns.rs, session/dm.rs, session/prompt.rs), steering, Stop,   *)
(* and the stop of the whole desk for a restart, which keeps the lines     *)
(* still waiting in pending.json, with the next start that hands them on   *)
(* (session/stopping.rs).                                                  *)
(*                                                                         *)
(* A person's line is its place on the tape.  Everything else the agent is *)
(* told (a delivery, a nudge, a wake, work it took up by itself, a retry)  *)
(* is Other: it waits in the same queue and is not kept over a restart.    *)
(* One session serves a start of the desk: its end is Revoke here, and     *)
(* what replaces it is SessionStart's.                                     *)
(***************************************************************************)
EXTENDS Integers, Sequences, FiniteSets, SequencesExt

CONSTANTS Callers,      \* connections the person's lines arrive on
          Runners,      \* tasks that may be driving the queue
          MaxLines,     \* bound: lines the person says
          Spoken,       \* the lines said on a call, which never steer
          MaxOthers,    \* bound: lines that are not the person's
          MaxStarts,    \* bound: starts of the desk
          None          \* nobody

Lines == 1..MaxLines
Other == 0
Items == Lines \cup {Other}

ASSUME BoundsAssumption == /\ MaxLines \in Nat
                           /\ MaxOthers \in Nat
                           /\ MaxStarts \in Nat \ {0}
ASSUME LinesAssumption == /\ Spoken \subseteq Lines
                          /\ {None, "resume"} \cap Callers = {}
                          /\ None # "resume"
                          /\ Callers \cap Runners = {}

VARIABLES
  tape,     \* each line's receipt on the tape
  file,     \* pending.json
  session,  \* the teammate's session
  driver,   \* its agent's turn
  gate,     \* holder of the teammate's start gate
  caller,   \* the prompts and deliveries under way
  runner,   \* the tasks in run_queue
  resume,   \* resume_pending
  stop,     \* stop_for_restart
  others,   \* lines so far that were not the person's
  starts,   \* starts of the desk so far
  refused,  \* history: a claimed delivery could not be written since the start
  heard,    \* history: what the agent was told since the start, in order
  taken,    \* history: the person's lines an agent was ever told
  fate      \* history: how a line that was let go of last was

told == <<heard, taken>>
ghosts == <<told, fate>>
calls == <<gate, caller>>
era == <<starts, refused>>
vars == <<tape, file, session, driver, calls, runner, resume, stop, others,
          era, ghosts>>

Fresh == [alive |-> TRUE, waiting |-> <<>>, running |-> FALSE, unread |-> {},
          shown |-> "ready"]
NoTurn == [cancelled |-> FALSE, byRestart |-> FALSE, inbox |-> <<>>]
Free == [pc |-> "free", line |-> Other]
NoResume == [pc |-> "done", todo |-> <<>>, left |-> <<>>]
NoStop == [pc |-> "off", kept |-> <<>>, shut |-> FALSE]

(* A desk just started on this data: session, locks and tasks are new.     *)
Started ==
  /\ session' = Fresh
  /\ driver' = NoTurn
  /\ gate' = None
  /\ caller' = [c \in Callers |-> "idle"]
  /\ runner' = [r \in Runners |-> Free]
  /\ resume' = [pc |-> "read", todo |-> <<>>, left |-> <<>>]
  /\ stop' = NoStop
  /\ heard' = <<>>

Init == /\ tape = [l \in Lines |-> "unsaid"]
        /\ file = <<>>
        /\ session = Fresh
        /\ driver = NoTurn
        /\ gate = None
        /\ caller = [c \in Callers |-> "idle"]
        /\ runner = [r \in Runners |-> Free]
        /\ resume = NoResume
        /\ stop = NoStop
        /\ others = 0
        /\ starts = 1
        /\ refused = FALSE
        /\ heard = <<>>
        /\ taken = {}
        /\ fate = [l \in Lines |-> "none"]
-----------------------------------------------------------------------------
closing == stop.pc # "off"

(* Occupant::answering: nothing brings a revoked session back.             *)
answering == session.alive

(* The members of a sequence that are in a set, in their order.            *)
Filter(s, T) ==
  LET of[n \in 0..Len(s)] == IF n = 0 THEN <<>>
                             ELSE IF s[n] \in T THEN Append(of[n - 1], s[n])
                             ELSE of[n - 1]
  IN of[Len(s)]

Persons(items) == Filter(items, Lines)

(* The lines let go of here, and how.                                      *)
Lose(lines, how) ==
  fate' = [l \in Lines |-> IF l \in lines THEN how ELSE fate[l]]

(* keep_pending: what is kept already stays, and is not kept twice.        *)
Kept(pending, lines) ==
  pending \o Filter(lines, Lines \ Range(pending))

(* Its callers log a file that cannot be written, and go on without it.    *)
KeepPending(lines) ==
  \/ /\ file' = Kept(file, lines)
     /\ UNCHANGED fate
  \/ /\ lines # <<>>
     /\ Lose(Range(lines) \ Range(file), "unwritten")
     /\ UNCHANGED file

At(r, pc) == runner[r].pc = pc

(* The task a claim spawns.                                                *)
Spawn(r, item) == /\ At(r, "free")
                  /\ runner' = [runner EXCEPT ![r] = [pc |-> "loop", line |-> item]]

(* Turns::claim, for a line that finds the queue as it is.                 *)
Claim(item) ==
  \/ /\ session.running
     /\ session' = [session EXCEPT !.waiting = Append(@, item)]
     /\ UNCHANGED runner
  \/ /\ ~session.running
     /\ session' = [session EXCEPT !.running = TRUE]
     /\ \E r \in Runners : Spawn(r, item)

(* Mutant: a dispatch does not look at whether the desk is closing.        *)
DispatchBlindly(item) == Claim(item) /\ UNCHANGED <<file, fate>>

(* Mutant: the look at the queue and the claim are two locks, so a line    *)
(* may be filed behind a turn that has ended.                              *)
DispatchInTwoLooks(item) ==
  \/ DispatchBlindly(item)
  \/ /\ \E r \in Runners : At(r, "rest")
     /\ session' = [session EXCEPT !.waiting = Append(@, item)]
     /\ UNCHANGED <<runner, file, fate>>

(* Room::dispatch: what reaches the queue after the stop emptied it goes   *)
(* where the rest went (keep_late).                                        *)
Dispatch(item) ==
  \/ /\ closing
     /\ KeepPending(Persons(<<item>>))
     /\ UNCHANGED <<session, runner>>
  \/ /\ ~closing
     /\ Claim(item)
     /\ UNCHANGED <<file, fate>>
-----------------------------------------------------------------------------
(* A prompt: refused once the desk is closing, then behind the start gate. *)
Ask(c) ==
  /\ caller[c] = "idle"
  /\ ~closing
  /\ caller' = [caller EXCEPT ![c] = "asked"]
  /\ UNCHANGED <<tape, file, session, driver, gate, runner, resume, stop, others,
                 era, ghosts>>

(* in_this_chapter, which finds no session once it has been revoked.       *)
Enter(c) ==
  /\ caller[c] = "asked"
  /\ gate = None
  /\ \/ /\ answering
        /\ gate' = c
        /\ caller' = [caller EXCEPT ![c] = "gated"]
     \/ /\ ~answering
        /\ caller' = [caller EXCEPT ![c] = "idle"]
        /\ UNCHANGED gate
  /\ UNCHANGED <<tape, file, session, driver, runner, resume, stop, others,
                 era, ghosts>>

(* say: the line goes on the tape before it goes anywhere else.            *)
Say(c) ==
  /\ caller[c] = "gated"
  /\ \E l \in Lines : /\ tape[l] = "unsaid"
                      /\ \A k \in 1..(l - 1) : tape[k] # "unsaid"
                      /\ tape' = [tape EXCEPT ![l] = "sent"]
  /\ caller' = [caller EXCEPT ![c] = "said"]
  /\ UNCHANGED <<file, session, driver, gate, runner, resume, stop, others,
                 era, ghosts>>

(* The last line on the tape is the one whoever holds the gate just wrote. *)
Latest == CHOOSE l \in Lines : /\ tape[l] # "unsaid"
                               /\ \A k \in (l + 1)..MaxLines : tape[k] = "unsaid"

Leave(c) == /\ caller' = [caller EXCEPT ![c] = "idle"]
            /\ gate' = None

(* No provider to answer with, or nothing left that is to be said.         *)
Refuse(c) ==
  /\ caller[c] = "gated"
  /\ Leave(c)
  /\ UNCHANGED <<tape, file, session, driver, runner, resume, stop, others,
                 era, ghosts>>

HandOver(c) ==
  /\ caller[c] = "said"
  /\ Dispatch(Latest)
  /\ Leave(c)
  /\ UNCHANGED <<tape, driver, resume, stop, others, era, told>>

(* deliver_to_main and retry, behind the same gate.                        *)
Deliver(c) ==
  /\ caller[c] = "gated"
  /\ others < MaxOthers
  /\ others' = others + 1
  /\ Dispatch(Other)
  /\ Leave(c)
  /\ UNCHANGED <<tape, driver, resume, stop, era, told>>

(* deliver_to_main with idle_only: the queue is claimed before the line is *)
(* written, and the claim is given back if the disk refuses it.            *)
ClaimIdle(c) ==
  /\ caller[c] = "gated"
  /\ others < MaxOthers
  /\ others' = others + 1
  /\ \/ /\ session.running
        /\ Leave(c)
        /\ UNCHANGED session
     \/ /\ ~session.running
        /\ session' = [session EXCEPT !.running = TRUE]
        /\ caller' = [caller EXCEPT ![c] = "claimed"]
        /\ UNCHANGED gate
  /\ UNCHANGED <<tape, file, driver, runner, resume, stop, era, ghosts>>

DeliverClaimed(c) ==
  /\ caller[c] = "claimed"
  /\ \/ /\ \E r \in Runners : Spawn(r, Other)
        /\ UNCHANGED <<session, refused>>
     \/ /\ session' = [session EXCEPT !.running = FALSE]
        /\ refused' = TRUE
        /\ UNCHANGED runner
  /\ Leave(c)
  /\ UNCHANGED <<tape, file, driver, resume, stop, others, starts, ghosts>>

(* A nudge or a finished process, without the gate; a wake, only when      *)
(* nothing runs; and work the agent took up by itself, ahead of the rest.  *)
Nudge ==
  /\ others < MaxOthers
  /\ others' = others + 1
  /\ answering
  /\ ~stop.shut
  /\ \/ ~closing /\ Claim(Other)
     \/ /\ session.running
        /\ session' = [session EXCEPT !.waiting = <<Other>> \o @]
        /\ UNCHANGED runner
     \/ ~session.running /\ Claim(Other)
  /\ UNCHANGED <<tape, file, driver, calls, resume, stop, era, ghosts>>
-----------------------------------------------------------------------------
(* run_queue, up to what the agent is told.  What waits in the queue of a  *)
(* session that is over is let go of.                                      *)
LetGo(items) == Lose(Range(items) \ {Other}, "stopped")

Abandon(r) ==
  /\ ~answering
  /\ session' = [session EXCEPT !.waiting = <<>>, !.running = FALSE]
  /\ runner' = [runner EXCEPT ![r].pc = "rest"]
  /\ LetGo(session.waiting \o <<runner[r].line>>)

LoopTop(r) ==
  /\ At(r, "loop")
  /\ \/ Abandon(r)
     \/ /\ answering
        /\ runner' = [runner EXCEPT ![r].pc = "begin"]
        /\ UNCHANGED <<session, fate>>
  /\ UNCHANGED <<tape, file, driver, calls, resume, stop, others, era, told>>

(* Session::begin.  A result already heard, a question withdrawn, a wake   *)
(* with nothing left to hear: such a line is skipped at the door.          *)
Begin(r) ==
  /\ At(r, "begin")
  /\ \/ Abandon(r)
     \/ /\ answering
        /\ session' = [session EXCEPT !.shown = "thinking",
                         !.unread = @ \cup ({runner[r].line} \ {Other})]
        /\ runner' = [runner EXCEPT ![r].pc = "begun"]
        /\ UNCHANGED fate
     \/ /\ answering
        /\ runner[r].line = Other
        /\ session' = [session EXCEPT !.shown = "thinking"]
        /\ runner' = [runner EXCEPT ![r].pc = "next"]
        /\ UNCHANGED fate
  /\ UNCHANGED <<tape, file, driver, calls, resume, stop, others, era, told>>

Tell(items) == /\ heard' = heard \o Persons(items)
               /\ taken' = taken \cup Range(Persons(items))

(* Threads::drive asks the driver, which starts on a new stop and inbox.   *)
Prompt(r) ==
  /\ At(r, "begun")
  /\ driver' = NoTurn
  /\ Tell(<<runner[r].line>>)
  /\ runner' = [runner EXCEPT ![r].pc = "turn"]
  /\ UNCHANGED <<tape, file, session, calls, resume, stop, others, era,
                 fate>>

(* What the driver is offered, the first of the waiting lines that steer,  *)
(* and what the queue is left with once it took some.                      *)
Steering(items) == Filter(items, Lines \ Spoken)
Behind(items, given) == Filter(items, Items \ Range(given))

(* Turns::steer_into, which stops at the first line the driver refuses.    *)
SteerInto(r) ==
  /\ At(r, "turn")
  /\ answering
  /\ ~driver.cancelled
  /\ \E n \in 1..Len(Steering(session.waiting)) :
       LET given == SubSeq(Steering(session.waiting), 1, n)
       IN /\ session' = [session EXCEPT
               !.waiting = Behind(@, given),
               !.unread = @ \cup Range(given)]
          /\ driver' = [driver EXCEPT !.inbox = @ \o given]
  /\ UNCHANGED <<tape, file, calls, runner, resume, stop, others, era, ghosts>>

(* The agent takes up the next line it was handed in the middle.           *)
Consume(r) ==
  /\ At(r, "turn")
  /\ driver.inbox # <<>>
  /\ ~driver.cancelled
  /\ driver' = [driver EXCEPT !.inbox = Tail(@)]
  /\ Tell(<<Head(driver.inbox)>>)
  /\ UNCHANGED <<tape, file, session, calls, runner, resume, stop, others, era,
                 fate>>

Read(lines) == [l \in Lines |-> IF l \in lines THEN "read" ELSE tape[l]]

(* Anything but a notice: mark_read stamps what the driver has.            *)
Update(r) ==
  /\ At(r, "turn")
  /\ tape' = Read(session.unread)
  /\ session' = [session EXCEPT !.unread = {}]
  /\ session.unread # {}
  /\ UNCHANGED <<file, driver, calls, runner, resume, stop, others, era,
                 ghosts>>

(* The agent's turn is over.  One that was cancelled gives up what was     *)
(* still in its inbox; any other leaves it for take_unconsumed.            *)
TurnEnds(r) ==
  /\ At(r, "turn")
  /\ IF driver.cancelled
       THEN /\ driver' = NoTurn
            /\ Lose(Range(driver.inbox),
                    IF driver.byRestart THEN "cut" ELSE "stopped")
       ELSE UNCHANGED <<driver, fate>>
  /\ runner' = [runner EXCEPT ![r].pc = "end"]
  /\ UNCHANGED <<tape, file, session, calls, resume, stop, others, era, told>>

(* Mutant: what the driver hands back goes behind what was said since.     *)
EndQueuingBehind(r) ==
  /\ At(r, "end")
  /\ session' = [session EXCEPT !.waiting = @ \o driver.inbox]
  /\ driver' = NoTurn
  /\ runner' = [runner EXCEPT ![r].pc = "next"]
  /\ UNCHANGED <<tape, file, calls, resume, stop, others, era, ghosts>>

(* Session::end: what the driver never used is first again, or kept.       *)
End(r) ==
  /\ At(r, "end")
  /\ \/ /\ closing
        /\ KeepPending(driver.inbox)
        /\ UNCHANGED session
     \/ /\ ~closing
        /\ session' = [session EXCEPT !.waiting = driver.inbox \o @]
        /\ UNCHANGED <<file, fate>>
  /\ driver' = NoTurn
  /\ runner' = [runner EXCEPT ![r].pc = "next"]
  /\ UNCHANGED <<tape, calls, resume, stop, others, era, told>>

(* Mutant: the loop ends with the turn, whatever waits.                    *)
NextLineNever(r) ==
  /\ At(r, "next")
  /\ session' = [session EXCEPT !.running = session.waiting # <<>>]
  /\ runner' = [runner EXCEPT ![r].pc = "rest"]
  /\ UNCHANGED <<tape, file, driver, calls, resume, stop, others, era, ghosts>>

(* Turns::next_line: the look and the release are one.                     *)
NextLine(r) ==
  /\ At(r, "next")
  /\ \/ /\ session.waiting # <<>>
        /\ session' = [session EXCEPT !.waiting = Tail(@)]
        /\ runner' = [runner EXCEPT ![r] = [pc |-> "loop",
                                            line |-> Head(session.waiting)]]
     \/ /\ session.waiting = <<>>
        /\ session' = [session EXCEPT !.running = FALSE]
        /\ runner' = [runner EXCEPT ![r].pc = "rest"]
  /\ UNCHANGED <<tape, file, driver, calls, resume, stop, others, era, ghosts>>

(* Session::rest; set_state does not say ready over a turn claimed since.  *)
Rest(r) ==
  /\ At(r, "rest")
  /\ session' = IF ~answering THEN [session EXCEPT !.running = FALSE]
                ELSE IF session.running THEN session
                ELSE [session EXCEPT !.shown = "ready"]
  /\ runner' = [runner EXCEPT ![r] = Free]
  /\ UNCHANGED <<tape, file, driver, calls, resume, stop, others, era, ghosts>>
-----------------------------------------------------------------------------
(* cut_turn: the queue is emptied and the driver cancelled.                *)
CutTurn(byRestart) ==
  /\ session' = [session EXCEPT !.waiting = <<>>, !.unread = {}]
  /\ driver' = IF driver.cancelled THEN driver
               ELSE [driver EXCEPT !.cancelled = TRUE, !.byRestart = byRestart]

(* The person's Stop, or their Interrupt to say something instead.         *)
Cancel ==
  /\ answering
  /\ CutTurn(FALSE)
  /\ LetGo(session.waiting)
  /\ UNCHANGED <<tape, file, calls, runner, resume, stop, others, era, told>>

(* The session is stopped, replaced or revoked.                            *)
Revoke ==
  /\ answering
  /\ session' = [session EXCEPT !.alive = FALSE, !.waiting = <<>>]
  /\ driver' = [driver EXCEPT !.cancelled = TRUE]
  /\ LetGo(session.waiting)
  /\ UNCHANGED <<tape, file, calls, runner, resume, stop, others, era, told>>
-----------------------------------------------------------------------------
(* stop_for_restart.  Once `closing` is set nothing new is admitted.       *)
Close ==
  /\ stop.pc = "off"
  /\ stop' = [stop EXCEPT !.pc = "drain"]
  /\ UNCHANGED <<tape, file, session, driver, calls, runner, resume, others,
                 era, ghosts>>

Drain ==
  /\ stop.pc = "drain"
  /\ IF answering
       THEN /\ stop' = [stop EXCEPT !.pc = "keep", !.kept = Persons(session.waiting)]
            /\ session' = [session EXCEPT !.waiting = <<>>]
       ELSE /\ stop' = [stop EXCEPT !.pc = "keep"]
            /\ UNCHANGED session
  /\ UNCHANGED <<tape, file, driver, calls, runner, resume, others, era, ghosts>>

Keep ==
  /\ stop.pc = "keep"
  /\ KeepPending(stop.kept)
  /\ stop' = [stop EXCEPT !.pc = "finish", !.kept = <<>>]
  /\ UNCHANGED <<tape, session, driver, calls, runner, resume, others, era, told>>

(* What holds the room's activity lease.                                   *)
Working == \/ \E r \in Runners : ~At(r, "free")
           \/ \E c \in Callers : caller[c] # "idle"
           \/ resume.pc \in {"admitted", "gated"}

(* Mutant: the stop waits for every turn, however long it takes.           *)
ShutOutForever(next) ==
  ~Working /\ stop' = [stop EXCEPT !.pc = "synced", !.shut = TRUE]

(* shut_within: everything has let go of the room, or the wait is over.    *)
ShutOut(next) ==
  \/ ~Working /\ stop' = [stop EXCEPT !.pc = "synced", !.shut = TRUE]
  \/ Working /\ stop' = [stop EXCEPT !.pc = next]

Finish == /\ stop.pc = "finish"
          /\ ShutOut("cut")
          /\ UNCHANGED <<tape, file, session, driver, calls, runner, resume,
                         others, era, ghosts>>

(* A turn still running is cut, and the tape says so.                      *)
Cut ==
  /\ stop.pc = "cut"
  /\ stop' = [stop EXCEPT !.pc = "wait"]
  /\ IF answering /\ session.running THEN CutTurn(TRUE)
                                     ELSE UNCHANGED <<session, driver>>
  /\ UNCHANGED <<tape, file, calls, runner, resume, others, era, ghosts>>

Wait == /\ stop.pc = "wait"
        /\ ShutOut("synced")
        /\ UNCHANGED <<tape, file, session, driver, calls, runner, resume,
                       others, era, ghosts>>
-----------------------------------------------------------------------------
(* resume_pending, a task of its own beside the stop.  A line whose receipt*)
(* says read is settled; one that cannot be handed on is left for the next *)
(* start.                                                                  *)
ResumeRead ==
  /\ resume.pc = "read"
  /\ resume' = IF file = <<>> THEN NoResume
               ELSE [pc |-> "each", todo |-> file, left |-> <<>>]
  /\ UNCHANGED <<tape, file, session, driver, calls, runner, stop, others, era,
                 ghosts>>

Leaving(l) == [pc |-> "each", todo |-> Tail(resume.todo),
               left |-> Append(resume.left, l)]

(* The receipt was stamped when the line joined a turn, which may not have *)
(* come to it.                                                             *)
ResumeAdmit ==
  /\ resume.pc = "each"
  /\ resume.todo # <<>>
  /\ LET l == Head(resume.todo)
     IN \/ /\ tape[l] = "read"
           /\ resume' = [resume EXCEPT !.todo = Tail(@)]
           /\ Lose({l} \ taken, "skipped")
        \/ /\ tape[l] # "read"
           /\ resume' = IF closing THEN Leaving(l)
                                   ELSE [resume EXCEPT !.pc = "admitted"]
           /\ UNCHANGED fate
  /\ UNCHANGED <<tape, file, session, driver, calls, runner, stop, others, era,
                 told>>

ResumeEnter ==
  /\ resume.pc = "admitted"
  /\ gate = None
  /\ \/ /\ answering
        /\ gate' = "resume"
        /\ resume' = [resume EXCEPT !.pc = "gated"]
     \/ /\ ~answering
        /\ resume' = Leaving(Head(resume.todo))
        /\ UNCHANGED gate
  /\ UNCHANGED <<tape, file, session, driver, caller, runner, stop, others, era,
                 ghosts>>

ResumeHandOver ==
  /\ resume.pc = "gated"
  /\ Dispatch(Head(resume.todo))
  /\ gate' = None
  /\ resume' = [resume EXCEPT !.pc = "each", !.todo = Tail(@)]
  /\ UNCHANGED <<tape, driver, caller, stop, others, era, told>>

-----------------------------------------------------------------------------
(* Every place of the running desk a person's line can be in.              *)
InMemory ==
  Range(session.waiting) \cup Range(driver.inbox) \cup Range(stop.kept)
    \cup {runner[r].line : r \in {s \in Runners : \/ At(s, "loop")
                                                  \/ At(s, "begin")
                                                  \/ At(s, "begun")}}
    \cup (IF \E c \in Callers : caller[c] = "said" THEN {Latest} ELSE {})
    \cup (IF resume.pc = "gated" THEN {Head(resume.todo)} ELSE {})

(* write_pending(left), which does not take the file's lock: what a stop   *)
(* kept there since the file was read is gone.  One that fails leaves the  *)
(* file as it was.                                                         *)
ResumeWrite ==
  /\ resume.pc = "each"
  /\ resume.todo = <<>>
  /\ \/ /\ file' = resume.left
        /\ IF closing
             THEN Lose(Range(file) \ (Range(resume.left) \cup InMemory \cup taken),
                       "overwritten")
             ELSE UNCHANGED fate
     \/ UNCHANGED <<file, fate>>
  /\ resume' = NoResume
  /\ UNCHANGED <<tape, session, driver, calls, runner, stop, others, era, told>>

(* The process ends: after a stop that shut the room nothing is running;   *)
(* after any other, or a kill, what was only in memory is gone.            *)
Restart ==
  /\ starts < MaxStarts
  /\ starts' = starts + 1
  /\ refused' = FALSE
  /\ IF stop.shut THEN UNCHANGED fate
                  ELSE Lose((InMemory \ {Other}) \ Range(file), "killed")
  /\ Started
  /\ UNCHANGED <<tape, file, others, taken>>

(* The room is held shut until the process ends.                           *)
Off == stop.pc = "synced" /\ UNCHANGED vars

RunnerStep(r) == \/ LoopTop(r) \/ Begin(r) \/ Prompt(r) \/ TurnEnds(r) \/ End(r)
                 \/ NextLine(r) \/ Rest(r)
CallerStep(c) == \/ Enter(c) \/ Say(c) \/ HandOver(c) \/ Deliver(c)
                 \/ ClaimIdle(c) \/ DeliverClaimed(c) \/ Refuse(c)
StopStep == Drain \/ Keep \/ Finish \/ Cut \/ Wait
ResumeStep == \/ ResumeRead \/ ResumeAdmit \/ ResumeEnter \/ ResumeHandOver
              \/ ResumeWrite

Next == \/ \E c \in Callers : Ask(c) \/ CallerStep(c)
        \/ \E r \in Runners : \/ SteerInto(r) \/ Consume(r) \/ Update(r)
                              \/ RunnerStep(r)
        \/ Nudge \/ Cancel \/ Revoke \/ Close
        \/ StopStep \/ ResumeStep \/ Restart \/ Off

Spec == Init /\ [][Next]_vars

(* Spawned tasks run, the timers of a stop fire, and an agent that was     *)
(* cancelled ends its turn; one that was not may work for ever.            *)
Fairness == /\ \A r \in Runners :
                 WF_vars(RunnerStep(r) /\ (At(r, "turn") => driver.cancelled))
            /\ \A c \in Callers : SF_vars(CallerStep(c))
            /\ WF_vars(StopStep)
            /\ SF_vars(ResumeStep)

FairSpec == Spec /\ Fairness
-----------------------------------------------------------------------------
RunnerPcs == {"free", "loop", "begin", "begun", "turn", "end", "next", "rest"}
Fates == {"none", "stopped", "cut", "killed", "unwritten", "overwritten",
          "skipped"}

TypeOK ==
  /\ tape \in [Lines -> {"unsaid", "sent", "read"}]
  /\ file \in Seq(Lines)
  /\ session \in [alive : BOOLEAN, waiting : Seq(Items), running : BOOLEAN,
                  unread : SUBSET Lines, shown : {"ready", "thinking"}]
  /\ driver \in [cancelled : BOOLEAN, byRestart : BOOLEAN, inbox : Seq(Lines)]
  /\ gate \in Callers \cup {None, "resume"}
  /\ caller \in [Callers -> {"idle", "asked", "gated", "said", "claimed"}]
  /\ runner \in [Runners -> [pc : RunnerPcs, line : Items]]
  /\ resume \in [pc : {"read", "each", "admitted", "gated", "done"},
                 todo : Seq(Lines), left : Seq(Lines)]
  /\ stop \in [pc : {"off", "drain", "keep", "finish", "cut", "wait", "synced"},
               kept : Seq(Lines), shut : BOOLEAN]
  /\ others \in 0..MaxOthers
  /\ starts \in 1..MaxStarts
  /\ refused \in BOOLEAN
  /\ heard \in Seq(Lines)
  /\ taken \subseteq Lines
  /\ fate \in [Lines -> Fates]

(* Whoever holds the claim on the queue: a task between its claim and its  *)
(* release, or a delivery that claimed before it wrote.                    *)
Claims == {r \in Runners : runner[r].pc \notin {"free", "rest"}}
            \cup {c \in Callers : caller[c] = "claimed"}

(* The agent is driven by one task at a time, and `running` says exactly   *)
(* whether one holds the claim: two drivers would run two turns at once,   *)
(* and a claim nobody holds would silence the teammate (Turns).            *)
OneDriver == answering => /\ Cardinality(Claims) <= 1
                          /\ session.running <=> Claims # {}

(* A line never waits behind a turn that is over: somebody is coming back  *)
(* for whatever is in the queue (Turns::claim, Turns::next_line); but for a *)
(* claimed delivery that could not be written, whose claim is given back   *)
(* without a look at the queue (prompt.rs:226-228).                        *)
NoLineStranded ==
  answering /\ ~refused /\ session.waiting # <<>> => session.running

(* What the person said and no agent was told yet, whatever its receipt    *)
(* says, is somewhere: on its way in, in the queue, in the agent's inbox,  *)
(* with the stop, or kept in pending.json for the next start.  The code    *)
(* lets go of a line in six places and no other: "stopped" by a Stop or a  *)
(* revocation, "cut" with the turn it had joined, "killed" with a desk     *)
(* that was not shut, "unwritten" by a pending.json that could not be,     *)
(* "overwritten" by a resume that a stop overtook, and "skipped" by the    *)
(* next start for a receipt it had not earned (keep_late, stopping.rs).    *)
NoLineLost ==
  \A l \in Lines : tape[l] # "unsaid" /\ l \notin taken =>
    l \in InMemory \cup Range(file) \/ fate[l] # "none"

(* Until the desk starts again, what the person typed reaches the agent    *)
(* once and in the order it was said, however it was steered, handed back  *)
(* and queued again (steer_into, Session::end).  What a stop keeps late    *)
(* may be resumed in another order.                                        *)
HeardInOrder ==
  starts = 1 =>
    \A i, j \in DOMAIN heard :
      i < j /\ {heard[i], heard[j]} \cap Spoken = {} => heard[i] < heard[j]

(* The room never says ready over a turn, and never thinking with nobody   *)
(* at work (set_state, Session::rest), with the same exception.            *)
ShownIsTrue ==
  answering /\ ~refused =>
    /\ (\E r \in Runners : At(r, "begun") \/ At(r, "turn")) => session.shown = "thinking"
    /\ Claims = {} /\ (\A r \in Runners : At(r, "free")) => session.shown = "ready"

(* Unless one turn never ends, no line waits in the queue for ever.        *)
LinesAreTaken ==
  \/ <>[](\E r \in Runners : At(r, "turn"))
  \/ \A l \in Lines : l \in Range(session.waiting)
                         ~> l \notin Range(session.waiting)

(* A desk that is told to stop does, whatever its turns do.                *)
StopEnds == closing ~> stop.pc \in {"off", "synced"}

(* The queue is driven, by exactly one, and the room says so: whoever      *)
(* claims, steers, hands back, rests or fails, whenever (turns.rs).        *)
QueueIsDriven == TypeOK /\ OneDriver /\ NoLineStranded /\ ShownIsTrue
=============================================================================
