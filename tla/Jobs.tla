-------------------------------- MODULE Jobs --------------------------------
(* A teammate's job, whole: its record, the clock that fires it, its       *)
(* thread, and those who talk to it, stop it, cancel it or take its        *)
(* teammate's authority away while it runs.                                *)
(*                                                                         *)
(* The clock is one task (schedule.rs, `start`). A task of Tasks is one    *)
(* call of the wire or of an agent's tool; several are under way at once.  *)
EXTENDS JobThread

CONSTANTS
  Tasks,      \* calls that can be under way at once
  MaxActs,    \* bound: lines said, jobs cancelled or done, turns or teammates
              \* stopped, epochs closed, grants taken, teammates deleted, end
              \* dates near, crashes, writes refused
  MaxCrashes  \* bound: processes that end mid-way

ASSUME TasksAssumption ==
  MaxActs \in Nat /\ MaxCrashes \in Nat

VARIABLES
  clock,   \* where the clock is, on which LiveJob, with which snapshot
  task,    \* where each call is, and the LiveJob it took hold of
  acts, crashes

callVars == <<clock, task, acts, crashes>>
vars == <<recordVars, threadVars, callVars>>

(* Between firings the clock keeps nothing.                                *)
NoJob == [kind |-> "loop", reminder |-> FALSE, times |-> Unbounded,
          state |-> "off", final |-> FALSE]
AtLook == [pc |-> "look", of |-> 0, cur |-> NoJob, ran |-> FALSE,
           last |-> FALSE]
NoTask == [pc |-> "idle", of |-> 0]

Init ==
  /\ RecordInit /\ ThreadInit
  /\ clock = AtLook
  /\ task = [t \in Tasks |-> NoTask]
  /\ acts = 0 /\ crashes = 0

ClockAt(pc) == clock.pc = pc
ClockTo(pc) == clock' = [clock EXCEPT !.pc = pc]
ClockLooks == clock' = AtLook
UNCHANGEDcalls == UNCHANGED <<task, acts, crashes>>

Looks ==
  /\ ClockAt("look") /\ Ripe
  /\ ClockTo("fire")
  /\ UNCHANGED <<recordVars, threadVars>> /\ UNCHANGEDcalls

(* `fire`: the job is looked up once more, and what is no longer to fire   *)
(* is left alone.                                                          *)
Fires ==
  /\ ClockAt("fire")
  /\ \/ /\ ~Living \/ job.final \/ (enrolled /\ ~granted)
        /\ ClockLooks
        /\ UNCHANGED recordVars
     \/ /\ Living /\ ~job.final /\ ~enrolled
        /\ ClockTo("clear")
        /\ UNCHANGED recordVars
     \/ /\ Living /\ ~job.final /\ granted
        /\ clock' = [clock EXCEPT !.cur = job,
                                  !.pc = IF job.reminder THEN "post"
                                                         ELSE "find"]
        /\ UNCHANGED recordVars
  /\ UNCHANGED threadVars /\ UNCHANGEDcalls

Clears ==
  /\ ClockAt("clear")
  /\ Tombstone
  /\ ClockLooks
  /\ UNCHANGED threadVars /\ UNCHANGEDcalls

(* `remind`: the words are posted, or they could not be.                   *)
Reminds ==
  /\ ClockAt("post")
  /\ \/ /\ Handed
        /\ clock' = [clock EXCEPT !.pc = "finish", !.ran = TRUE]
     \/ /\ ClockTo("retry")
        /\ UNCHANGED recordVars
  /\ UNCHANGED threadVars /\ UNCHANGEDcalls

(* `fire_job`: the thread is found or made; the slot is skipped while the  *)
(* firing before is in flight or waits; else the firing is queued.         *)
FindsThread ==
  /\ ClockAt("find")
  /\ \E v \in Lives :
       /\ Find(v, {task[t].of : t \in Tasks})
       /\ clock' = IF life[v].firing \/ FiringWaits(v)
                     THEN [clock EXCEPT !.pc = "finish", !.ran = FALSE]
                     ELSE [clock EXCEPT !.pc = "queue", !.of = v,
                                        !.last = FiresLast(clock.cur)]
  /\ UNCHANGED <<run, recordVars>> /\ UNCHANGEDcalls

QueuesFiring ==
  /\ ClockAt("queue")
  /\ Queue(clock.of, [firing |-> TRUE, last |-> clock.last])
  /\ Handed
  /\ clock' = [clock EXCEPT !.pc = "finish", !.of = 0, !.ran = TRUE]
  /\ UNCHANGED <<held, up>> /\ UNCHANGEDcalls

(* `job_at_rest`: no turn claimed, none waiting.                           *)
AtRest == held = 0 \/ (~running[held] /\ waiting[held] = <<>>)

Finishes ==
  /\ ClockAt("finish")
  /\ Finish(clock.ran, AtRest)
  /\ ClockLooks
  /\ UNCHANGED threadVars /\ UNCHANGEDcalls

Retries ==
  /\ ClockAt("retry")
  /\ Retry
  /\ ClockLooks
  /\ UNCHANGED threadVars /\ UNCHANGEDcalls

ClockStep ==
  \/ Looks \/ Fires \/ Clears \/ Reminds \/ FindsThread \/ QueuesFiring
  \/ Finishes \/ Retries

(* One more of what the person and the world do.                           *)
Acts == acts' = acts + 1

TaskAt(t, pc) == task[t].pc = pc
TaskTo(t, pc, v) == task' = [task EXCEPT ![t] = [pc |-> pc, of |-> v]]
TaskEnds(t) == task' = [task EXCEPT ![t] = NoTask]

(* `prompt_job`, and `deliver_into_job`: the job is looked up, its thread  *)
(* found or made, and the line queued.                                     *)
SayLooks(t) ==
  /\ TaskAt(t, "idle") /\ Acts
  /\ Living /\ enrolled /\ ~job.reminder
  /\ TaskTo(t, "asked", 0)
  /\ UNCHANGED <<recordVars, threadVars, clock, crashes>>

SayFinds(t) ==
  /\ TaskAt(t, "asked")
  /\ \E v \in Lives :
       /\ Find(v, {clock.of} \cup {task[u].of : u \in Tasks})
       /\ TaskTo(t, "said", v)
  /\ UNCHANGED <<run, recordVars>>
  /\ UNCHANGED <<clock, acts, crashes>>

SayQueues(t) ==
  /\ TaskAt(t, "said")
  /\ Queue(task[t].of, Said)
  /\ TaskEnds(t)
  /\ UNCHANGED <<held, up, recordVars>>
  /\ UNCHANGED <<clock, acts, crashes>>

(* `cancel_job_turn`: the turn in flight is stopped, then what waits goes. *)
Halts(t) ==
  /\ TaskAt(t, "idle") /\ Acts
  /\ held # 0 /\ life[held].at \in {"turn", "ending"}
  /\ life' = [life EXCEPT ![held].halted = TRUE]
  /\ TaskTo(t, "halt", held)
  /\ UNCHANGED <<held, waiting, running, up, run, recordVars>>
  /\ UNCHANGED <<clock, crashes>>

HaltDrops(t) ==
  /\ TaskAt(t, "halt")
  /\ waiting' = [waiting EXCEPT ![task[t].of] = <<>>]
  /\ TaskEnds(t)
  /\ UNCHANGED <<held, life, running, up, run, recordVars>>
  /\ UNCHANGED <<clock, acts, crashes>>

(* `schedule_cancel`: a living job's record ends, and `job_ended` stops   *)
(* its thread. An ended one is taken off the list.                         *)
Cancels(t) ==
  /\ TaskAt(t, "idle") /\ Acts
  /\ EndRecord
  /\ TaskTo(t, "ended", 0)
  /\ UNCHANGED threadVars /\ UNCHANGED <<clock, crashes>>

CancelsEnded(t) ==
  /\ TaskAt(t, "idle") /\ Acts
  /\ TakeOff
  /\ UNCHANGED threadVars /\ UNCHANGED <<clock, task, crashes>>

(* `schedule_done`: from the job's own turn, its goal is met.              *)
Dones(t) ==
  /\ TaskAt(t, "idle") /\ Acts
  /\ \E r \in Runners : On(r, "driving") /\ run[r].of = held
  /\ EndRecord
  /\ TaskTo(t, "done", 0)
  /\ UNCHANGED threadVars /\ UNCHANGED <<clock, crashes>>

(* `job_ended` looks the thread up; there is nothing to stop when the room *)
(* holds none. A turn that ended its own job finishes; any other is        *)
(* stopped.                                                                *)
EndFinds(t) ==
  LET itself == TaskAt(t, "done") /\ held # 0 /\ life[held].at = "turn" IN
  /\ TaskAt(t, "ended") \/ TaskAt(t, "done")
  /\ IF held = 0
       THEN /\ TaskEnds(t)
            /\ UNCHANGED life
       ELSE /\ life' = IF itself
                         THEN [life EXCEPT ![held].at = "ending",
                                           ![held].firing = FALSE]
                         ELSE life
            /\ TaskTo(t, IF itself THEN "shut" ELSE "stop", held)
  /\ UNCHANGED <<held, waiting, running, up, run, recordVars>>
  /\ UNCHANGED <<clock, acts, crashes>>

EndShuts(t) ==
  /\ TaskAt(t, "shut")
  /\ waiting' = [waiting EXCEPT ![task[t].of] = <<>>]
  /\ TaskEnds(t)
  /\ UNCHANGED <<held, life, running, up, run, recordVars>>
  /\ UNCHANGED <<clock, acts, crashes>>

EndStops(t) ==
  /\ TaskAt(t, "stop")
  /\ life' = [life EXCEPT ![task[t].of] = Stopped(@)]
  /\ TaskTo(t, "away", task[t].of)
  /\ UNCHANGED <<held, waiting, running, up, run, recordVars>>
  /\ UNCHANGED <<clock, acts, crashes>>

EndLetsGo(t) ==
  LET v == task[t].of IN
  /\ TaskAt(t, "away")
  /\ waiting' = [waiting EXCEPT ![v] = <<>>]
  /\ Release(v)
  /\ held' = 0
  /\ TaskEnds(t)
  /\ UNCHANGED <<life, running, run, recordVars>>
  /\ UNCHANGED <<clock, acts, crashes>>

TaskStep(t) ==
  \/ SayLooks(t) \/ SayFinds(t) \/ SayQueues(t)
  \/ Halts(t) \/ HaltDrops(t)
  \/ Cancels(t) \/ CancelsEnded(t) \/ Dones(t)
  \/ EndFinds(t) \/ EndShuts(t) \/ EndStops(t) \/ EndLetsGo(t)

RunnerMoves(r) == RunnerStep(r) /\ UNCHANGED callVars

(* The sweep, the person's stop of the teammate, a change of its policy,   *)
(* and the world the record is read in.                                    *)
Others ==
  \/ Park /\ UNCHANGED callVars
  \/ SlotComes /\ UNCHANGED threadVars /\ UNCHANGED callVars
  \/ /\ \/ LetGo \/ Revoked
        \/ (DateNears \/ GrantTaken \/ Deleted) /\ UNCHANGED threadVars
     /\ Acts
     /\ UNCHANGED <<clock, task, crashes>>

(* The process ends. What it held goes; the next one finds the record, and *)
(* settles it (`settle_jobs`).                                             *)
Crash ==
  /\ Acts /\ crashes < MaxCrashes
  /\ crashes' = crashes + 1
  /\ held' = 0
  /\ life' = [v \in Lives |-> Idle]
  /\ waiting' = [v \in Lives |-> <<>>]
  /\ running' = [v \in Lives |-> FALSE]
  /\ up' = [v \in Lives |-> "none"]
  /\ run' = [r \in Runners |-> NoRun]
  /\ task' = [t \in Tasks |-> NoTask]
  /\ EndFinalFiring
  /\ ClockLooks

Next ==
  /\ \/ ClockStep
     \/ \E t \in Tasks : TaskStep(t)
     \/ \E r \in Runners : RunnerMoves(r)
     \/ Others
     \/ Crash
  /\ acts' + faults' <= MaxActs

Spec == Init /\ [][Next]_vars

-----------------------------------------------------------------------------
TypeOK ==
  /\ RecordTypeOK /\ ThreadTypeOK
  /\ clock.pc \in {"look", "fire", "clear", "post", "find", "queue",
                   "finish", "retry"}
  /\ clock.of \in 0..MaxLives
  /\ task \in [Tasks -> [pc : {"idle", "asked", "said", "halt", "ended",
                               "done", "shut", "stop", "away"},
                         of : 0..MaxLives]]
  /\ acts \in 0..MaxActs
  /\ crashes \in 0..MaxCrashes

(* A loop that was to fire so many times is handed over that many times,   *)
(* once more only for a process that ended, or a write the disk refused,   *)
(* between the handing over and the record's advance (schedule.rs, `fire`  *)
(* and `finish`); a slot skipped spends none of it.                        *)
CountIsKept ==
  asked # Unbounded =>
    /\ handed <= asked + crashes + faults
    /\ Living => job.times = asked - spent
    /\ job.state = "ended" /\ job.times = 0 => handed >= asked

(* A task of v's queue that panicked: the agent was let go of between what *)
(* made sure of it and the turn that takes it (`begin`, `let_go_of_jobs`,  *)
(* `turn`). The claim stands, and so does the firing if its line was one,  *)
(* till the process ends.                                                  *)
Panicked(v) == \E r \in Runners : run[r].of = v /\ On(r, "dead")

(* A job in its last firing is ended by whoever finds the firing over, the *)
(* clock that handed it over or the queue at rest (schedule.rs, `finish`;  *)
(* job_thread.rs, `rest`): never both leave it to the other, and a task is *)
(* there to end it. The exceptions: a write that was refused, and the task *)
(* of the thread in the room's map panicked, which ends nothing.           *)
LastFiringEnds ==
  Living /\ enrolled /\ job.final /\ faults = 0 =>
    \/ \E r \in Runners : run[r].pc \notin {"idle", "dead"}
    \/ held # 0 /\ Panicked(held)

(* The thread believes a firing is in flight only while a task runs it: a  *)
(* stop, a start that failed, a line skipped at the door or a close behind *)
(* it never leaves the job skipping every slot to come for a firing nobody *)
(* runs (job_thread.rs, `Life::firing_since`). The exception is a firing   *)
(* whose own task panicked: it leaves just that.                           *)
FiringIsInFlight ==
  \A v \in Lives : life[v].firing =>
    \E r \in Runners :
      /\ run[r].of = v /\ run[r].line.firing
      /\ \/ run[r].pc \in {"build", "set", "driving", "end"}
         \/ On(r, "dead")

(* A line that waits in a thread still open waits for someone: a task is   *)
(* inside its queue, and has not seen it empty (turns.rs, `claim` and      *)
(* `next_line`); but for a queue whose task panicked, which keeps its claim*)
(* and takes no line again.                                                *)
NoLineStranded ==
  \A v \in Lives :
    waiting[v] # <<>> /\ ~Shut(v) /\ enrolled /\ job.state # "off" =>
    \/ \E r \in Runners :
         run[r].of = v /\ run[r].pc \notin {"idle", "rest", "over", "dead"}
    \/ Panicked(v)

(* A job's thread is neither believed to be at work when it is not nor     *)
(* left with work nobody does, unless a task of it panicked (job_thread.rs,*)
(* turns.rs).                                                              *)
ThreadIsTrue == TypeOK /\ FiringIsInFlight /\ NoLineStranded
=============================================================================
