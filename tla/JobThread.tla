----------------------------- MODULE JobThread -----------------------------
(* A job's thread (session/job_thread.rs): the queue behind its agent, the *)
(* loop that drives its turns, and the one `Life` that says whether a turn *)
(* runs, a firing is in flight, the job ended itself, was stopped or is    *)
(* closed.                                                                 *)
(*                                                                         *)
(* The room holds at most one LiveJob for the job, but those who took hold *)
(* of one before it was let go of keep it: a LiveJob is one of 1..MaxLives *)
(* and `held` is the one in the room's map. A runner is one task inside    *)
(* `run_queue`. Each step is what the code does between two locks, or      *)
(* between an await and the next.                                          *)
EXTENDS JobRecord, Sequences

CONSTANTS
  Runners,  \* the tasks that can be inside run_queue at once
  MaxLives  \* bound: LiveJobs somebody has hold of at once

ASSUME LivesAssumption == MaxLives \in Nat \ {0}

VARIABLES
  held,     \* the LiveJob in the room's map, or 0
  life,     \* each one's Life
  waiting,  \* each one's lines behind the turn in flight
  running,  \* whether a driver holds each one's queue
  up,       \* each one's agent: none, or one on a lease good or stale
  run       \* each task in run_queue: where it is, of which, on which line

threadVars == <<held, life, waiting, running, up, run>>

Lives == 1..MaxLives

(* A firing says whether it was handed over as the job's last. Any other   *)
(* line is the person's, or something that came back for the job.          *)
Lines == [firing : {TRUE}, last : BOOLEAN] \cup
         [firing : {FALSE}, last : {FALSE}]
Said == [firing |-> FALSE, last |-> FALSE]

Idle == [at |-> "idle", firing |-> FALSE, halted |-> FALSE]
NoRun == [pc |-> "idle", of |-> 0, line |-> Said, good |-> TRUE]

ThreadInit ==
  /\ held = 0
  /\ life = [v \in Lives |-> Idle]
  /\ waiting = [v \in Lives |-> <<>>]
  /\ running = [v \in Lives |-> FALSE]
  /\ up = [v \in Lives |-> "none"]
  /\ run = [r \in Runners |-> NoRun]

FiringWaits(v) == \E i \in DOMAIN waiting[v] : waiting[v][i].firing

(* Life's own steps.                                                       *)
Claimed(l) == IF l.at = "idle" THEN [l EXCEPT !.at = "turn"] ELSE l
Begun(l, firing) ==
  LET c == Claimed(l)
  IN IF c.at = "turn" /\ firing THEN [c EXCEPT !.firing = TRUE] ELSE c
FiringOver(l) == [l EXCEPT !.firing = FALSE]
Rested(l) == IF l.at = "turn" THEN Idle ELSE l

Stopped(l) == IF l.at = "closed" THEN l ELSE [Idle EXCEPT !.at = "stopped"]
Shut(v) == life[v].at \in {"ending", "stopped", "closed"}

(* `release`, `drop_agent`: the agent and its lease are stopped.            *)
Release(v) == up' = [up EXCEPT ![v] = "none"]

To(r, pc) == run' = [run EXCEPT ![r].pc = pc]
On(r, pc) == run[r].pc = pc

(* The caller claims the driver, and a task drives the queue.              *)
Claim(v, line) ==
  /\ running' = [running EXCEPT ![v] = TRUE]
  /\ life' = [life EXCEPT ![v] = Claimed(@)]
  /\ \E r \in Runners :
       /\ On(r, "idle")
       /\ run' = [run EXCEPT ![r] =
                    [pc |-> "door", of |-> v, line |-> line, good |-> TRUE]]
  /\ UNCHANGED waiting

(* The line waits behind the turn in flight.                               *)
Wait(v, line) ==
  /\ waiting' = [waiting EXCEPT ![v] = Append(@, line)]
  /\ UNCHANGED <<running, life, run>>

(* Mutant: whether to wait is read off the life, not off the claim.        *)
QueueOnLife(v, line) ==
  IF life[v].at = "turn" THEN Wait(v, line) ELSE Claim(v, line)

(* `queue_job`: the line waits behind the turn in flight, or its caller    *)
(* claims the driver for it.                                               *)
Queue(v, line) == IF running[v] THEN Wait(v, line) ELSE Claim(v, line)

(* `live_job`: the LiveJob in the map, made anew if there is none. Those   *)
(* somebody still has hold of, a task in the queue or a caller, are kept.  *)
Find(v, kept) ==
  \/ /\ held # 0 /\ v = held
     /\ UNCHANGED <<held, life, waiting, running, up>>
  \/ /\ held = 0
     /\ LET free == Lives \ (kept \cup {run[r].of : r \in Runners})
        IN v \in free /\ \A w \in free : v <= w
     /\ held' = v
     /\ life' = [life EXCEPT ![v] = Idle]
     /\ waiting' = [waiting EXCEPT ![v] = <<>>]
     /\ running' = [running EXCEPT ![v] = FALSE]
     /\ up' = [up EXCEPT ![v] = "none"]

(* run_queue's door, and `begin` up to its await: whether this agent is    *)
(* still the one that answers, whether the job is still there, and a       *)
(* firing's authority, read once more. From here the firing is in flight,  *)
(* and an agent on a stale lease is let go of.                             *)
Begin(r) ==
  LET v == run[r].of
      line == run[r].line
      answers == life[v].at \notin {"stopped", "closed"} /\ enrolled
                   /\ job.state # "off"
      fresh == up[v] # "good" IN
  /\ On(r, "door")
  /\ \/ /\ ~answers
        /\ To(r, "rest")
        /\ UNCHANGED <<life, up>>
     \/ /\ answers /\ line.firing /\ ~granted
        /\ To(r, "next")
        /\ UNCHANGED <<life, up>>
     \/ /\ answers /\ (line.firing => granted)
        /\ life' = [life EXCEPT ![v] = Begun(@, line.firing)]
        /\ up' = [up EXCEPT ![v] = IF fresh THEN "none" ELSE @]
        /\ To(r, IF fresh THEN "build" ELSE "set")
  /\ UNCHANGED <<held, waiting, running, recordVars>>

(* The agent starts, unless its lease went meanwhile, or it does not.      *)
AgentStarts(r) ==
  /\ On(r, "build") /\ run[r].good
  /\ up' = [up EXCEPT ![run[r].of] = "good"]
  /\ To(r, "set")
  /\ UNCHANGED <<held, life, waiting, running, recordVars>>

(* The agent did not start: its firing is over.                            *)
AgentFails(r) ==
  LET v == run[r].of IN
  /\ On(r, "build")
  /\ life' = [life EXCEPT ![v] = FiringOver(@)]
  /\ run' = [run EXCEPT ![r].pc = "next", ![r].good = TRUE]
  /\ UNCHANGED <<held, waiting, running, up, recordVars>>

(* The rest of `begin`, and `turn`: a question whose request was stopped   *)
(* is not taken up. Nothing is driven for a turn stopped while its agent   *)
(* started. Otherwise the agent is taken, and `expect`ed to be there:      *)
(* without one the task dies where it stands.                              *)
Turn(r) ==
  LET v == run[r].of IN
  /\ On(r, "set")
  /\ \/ To(r, IF life[v].halted THEN "end"
              ELSE IF up[v] = "none" THEN "dead"
              ELSE "driving")
     \/ ~run[r].line.firing /\ To(r, "next")
  /\ UNCHANGED <<held, life, waiting, running, up, recordVars>>

TurnOver(r) ==
  /\ On(r, "driving")
  /\ To(r, "end")
  /\ UNCHANGED <<held, life, waiting, running, up, recordVars>>

(* `end`, up to what it writes: a stopped thread's agent goes; a job that  *)
(* ended itself, or ran out with this turn, is closed; after a firing the  *)
(* agent is let go of, unless a line already waits for it.                 *)
End(r) ==
  LET v == run[r].of
      line == run[r].line
      done == life[v].at = "ending"
      ended == line.last \/ ~Living
      ranOut == ended /\ ~FiringWaits(v) IN
  /\ On(r, "end")
  /\ life' = [life EXCEPT ![v] = [FiringOver(@) EXCEPT !.halted = FALSE]]
  /\ \/ /\ life[v].at = "stopped"
        /\ Release(v)
        /\ To(r, "rest")
     \/ /\ life[v].at # "stopped"
        /\ done \/ ranOut
        /\ To(r, "drop")
        /\ UNCHANGED up
     \/ /\ life[v].at # "stopped"
        /\ ~(done \/ ranOut)
        /\ IF line.firing /\ waiting[v] = <<>> THEN Release(v)
                                               ELSE UNCHANGED up
        /\ To(r, "next")
  /\ UNCHANGED <<held, waiting, running, recordVars>>

(* The job is over with this turn: what waits is dropped, a last firing's  *)
(* end is written, and the thread is closed.                               *)
Drops(r) ==
  /\ On(r, "drop")
  /\ waiting' = [waiting EXCEPT ![run[r].of] = <<>>]
  /\ EndFinalFiring
  /\ To(r, "close")
  /\ UNCHANGED <<held, life, running, up>>

Closes(r) ==
  LET v == run[r].of IN
  /\ On(r, "close")
  /\ life' = [life EXCEPT ![v] = [Idle EXCEPT !.at = "closed"]]
  /\ Release(v)
  /\ held' = 0
  /\ To(r, "rest")
  /\ UNCHANGED <<waiting, running, recordVars>>

(* `next_line`: the next line, or the claim is let go of.                  *)
NextLine(r) ==
  LET v == run[r].of IN
  /\ On(r, "next")
  /\ IF waiting[v] = <<>>
       THEN /\ running' = [running EXCEPT ![v] = FALSE]
            /\ To(r, "rest")
            /\ UNCHANGED waiting
       ELSE /\ waiting' = [waiting EXCEPT ![v] = Tail(@)]
            /\ run' = [run EXCEPT ![r].pc = "door",
                                  ![r].line = Head(waiting[v])]
            /\ UNCHANGED running
  /\ UNCHANGED <<held, life, up, recordVars>>

(* `rest`: the claim, then the life and a last firing's end.               *)
Rests(r) ==
  /\ On(r, "rest")
  /\ running' = [running EXCEPT ![run[r].of] = FALSE]
  /\ To(r, "over")
  /\ UNCHANGED <<held, life, waiting, up, recordVars>>

(* Mutant: a queue at rest leaves the last firing to whoever fired it.     *)
OverOnly(r) ==
  /\ On(r, "over")
  /\ life' = [life EXCEPT ![run[r].of] = Rested(@)]
  /\ run' = [run EXCEPT ![r] = NoRun]
  /\ UNCHANGED <<held, waiting, running, up, recordVars>>

Over(r) ==
  /\ On(r, "over")
  /\ life' = [life EXCEPT ![run[r].of] = Rested(@)]
  /\ EndFinalFiring
  /\ run' = [run EXCEPT ![r] = NoRun]
  /\ UNCHANGED <<held, waiting, running, up>>

RunnerStep(r) ==
  \/ Begin(r) \/ AgentStarts(r) \/ AgentFails(r)
  \/ Turn(r) \/ TurnOver(r) \/ End(r) \/ Drops(r) \/ Closes(r)
  \/ NextLine(r) \/ Rests(r) \/ Over(r)

(* `let_go_idle`, the sweep's: only an agent no turn has claimed.          *)
Park ==
  /\ held # 0 /\ up[held] # "none"
  /\ ~running[held] /\ waiting[held] = <<>>
  /\ Release(held)
  /\ UNCHANGED <<held, life, waiting, running, run, recordVars>>

(* `let_go_of_jobs`: the teammate was stopped or its authority changed;    *)
(* what waits is dropped and the agent goes, whatever runs on it.          *)
LetGo ==
  /\ held # 0
  /\ waiting[held] # <<>> \/ up[held] # "none"
  /\ waiting' = [waiting EXCEPT ![held] = <<>>]
  /\ Release(held)
  /\ UNCHANGED <<held, life, running, run, recordVars>>

(* The teammate's epoch is closed: every agent's lease is stale, and one   *)
(* being built finds out before it is handed over.                         *)
Revoked ==
  /\ \/ \E v \in Lives : up[v] = "good"
     \/ \E r \in Runners : On(r, "build") /\ run[r].good
  /\ up' = [v \in Lives |-> IF up[v] = "good" THEN "stale" ELSE up[v]]
  /\ run' = [r \in Runners |->
               IF On(r, "build") THEN [run[r] EXCEPT !.good = FALSE]
                                 ELSE run[r]]
  /\ UNCHANGED <<held, life, waiting, running, recordVars>>

ThreadTypeOK ==
  /\ held \in 0..MaxLives
  /\ life \in [Lives ->
       [at : {"turn"}, firing : BOOLEAN, halted : BOOLEAN] \cup
       [at : {"ending"}, firing : {FALSE}, halted : BOOLEAN] \cup
       [at : {"idle", "stopped", "closed"}, firing : {FALSE},
        halted : {FALSE}]]
  /\ waiting \in [Lives -> Seq(Lines)]
  /\ running \in [Lives -> BOOLEAN]
  /\ up \in [Lives -> {"none", "good", "stale"}]
  /\ run \in [Runners ->
       [pc : {"idle", "door", "build", "set", "driving", "end",
              "drop", "close", "next", "rest", "over", "dead"},
        of : 0..MaxLives, line : Lines, good : BOOLEAN]]
=============================================================================
