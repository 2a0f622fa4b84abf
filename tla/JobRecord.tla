----------------------------- MODULE JobRecord -----------------------------
(* One scheduled job as the room stream keeps it (session/schedule.rs).    *)
(*                                                                         *)
(* A job is a one-shot or a loop, a plain reminder or work. Its record is  *)
(* folded from the stream again before every write, and every write is     *)
(* made under the schedule guard, so each operation here is one step. Time *)
(* is kept as the two things the code asks of it: whether the job's next   *)
(* moment has come, and whether the slot after it would fall past the date *)
(* the loop ends on.                                                       *)
EXTENDS Integers

CONSTANTS
  Unbounded,  \* the count of a loop made without one
  Times,      \* the count of a loop made with one
  MaxFirings  \* bound: how often the job comes due

ASSUME TimesAssumption == Times \in Nat \ {0} /\ Unbounded \notin Nat
ASSUME BoundsAssumption == MaxFirings \in Nat

VARIABLES
  job,      \* the record: kind, reminder, times left, state, final firing
  asked,    \* the count the job was made with
  due,      \* its `nextAt` has come
  slots,    \* how often it has
  late,     \* its next slot would fall after `until`
  granted,  \* the run is the operator's, or background work is granted
  enrolled, \* the teammate is on the roster
  handed,   \* firings handed over so far
  spent,    \* firings the record was advanced past
  faults    \* writes that failed

recordVars == <<job, asked, due, slots, late, granted, enrolled, handed,
                spent, faults>>

Counts == {Unbounded, Times}

RecordInit ==
  /\ asked \in Counts
  /\ job \in [kind : {"schedule", "loop"}, reminder : BOOLEAN,
              times : {asked}, state : {"living"}, final : {FALSE}]
  /\ job.kind = "schedule" => asked = Unbounded
  /\ due = FALSE /\ slots = 0 /\ late = FALSE
  /\ granted = TRUE /\ enrolled = TRUE
  /\ handed = 0 /\ spent = 0 /\ faults = 0

Living == job.state = "living"

(* `fires_last` and `next_after_end`, of a record read at some moment.     *)
NextAfterEnd(j) == j.kind = "loop" /\ late
FiresLast(j) == j.kind = "schedule" \/ j.times \in {0, 1} \/ NextAfterEnd(j)

(* What the clock looks for: due, not in its last firing, and either       *)
(* allowed or an orphan to clear away.                                     *)
Ripe == Living /\ ~job.final /\ due /\ (granted \/ ~enrolled)

(* One write of the record: it lands, or the disk refuses it and the       *)
(* record stays what it was.                                               *)
Write(record, again) ==
  \/ /\ job' = record
     /\ due' = again
     /\ UNCHANGED faults
  \/ /\ faults' = faults + 1
     /\ UNCHANGED <<job, due>>

(* The record past the slot just fired or skipped. atRest says whether the *)
(* job's thread has nothing left to run.                                   *)
Ends(ran) == IF ran THEN FiresLast(job) ELSE NextAfterEnd(job)
FinalNow(ran) == Ends(ran) /\ ran /\ ~job.reminder
EndsNow(ran, atRest) == Ends(ran) /\ (FinalNow(ran) => atRest)
Spent(times) == IF times = Unbounded \/ times = 0 THEN times ELSE times - 1

(* Mutant: a slot that was skipped spends the loop's count too.            *)
AdvancedAlways(ran, atRest) ==
  [job EXCEPT !.final = @ \/ FinalNow(ran),
              !.state = IF EndsNow(ran, atRest) THEN "ended" ELSE @,
              !.times = IF job.kind = "loop" THEN Spent(@) ELSE @]

Advanced(ran, atRest) ==
  [job EXCEPT !.final = @ \/ FinalNow(ran),
              !.state = IF EndsNow(ran, atRest) THEN "ended" ELSE @,
              !.times = IF job.kind = "loop" /\ ran THEN Spent(@) ELSE @]

(* `finish`: the job advances or ends, unless it was ended meanwhile.      *)
Finish(ran, atRest) ==
  /\ IF Living
       THEN /\ Write(Advanced(ran, atRest), IF job.kind = "loop" THEN FALSE
                                                                 ELSE due)
            /\ spent' = IF ran /\ faults' = faults THEN spent + 1 ELSE spent
       ELSE UNCHANGED <<job, due, faults, spent>>
  /\ UNCHANGED <<asked, slots, late, granted, enrolled, handed>>

(* `retry`: a firing that could not be handed over is due again later.     *)
Retry ==
  /\ IF Living THEN Write(job, FALSE) ELSE UNCHANGED <<job, due, faults>>
  /\ UNCHANGED <<asked, slots, late, granted, enrolled, handed, spent>>

(* `tombstone_if_live`: a job whose teammate is gone is cleared away.      *)
Tombstone ==
  /\ IF Living THEN Write([job EXCEPT !.state = "off"], due)
               ELSE UNCHANGED <<job, due, faults>>
  /\ UNCHANGED <<asked, slots, late, granted, enrolled, handed, spent>>

(* `end_final_firing`: the last firing is over.                            *)
EndFinalFiring ==
  /\ IF Living /\ job.final THEN Write([job EXCEPT !.state = "ended"], due)
                            ELSE UNCHANGED <<job, due, faults>>
  /\ UNCHANGED <<asked, slots, late, granted, enrolled, handed, spent>>

(* `end_job_record`: the person cancels the job, or it has met its goal. A *)
(* write that fails is the caller's error.                                 *)
EndRecord ==
  /\ Living
  /\ job' = [job EXCEPT !.state = "ended"]
  /\ UNCHANGED <<asked, due, slots, late, granted, enrolled, handed, spent,
                 faults>>

(* `schedule_cancel` of a job that has ended takes it off the list.        *)
TakeOff ==
  /\ job.state = "ended"
  /\ job' = [job EXCEPT !.state = "off"]
  /\ UNCHANGED <<asked, due, slots, late, granted, enrolled, handed, spent,
                 faults>>

(* A firing has been handed over.                                          *)
Handed ==
  /\ handed' = handed + 1
  /\ UNCHANGED <<job, asked, due, slots, late, granted, enrolled, spent,
                 faults>>

(* The world: the moment comes, the end date draws near, the person takes  *)
(* the grant away or deletes the teammate.                                 *)
SlotComes ==
  /\ ~due /\ Living /\ slots < MaxFirings
  /\ due' = TRUE /\ slots' = slots + 1
  /\ UNCHANGED <<job, asked, late, granted, enrolled, handed, spent, faults>>

DateNears ==
  /\ job.kind = "loop" /\ ~late
  /\ late' = TRUE
  /\ UNCHANGED <<job, asked, due, slots, granted, enrolled, handed, spent,
                 faults>>

GrantTaken ==
  /\ granted
  /\ granted' = FALSE
  /\ UNCHANGED <<job, asked, due, slots, late, enrolled, handed, spent,
                 faults>>

Deleted ==
  /\ enrolled
  /\ enrolled' = FALSE /\ granted' = FALSE
  /\ UNCHANGED <<job, asked, due, slots, late, handed, spent, faults>>

RecordTypeOK ==
  /\ asked \in Counts
  /\ job \in [kind : {"schedule", "loop"}, reminder : BOOLEAN,
              times : {Unbounded} \cup 0..Times,
              state : {"living", "ended", "off"}, final : BOOLEAN]
  /\ due \in BOOLEAN /\ slots \in 0..MaxFirings /\ late \in BOOLEAN
  /\ granted \in BOOLEAN /\ enrolled \in BOOLEAN
  /\ handed \in Nat /\ spent \in Nat /\ faults \in Nat
=============================================================================
