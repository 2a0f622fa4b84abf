----------------------------- MODULE JobsProofs -----------------------------
(* Proved of Jobs, for any number of calls, of tasks in the queue and of   *)
(* LiveJobs, any count and any bounds:                                     *)
(*                                                                         *)
(*   CountAlwaysKept: a loop made with a count is handed over that many    *)
(*     times, and more often only by what a process that ended or a disk   *)
(*     that refused a write made the record forget.                        *)
(*   ThreadAlwaysTrue: the thread's state is what its tasks do: a firing   *)
(*     believed in flight is, and a line that waits has a driver.          *)
(*   LastFiringAlwaysEnds: a job in its last firing has somebody to end it.*)
(*                                                                         *)
(* The count. Only the clock hands a firing over and only the clock        *)
(* advances the record past one, but it does them in two steps, between    *)
(* which the job may be cancelled or run out, and the process may end.     *)
(* What is carried is the account of that gap: how many firings were       *)
(* handed over beside how many the record knows of.                        *)
(*                                                                         *)
(* The thread. A LiveJob's life, its claim and its lines are written by    *)
(* tasks that no longer hold the room's map, so what is carried says, of   *)
(* every LiveJob, which task of the queue stands behind what it believes   *)
(* (ThreadInv), and that an end is written to the record before the thread *)
(* is told (EndsInv, CallsInv). The last firing's end then follows: the    *)
(* clock leaves it to the queue only while a line waits or a driver is     *)
(* claimed; either has a task, which ends the job before it goes.          *)
EXTENDS Jobs, TLAPS

-----------------------------------------------------------------------------
JobRecords ==
  [kind : {"schedule", "loop"}, reminder : BOOLEAN,
   times : {Unbounded} \cup 0..Times,
   state : {"living", "ended", "off"}, final : BOOLEAN]

Clocks ==
  [pc : {"look", "fire", "clear", "post", "find", "queue", "finish", "retry"},
   of : 0..MaxLives, cur : JobRecords, ran : BOOLEAN, last : BOOLEAN]

Tallies ==
  /\ asked \in Counts
  /\ job \in JobRecords
  /\ clock \in Clocks
  /\ handed \in Nat /\ spent \in Nat /\ faults \in Nat /\ crashes \in Nat

(* The clock handed a firing over that the record is not yet past.         *)
Owing == clock.pc = "finish" /\ clock.ran = TRUE

(* The clock has seen the job live, and has not handed its firing over.    *)
Handing == clock.pc \in {"post", "find", "queue"}

(* The record's part: what it has left is what it was not advanced past,   *)
(* and one that may still fire has some left.                              *)
RecordTells ==
  /\ job.kind = "loop"
  /\ job.times \in 0..Times
  /\ Living => job.times = asked - spent
  /\ Living /\ job.final = FALSE => job.times >= 1
  /\ job.state = "ended" /\ job.times = 0 => handed >= asked

(* The account: what was handed over is what the record is past, what the  *)
(* clock owes it, and what was forgotten.                                  *)
Account ==
  /\ handed <= asked + crashes + faults
  /\ spent <= handed
  /\ Owing => spent < handed
  /\ Living => handed <= spent + crashes + faults + 1
  /\ Living /\ ~Owing => handed <= spent + crashes + faults
  /\ Handing => handed <= spent + crashes + faults
  /\ Handing \/ Owing => spent < asked

CountInv == Tallies /\ (asked # Unbounded => RecordTells /\ Account)

(* A step that hands nothing over and advances nothing: the record stays   *)
(* or ends, and the clock stays, goes on with nothing in its hand, or      *)
(* forgets what it owed together with a process or a write.                *)
RecordOnlyEnds ==
  /\ job' \in JobRecords
  /\ job'.kind = job.kind /\ job'.times = job.times
  /\ job'.final = job.final
  /\ job'.state = "living" => job.state = "living"
  /\ job.state = "off" => job'.state = "off"

ClockForgets ==
  /\ clock' \in Clocks
  /\ Owing' => Owing
  /\ Handing' => Handing
  /\ \/ Owing' \/ ~Owing \/ ~Living'
     \/ crashes' + faults' >= crashes + faults + 1

Quiet ==
  /\ UNCHANGED <<asked, handed, spent>>
  /\ faults' \in Nat /\ faults' >= faults
  /\ crashes' \in Nat /\ crashes' >= crashes
  /\ RecordOnlyEnds /\ ClockForgets

(* More processes ended and more writes refused only widen the account.    *)
LEMMA Widens ==
  ASSUME NEW h \in Nat, NEW n \in Nat, NEW c \in Nat, NEW f \in Nat,
         NEW d \in Nat, NEW g \in Nat, d >= c, g >= f
  PROVE  /\ h <= n + c + f => h <= n + d + g
         /\ h <= n + c + f + 1 => h <= n + d + g + 1
         /\ h <= n + c + f + 1 /\ d + g >= c + f + 1 => h <= n + d + g
OBVIOUS

(* What leaves the account alone keeps it.                                 *)
LEMMA QuietKeeps ==
  ASSUME CountInv, Quiet
  PROVE  CountInv'
<1>q. /\ asked' = asked /\ handed' = handed /\ spent' = spent
      /\ faults' \in Nat /\ faults' >= faults
      /\ crashes' \in Nat /\ crashes' >= crashes
  BY DEF Quiet
<1>r. RecordOnlyEnds /\ ClockForgets
  BY DEF Quiet
<1>1. Tallies'
  BY <1>q, <1>r DEF CountInv, Tallies, RecordOnlyEnds, ClockForgets
<1>2. ASSUME asked' # Unbounded
      PROVE  RecordTells' /\ Account'
  <2>1. asked # Unbounded /\ RecordTells /\ Account /\ Tallies
    BY <1>q, <1>r, <1>2 DEF CountInv
  <2>2. asked \in Nat
    BY <1>q, <1>r, <2>1, TimesAssumption DEF Tallies, Counts
  <2>3. Living' => Living
    BY <1>q, <1>r DEF Living, RecordOnlyEnds
  <2>4. job.state \in {"living", "ended", "off"}
    BY <1>q, <1>r, <2>1 DEF Tallies, JobRecords
  <2>5. RecordTells'
    <3>1. job'.kind = "loop" /\ job'.times \in 0..Times
      BY <1>q, <1>r, <2>1 DEF RecordTells, RecordOnlyEnds
    <3>2. Living' => job'.times = asked' - spent'
      BY <1>q, <1>r, <2>1, <2>3 DEF RecordTells, RecordOnlyEnds
    <3>3. Living' /\ job'.final = FALSE => job'.times >= 1
      BY <1>q, <1>r, <2>1, <2>3 DEF RecordTells, RecordOnlyEnds
    <3>4. job'.state = "ended" /\ job'.times = 0 => handed' >= asked'
      <4>1. ASSUME job'.state = "ended", job'.times = 0
            PROVE  handed >= asked
        <5>1. CASE job.state = "ended"
          BY <1>q, <1>r, <5>1, <4>1, <2>1 DEF RecordTells, RecordOnlyEnds
        <5>2. CASE job.state = "living"
          <6>1. asked - spent = 0
            BY <1>q, <1>r, <5>2, <4>1, <2>1
            DEF RecordTells, RecordOnlyEnds, Living
          <6> QED BY <1>q, <1>r, <6>1, <2>1, <2>2 DEF Account, Tallies
        <5>3. CASE job.state = "off"
          BY <1>q, <1>r, <5>3, <4>1 DEF RecordOnlyEnds
        <5> QED BY <5>1, <5>2, <5>3, <2>4
      <4> QED BY <1>q, <4>1
    <3> QED BY <3>1, <3>2, <3>3, <3>4 DEF RecordTells
  <2>6. Account'
    <3>1. /\ handed \in Nat /\ spent \in Nat /\ faults \in Nat
          /\ crashes \in Nat
      BY <1>q, <1>r, <2>1 DEF Tallies
    <3>2. handed' <= asked' + crashes' + faults' /\ spent' <= handed'
      <4>1. handed <= asked + crashes + faults /\ spent <= handed
        BY <1>q, <1>r, <2>1 DEF Account
      <4> QED BY <4>1, <1>q, <3>1, <2>2, Widens
    <3>3. Owing' => spent' < handed'
      BY <1>q, <1>r, <2>1 DEF Account, ClockForgets
    <3>4. Living' => handed' <= spent' + crashes' + faults' + 1
      <4>1. Living' => handed <= spent + crashes + faults + 1
        BY <2>1, <2>3 DEF Account
      <4> QED BY <1>q, <4>1, <3>1, Widens
    <3>5. Living' /\ ~Owing' => handed' <= spent' + crashes' + faults'
      <4>1. ASSUME Living', ~Owing'
            PROVE  handed <= spent + crashes' + faults'
        <5>1. Living
          BY <1>q, <1>r, <4>1, <2>3
        <5>2. ~Owing \/ crashes' + faults' >= crashes + faults + 1
          BY <1>q, <1>r, <4>1 DEF ClockForgets
        <5>3. CASE ~Owing
          <6>1. handed <= spent + crashes + faults
            BY <5>1, <5>3, <2>1 DEF Account
          <6> QED BY <1>q, <6>1, <3>1, Widens
        <5>4. CASE crashes' + faults' >= crashes + faults + 1
          <6>1. handed <= spent + crashes + faults + 1
            BY <1>q, <1>r, <5>1, <2>1 DEF Account
          <6> QED BY <1>q, <6>1, <5>4, <3>1, Widens
        <5> QED BY <5>2, <5>3, <5>4
      <4> QED BY <1>q, <4>1
    <3>6. Handing' => handed' <= spent' + crashes' + faults'
      <4>1. Handing => handed <= spent + crashes + faults
        BY <1>q, <1>r, <2>1 DEF Account
      <4>2. Handing' => Handing
        BY <1>q, <1>r DEF ClockForgets
      <4> QED BY <1>q, <4>1, <4>2, <3>1, Widens
    <3>7. Handing' \/ Owing' => spent' < asked'
      BY <1>q, <1>r, <2>1 DEF Account, ClockForgets
    <3> QED BY <3>2, <3>3, <3>4, <3>5, <3>6, <3>7 DEF Account
  <2> QED BY <2>5, <2>6
<1> QED BY <1>1, <1>2 DEF CountInv

-----------------------------------------------------------------------------
(* The writes of the record that advance nothing.                          *)
RecordOnly ==
  /\ asked' = asked /\ handed' = handed /\ spent' = spent
  /\ faults' \in Nat /\ faults' >= faults
  /\ RecordOnlyEnds

LEMMA RecordStays ==
  ASSUME Tallies, job' = job, asked' = asked, handed' = handed,
         spent' = spent, faults' = faults
  PROVE  RecordOnly
BY DEF RecordOnly, RecordOnlyEnds, Tallies

LEMMA WritesOnlyEnd ==
  ASSUME Tallies,
         Retry \/ Tombstone \/ EndFinalFiring \/ EndRecord \/ TakeOff
  PROVE  RecordOnly
<1>1. /\ asked' = asked /\ handed' = handed /\ spent' = spent
  BY DEF Retry, Tombstone, EndFinalFiring, EndRecord, TakeOff
<1>2. faults' \in Nat /\ faults' >= faults
  <2>1. faults \in Nat
    BY DEF Tallies
  <2>2. faults' = faults \/ faults' = faults + 1
    BY DEF Retry, Tombstone, EndFinalFiring, EndRecord, TakeOff, Write
  <2> QED BY <2>1, <2>2
<1>3. job \in JobRecords
  BY DEF Tallies
<1>4. \/ job' = job
      \/ Living /\ job' = [job EXCEPT !.state = "ended"]
      \/ job.state # "off" /\ job' = [job EXCEPT !.state = "off"]
  <2>1. CASE Retry
    BY <2>1 DEF Retry, Write
  <2>2. CASE Tombstone
    BY <2>2 DEF Tombstone, Write, Living
  <2>3. CASE EndFinalFiring
    BY <2>3 DEF EndFinalFiring, Write
  <2>4. CASE EndRecord
    BY <2>4 DEF EndRecord
  <2>5. CASE TakeOff
    BY <2>5 DEF TakeOff
  <2> QED BY <2>1, <2>2, <2>3, <2>4, <2>5
<1>5. RecordOnlyEnds
  <2>1. CASE job' = job
    BY <2>1, <1>3 DEF RecordOnlyEnds
  <2>2. CASE Living /\ job' = [job EXCEPT !.state = "ended"]
    BY <2>2, <1>3 DEF RecordOnlyEnds, JobRecords, Living
  <2>3. CASE job.state # "off" /\ job' = [job EXCEPT !.state = "off"]
    BY <2>3, <1>3 DEF RecordOnlyEnds, JobRecords
  <2> QED BY <1>4, <2>1, <2>2, <2>3
<1> QED BY <1>1, <1>2, <1>5 DEF RecordOnly

(* The clock where it was, or looking for the next job.                    *)
LEMMA ClockRests == ASSUME Tallies PROVE AtLook \in Clocks
BY LivesAssumption DEF AtLook, NoJob, Clocks, JobRecords, Tallies

LEMMA ClockMoves ==
  ASSUME Tallies,
         NEW p \in {"look", "fire", "clear", "post", "find", "queue",
                    "finish", "retry"}
  PROVE  /\ [clock EXCEPT !.pc = p] \in Clocks
         /\ [clock EXCEPT !.pc = p].pc = p
         /\ [clock EXCEPT !.pc = p].ran = clock.ran
BY DEF Tallies, Clocks

(* Everyone but the clock, whose steps leave the clock alone.              *)
LEMMA OthersKeep ==
  ASSUME CountInv, RecordOnly, clock' = clock,
         crashes' = crashes
  PROVE  CountInv'
<1>1. Tallies
  BY DEF CountInv
<1>2. ClockForgets
  BY <1>1 DEF ClockForgets, Owing, Handing, Tallies
<1>3. crashes' \in Nat /\ crashes' >= crashes
  BY <1>1 DEF Tallies
<1>4. Quiet
  BY <1>2, <1>3 DEF Quiet, RecordOnly
<1> QED BY <1>4, QuietKeeps

(* The clock with nothing in its hand goes on with nothing.                *)
LEMMA ClockGoesOn ==
  ASSUME CountInv, RecordOnly, crashes' = crashes, clock' \in Clocks,
         ~Owing, ~Owing', Handing' => Handing
  PROVE  CountInv'
<1>1. Tallies
  BY DEF CountInv
<1>2. ClockForgets
  BY DEF ClockForgets
<1>3. crashes' \in Nat /\ crashes' >= crashes
  BY <1>1 DEF Tallies
<1>4. Quiet
  BY <1>2, <1>3 DEF Quiet, RecordOnly
<1> QED BY <1>4, QuietKeeps

-----------------------------------------------------------------------------
LEMMA TaskSteps ==
  ASSUME CountInv, NEW t \in Tasks, TaskStep(t)
  PROVE  CountInv'
<1>1. Tallies
  BY DEF CountInv
<1>2. clock' = clock /\ crashes' = crashes
  BY DEF TaskStep, SayLooks, SayFinds, SayQueues, Halts, HaltDrops, Cancels,
         CancelsEnded, Dones, EndFinds, EndShuts, EndStops, EndLetsGo
<1>3. RecordOnly
  <2>1. CASE Cancels(t) \/ Dones(t)
    BY <2>1, <1>1, WritesOnlyEnd DEF Cancels, Dones
  <2>2. CASE CancelsEnded(t)
    BY <2>2, <1>1, WritesOnlyEnd DEF CancelsEnded
  <2>3. CASE ~(Cancels(t) \/ Dones(t) \/ CancelsEnded(t))
    <3>1. UNCHANGED recordVars
      BY <2>3 DEF TaskStep, SayLooks, SayFinds, SayQueues, Halts, HaltDrops,
                  EndFinds, EndShuts, EndStops, EndLetsGo, recordVars
    <3> QED BY <3>1, <1>1, RecordStays DEF recordVars
  <2> QED BY <2>1, <2>2, <2>3
<1> QED BY <1>2, <1>3, OthersKeep

LEMMA RunnerSteps ==
  ASSUME CountInv, NEW r \in Runners, RunnerMoves(r)
  PROVE  CountInv'
<1>1. Tallies
  BY DEF CountInv
<1>2. clock' = clock /\ crashes' = crashes
  BY DEF RunnerMoves, callVars
<1>3. RunnerStep(r)
  BY DEF RunnerMoves
<1>4. RecordOnly
  <2>1. CASE Drops(r) \/ Over(r)
    BY <2>1, <1>1, WritesOnlyEnd DEF Drops, Over
  <2>2. CASE ~(Drops(r) \/ Over(r))
    <3>1. UNCHANGED recordVars
      BY <2>2, <1>3 DEF RunnerStep, Begin, AgentStarts, AgentFails, Turn,
           TurnOver, End, Closes, NextLine, Rests
    <3> QED BY <3>1, <1>1, RecordStays DEF recordVars
  <2> QED BY <2>1, <2>2
<1> QED BY <1>2, <1>4, OthersKeep

LEMMA OtherSteps ==
  ASSUME CountInv, Others
  PROVE  CountInv'
<1>1. Tallies
  BY DEF CountInv
<1>2. clock' = clock /\ crashes' = crashes
  BY DEF Others, callVars
<1>3. /\ job' = job /\ asked' = asked /\ handed' = handed
      /\ spent' = spent /\ faults' = faults
  BY DEF Others, Park, SlotComes, LetGo, Revoked, DateNears, GrantTaken,
         Deleted, recordVars
<1>4. RecordOnly
  BY <1>1, <1>3, RecordStays
<1> QED BY <1>2, <1>4, OthersKeep

LEMMA CrashSteps ==
  ASSUME CountInv, Crash
  PROVE  CountInv'
<1>1. Tallies
  BY DEF CountInv
<1>2. RecordOnly
  BY <1>1, WritesOnlyEnd DEF Crash
<1>3. crashes \in Nat /\ faults \in Nat /\ crashes' = crashes + 1
  BY <1>1 DEF Tallies, Crash
<1>4. faults' \in Nat /\ faults' >= faults
  BY <1>2 DEF RecordOnly
<1>5. clock' = AtLook
  BY DEF Crash, ClockLooks
<1>6. clock' \in Clocks /\ ~Owing' /\ ~Handing'
  <2>1. clock'.pc = "look"
    BY <1>5 DEF AtLook
  <2> QED BY <1>1, <1>5, <2>1, ClockRests DEF Owing, Handing
<1>7. crashes' + faults' >= crashes + faults + 1
  <2>1. \A c, f, g \in Nat : g >= f => (c + 1) + g >= c + f + 1
    OBVIOUS
  <2> QED BY <1>3, <1>4, <2>1
<1>8. ClockForgets
  BY <1>6, <1>7 DEF ClockForgets
<1>9. crashes' \in Nat /\ crashes' >= crashes
  BY <1>3
<1> QED BY <1>2, <1>8, <1>9, QuietKeeps DEF Quiet, RecordOnly

-----------------------------------------------------------------------------
(* The clock hands its firing over.                                        *)
LEMMA HandsOver ==
  ASSUME CountInv, Handed, Handing, crashes' = crashes, clock' \in Clocks,
         Owing'
  PROVE  CountInv'
<1>1. Tallies
  BY DEF CountInv
<1>2. /\ job' = job /\ asked' = asked /\ spent' = spent
      /\ faults' = faults /\ handed' = handed + 1
  BY DEF Handed
<1>3. Tallies'
  BY <1>1, <1>2 DEF Tallies
<1>4. ASSUME asked' # Unbounded
      PROVE  RecordTells' /\ Account'
  <2>1. asked # Unbounded /\ RecordTells /\ Account
    BY <1>2, <1>4 DEF CountInv
  <2>2. /\ asked \in Nat /\ handed \in Nat /\ spent \in Nat
        /\ faults \in Nat /\ crashes \in Nat
    BY <2>1, <1>1, TimesAssumption DEF Tallies, Counts
  <2>3. RecordTells'
    <3>1. job.state = "ended" /\ job.times = 0 => handed >= asked
      BY <2>1 DEF RecordTells
    <3>2. job'.state = "ended" /\ job'.times = 0 => handed' >= asked'
      BY <3>1, <1>2, <2>2
    <3> QED BY <3>2, <2>1, <1>2 DEF RecordTells, Living
  <2>4. Account'
    <3>1. /\ handed <= spent + crashes + faults /\ spent < asked
          /\ spent <= handed
      BY <2>1 DEF Account
    <3>2. \A h, s, a, c, f \in Nat :
            h <= s + c + f /\ s < a /\ s <= h =>
              /\ h + 1 <= a + c + f
              /\ s <= h + 1 /\ s < h + 1
              /\ h + 1 <= s + c + f + 1
      OBVIOUS
    <3>3. /\ handed + 1 <= asked + crashes + faults
          /\ spent <= handed + 1 /\ spent < handed + 1
          /\ handed + 1 <= spent + crashes + faults + 1
      BY <3>1, <3>2, <2>2
    <3>4. ~Handing'
      BY DEF Owing, Handing
    <3> QED BY <3>1, <3>3, <3>4, <1>2 DEF Account
  <2> QED BY <2>3, <2>4
<1> QED BY <1>3, <1>4 DEF CountInv

(* The clock takes a job up that is live and not in its last firing.       *)
LEMMA TakesUp ==
  ASSUME CountInv, UNCHANGED recordVars, crashes' = crashes,
         clock.pc = "fire", clock' \in Clocks, Handing', ~Owing',
         Living, ~job.final
  PROVE  CountInv'
<1>1. Tallies
  BY DEF CountInv
<1>2. /\ job' = job /\ asked' = asked /\ spent' = spent
      /\ faults' = faults /\ handed' = handed
  BY DEF recordVars
<1>3. Tallies'
  BY <1>1, <1>2 DEF Tallies
<1>4. ASSUME asked' # Unbounded
      PROVE  RecordTells' /\ Account'
  <2>1. asked # Unbounded /\ RecordTells /\ Account
    BY <1>2, <1>4 DEF CountInv
  <2>2. asked \in Nat /\ spent \in Nat
    BY <2>1, <1>1, TimesAssumption DEF Tallies, Counts
  <2>3. RecordTells'
    BY <2>1, <1>2 DEF RecordTells, Living
  <2>4. ~Owing
    BY DEF Owing
  <2>5. spent < asked
    <3>1. job.final = FALSE
      BY <1>1 DEF Tallies, JobRecords
    <3>2. job.times >= 1 /\ job.times = asked - spent
      BY <2>1, <3>1 DEF RecordTells
    <3> QED BY <3>2, <2>2
  <2>6. handed <= spent + crashes + faults
    BY <2>1, <2>4 DEF Account
  <2> QED BY <2>1, <2>3, <2>4, <2>5, <2>6, <1>2 DEF Account, Living
<1> QED BY <1>3, <1>4 DEF CountInv

-----------------------------------------------------------------------------
(* The record past a slot.                                                 *)
LEMMA AdvancedType ==
  ASSUME Tallies, NEW ran \in BOOLEAN, NEW atRest \in BOOLEAN
  PROVE  /\ Advanced(ran, atRest) \in JobRecords
         /\ Advanced(ran, atRest).kind = job.kind
         /\ Advanced(ran, atRest).times =
              IF job.kind = "loop" /\ ran THEN Spent(job.times)
                                          ELSE job.times
         /\ Advanced(ran, atRest).final = (job.final \/ FinalNow(ran))
         /\ Advanced(ran, atRest).state =
              IF EndsNow(ran, atRest) THEN "ended" ELSE job.state
<1>1. job \in JobRecords
  BY DEF Tallies
<1> DEFINE
  f == job.final \/ FinalNow(ran)
  s == IF EndsNow(ran, atRest) THEN "ended" ELSE job.state
  n == IF job.kind = "loop" /\ ran THEN Spent(job.times) ELSE job.times
<1>2. f \in BOOLEAN
  OBVIOUS
<1>3. s \in {"living", "ended", "off"}
  BY <1>1 DEF JobRecords
<1>4. n \in {Unbounded} \cup 0..Times
  <2>1. job.times \in {Unbounded} \cup 0..Times
    BY <1>1 DEF JobRecords
  <2>2. Spent(job.times) \in {Unbounded} \cup 0..Times
    BY <2>1, TimesAssumption DEF Spent
  <2> QED BY <2>1, <2>2
<1>5. Advanced(ran, atRest) =
        [job EXCEPT !.final = f, !.state = s, !.times = n]
  BY DEF Advanced
<1> HIDE DEF f, s, n
<1>6. LET k == [job EXCEPT !.final = f, !.state = s, !.times = n]
      IN k \in JobRecords /\ k.kind = job.kind /\ k.times = n
           /\ k.final = f /\ k.state = s
  BY <1>1, <1>2, <1>3, <1>4 DEF JobRecords
<1> QED BY <1>5, <1>6 DEF f, s, n

(* A count that has some left has one less.                                *)
LEMMA SpendsOne ==
  ASSUME NEW t \in Nat, t >= 1
  PROVE  Spent(t) = t - 1
<1>1. t # Unbounded
  BY TimesAssumption
<1>2. t # 0
  OBVIOUS
<1> QED BY <1>1, <1>2 DEF Spent

(* A firing handed over is now the record's own.                           *)
LEMMA Advances ==
  ASSUME CountInv, Owing, Living, NEW atRest \in BOOLEAN,
         job' = Advanced(TRUE, atRest), spent' = spent + 1,
         UNCHANGED <<asked, handed, faults, crashes>>,
         clock' \in Clocks, ~Owing', ~Handing'
  PROVE  CountInv'
<1>1. Tallies
  BY DEF CountInv
<1>2. /\ asked' = asked /\ handed' = handed /\ faults' = faults
      /\ crashes' = crashes
  OBVIOUS
<1>3. /\ job' \in JobRecords /\ job'.kind = job.kind
      /\ job'.times = IF job.kind = "loop" THEN Spent(job.times)
                                            ELSE job.times
      /\ job'.final = (job.final \/ FinalNow(TRUE))
      /\ job'.state = IF EndsNow(TRUE, atRest) THEN "ended" ELSE job.state
  BY <1>1, AdvancedType
<1>4. Tallies'
  <2>1. spent' \in Nat
    BY <1>1 DEF Tallies
  <2> QED BY <1>1, <1>2, <1>3, <2>1 DEF Tallies
<1>5. ASSUME asked' # Unbounded
      PROVE  RecordTells' /\ Account'
  <2>1. asked # Unbounded /\ RecordTells /\ Account
    BY <1>2, <1>5 DEF CountInv
  <2>2. /\ asked \in Nat /\ handed \in Nat /\ spent \in Nat
        /\ faults \in Nat /\ crashes \in Nat
    BY <2>1, <1>1, TimesAssumption DEF Tallies, Counts
  <2>3. spent < asked /\ spent < handed
    BY <2>1 DEF Account
  <2>4. /\ job.kind = "loop" /\ job.times \in 0..Times
        /\ job.times = asked - spent
    BY <2>1 DEF RecordTells
  <2>5. job.times >= 1
    BY <2>2, <2>3, <2>4
  <2>6. job'.times = asked - (spent + 1) /\ asked - (spent + 1) \in 0..Times
    <3>1. \A a, k, n, t \in Nat :
            k < a /\ t \in 0..n /\ t = a - k =>
              /\ t >= 1 /\ t - 1 = a - (k + 1) /\ t - 1 \in 0..n
      OBVIOUS
    <3>2. Times \in Nat /\ job.times \in Nat
      BY <2>4, TimesAssumption
    <3>3. /\ job.times - 1 = asked - (spent + 1)
          /\ job.times - 1 \in 0..Times
      BY <2>2, <2>3, <2>4, <3>1, <3>2
    <3>4. Spent(job.times) = job.times - 1
      BY <3>2, <2>5, SpendsOne
    <3>5. job'.times = Spent(job.times)
      BY <1>3, <2>4
    <3> QED BY <3>3, <3>4, <3>5
  <2>7. RecordTells'
    <3>1. job'.kind = "loop" /\ job'.times \in 0..Times
      BY <1>3, <2>4, <2>6
    <3>2. job'.times = asked' - spent'
      BY <1>2, <2>6
    <3>3. ASSUME Living', job'.final = FALSE
          PROVE  job'.times >= 1
      <4>1. ~FinalNow(TRUE)
        BY <1>3, <3>3
      <4>2. ~EndsNow(TRUE, atRest)
        BY <1>3, <3>3 DEF Living
      <4>3. ~FiresLast(job)
        BY <4>1, <4>2 DEF EndsNow, Ends
      <4>4. job.times \notin {0, 1}
        BY <4>3 DEF FiresLast
      <4>5. \A a, k \in Nat : k < a /\ a - k \notin {0, 1} =>
                               a - (k + 1) >= 1
        OBVIOUS
      <4>6. asked - spent \notin {0, 1}
        BY <4>4, <2>4
      <4>7. asked - (spent + 1) >= 1
        BY <4>5, <4>6, <2>2, <2>3
      <4> QED BY <4>7, <2>6
    <3>4. job'.times = 0 => handed' >= asked'
      <4>1. \A a, h, k \in Nat : k < h /\ a - (k + 1) = 0 => h >= a
        OBVIOUS
      <4>2. asked - (spent + 1) = 0 => handed >= asked
        BY <4>1, <2>2, <2>3
      <4> QED BY <4>2, <2>6, <1>2
    <3> QED BY <3>1, <3>2, <3>3, <3>4 DEF RecordTells
  <2>8. Account'
    <3>1. /\ handed <= asked + crashes + faults
          /\ handed <= spent + crashes + faults + 1
      BY <2>1 DEF Account
    <3>2. \A h, s, c, f \in Nat :
            h <= s + c + f + 1 =>
              /\ h <= (s + 1) + c + f /\ h <= (s + 1) + c + f + 1
      OBVIOUS
    <3>3. /\ handed <= (spent + 1) + crashes + faults
          /\ handed <= (spent + 1) + crashes + faults + 1
      BY <3>1, <3>2, <2>2
    <3>4. spent + 1 <= handed
      BY <2>2, <2>3
    <3> QED BY <3>1, <3>3, <3>4, <1>2 DEF Account
  <2> QED BY <2>7, <2>8
<1> QED BY <1>4, <1>5 DEF CountInv

(* `finish`: a firing handed over, or a slot skipped.                      *)
LEMMA FinishSteps ==
  ASSUME CountInv, Finishes
  PROVE  CountInv'
<1>1. Tallies
  BY DEF CountInv
<1>2. /\ clock.pc = "finish" /\ clock' = AtLook
      /\ asked' = asked /\ handed' = handed /\ crashes' = crashes
  BY DEF Finishes, ClockAt, ClockLooks, Finish, UNCHANGEDcalls
<1>3. clock' \in Clocks /\ ~Owing' /\ ~Handing'
  <2>1. clock'.pc = "look"
    BY <1>2 DEF AtLook
  <2> QED BY <1>1, <1>2, <2>1, ClockRests DEF Owing, Handing
<1>4. clock.ran \in BOOLEAN
  BY <1>1 DEF Tallies, Clocks
<1>5. AtRest \in BOOLEAN
  BY DEF AtRest
<1>6. /\ faults \in Nat /\ crashes \in Nat
  BY <1>1 DEF Tallies
<1>7. CASE ~Living
  <2>1. job' = job /\ faults' = faults /\ spent' = spent
    BY <1>7 DEF Finishes, Finish
  <2>2. RecordOnly
    BY <2>1, <1>1, <1>2, RecordStays
  <2>3. ~Living'
    BY <2>1, <1>7 DEF Living
  <2>4. ClockForgets
    BY <1>3, <2>3 DEF ClockForgets
  <2>5. Quiet
    BY <2>2, <2>4, <1>2, <1>6 DEF Quiet, RecordOnly
  <2> QED BY <2>5, QuietKeeps
<1>8. CASE Living /\ faults' = faults + 1 /\ job' = job
  <2>1. faults' # faults
    BY <1>6, <1>8
  <2>2. spent' = spent
    BY <1>8, <2>1 DEF Finishes, Finish
  <2>3. RecordOnlyEnds
    BY <1>1, <1>8 DEF RecordOnlyEnds, Tallies
  <2>4. /\ faults' \in Nat /\ faults' >= faults
        /\ crashes' + faults' >= crashes + faults + 1
    BY <1>2, <1>6, <1>8
  <2>5. ClockForgets
    BY <1>3, <2>4 DEF ClockForgets
  <2>6. Quiet
    BY <2>2, <2>3, <2>4, <2>5, <1>2, <1>6 DEF Quiet
  <2> QED BY <2>6, QuietKeeps
<1>9. CASE Living /\ faults' = faults /\ clock.ran = TRUE
             /\ job' = Advanced(TRUE, AtRest)
  <2>1. spent' = spent + 1
    BY <1>9 DEF Finishes, Finish
  <2>2. Owing
    BY <1>2, <1>9 DEF Owing
  <2> QED BY <2>1, <2>2, <1>2, <1>3, <1>5, <1>9, Advances
<1>10. CASE Living /\ faults' = faults /\ clock.ran = FALSE
              /\ job' = Advanced(FALSE, AtRest)
  <2>1. spent' = spent
    BY <1>10 DEF Finishes, Finish
  <2>2. /\ job' \in JobRecords /\ job'.kind = job.kind
        /\ job'.times = job.times
        /\ job'.final = (job.final \/ FinalNow(FALSE))
        /\ job'.state = IF EndsNow(FALSE, AtRest) THEN "ended"
                                                  ELSE job.state
    BY <1>1, <1>5, <1>10, AdvancedType
  <2>3. job'.final = job.final
    <3>1. ~FinalNow(FALSE)
      BY DEF FinalNow
    <3>2. job.final \in BOOLEAN
      BY <1>1 DEF Tallies, JobRecords
    <3> QED BY <2>2, <3>1, <3>2
  <2>4. RecordOnlyEnds
    BY <2>2, <2>3, <1>10 DEF RecordOnlyEnds, Living
  <2>5. RecordOnly
    BY <2>1, <2>4, <1>2, <1>6, <1>10 DEF RecordOnly
  <2>6. ~Owing
    BY <1>10 DEF Owing
  <2> QED BY <2>5, <2>6, <1>2, <1>3, ClockGoesOn
<1>11. Living => \/ faults' = faults + 1 /\ job' = job
                 \/ faults' = faults /\ job' = Advanced(clock.ran, AtRest)
  BY DEF Finishes, Finish, Write
<1> QED BY <1>4, <1>7, <1>8, <1>9, <1>10, <1>11

LEMMA FireSteps ==
  ASSUME CountInv, Fires
  PROVE  CountInv'
<1>1. Tallies
  BY DEF CountInv
<1>2. clock.pc = "fire" /\ crashes' = crashes /\ UNCHANGED recordVars
  BY DEF Fires, ClockAt, UNCHANGEDcalls
<1>3. RecordOnly
  BY <1>1, <1>2, RecordStays DEF recordVars
<1>4. ~Owing
  BY <1>2 DEF Owing
<1>5. CASE ClockLooks \/ ClockTo("clear")
  <2>1. clock' \in Clocks /\ clock'.pc \in {"look", "clear"}
    <3>1. CASE ClockLooks
      BY <3>1, <1>1, ClockRests DEF ClockLooks, AtLook
    <3>2. CASE ClockTo("clear")
      BY <3>2, <1>1, ClockMoves DEF ClockTo
    <3> QED BY <1>5, <3>1, <3>2
  <2>2. ~Owing' /\ ~Handing'
    BY <2>1 DEF Owing, Handing
  <2> QED BY <2>1, <2>2, <1>2, <1>3, <1>4, ClockGoesOn
<1>6. CASE /\ Living /\ ~job.final
           /\ clock' = [clock EXCEPT !.cur = job,
                                     !.pc = IF job.reminder THEN "post"
                                                            ELSE "find"]
  <2>1. clock' \in Clocks /\ clock'.pc \in {"post", "find"}
    BY <1>1, <1>6 DEF Tallies, Clocks
  <2>2. ~Owing' /\ Handing'
    BY <2>1 DEF Owing, Handing
  <2> QED BY <2>1, <2>2, <1>2, <1>6, TakesUp
<1> QED BY <1>5, <1>6 DEF Fires

LEMMA ClockSteps ==
  ASSUME CountInv, ClockStep
  PROVE  CountInv'
<1>1. Tallies
  BY DEF CountInv
<1>2. crashes' = crashes
  BY DEF ClockStep, Looks, Fires, Clears, Reminds, FindsThread, QueuesFiring,
         Finishes, Retries, UNCHANGEDcalls
<1>3. CASE Looks
  <2>1. RecordOnly
    BY <1>1, <1>3, RecordStays DEF Looks, recordVars
  <2>2. /\ clock.pc = "look" /\ clock' \in Clocks /\ clock'.pc = "fire"
    BY <1>1, <1>3, ClockMoves DEF Looks, ClockAt, ClockTo
  <2>3. ~Owing /\ ~Owing' /\ ~Handing'
    BY <2>2 DEF Owing, Handing
  <2> QED BY <2>1, <2>2, <2>3, <1>2, ClockGoesOn
<1>4. CASE Fires
  BY <1>4, FireSteps
<1>5. CASE Clears \/ Retries
  <2>1. RecordOnly
    BY <1>1, <1>5, WritesOnlyEnd DEF Clears, Retries
  <2>2. clock.pc \in {"clear", "retry"} /\ clock' = AtLook
    BY <1>5 DEF Clears, Retries, ClockAt, ClockLooks
  <2>3. clock' \in Clocks /\ clock'.pc = "look"
    BY <2>2, <1>1, ClockRests DEF AtLook
  <2>4. ~Owing /\ ~Owing' /\ ~Handing'
    BY <2>2, <2>3 DEF Owing, Handing
  <2> QED BY <2>1, <2>3, <2>4, <1>2, ClockGoesOn
<1>6. CASE Reminds
  <2>1. clock.pc = "post" /\ Handing /\ ~Owing
    BY <1>6 DEF Reminds, ClockAt, Handing, Owing
  <2>2. CASE /\ Handed
             /\ clock' = [clock EXCEPT !.pc = "finish", !.ran = TRUE]
    <3>1. clock' \in Clocks
      BY <2>2, <1>1 DEF Tallies, Clocks
    <3>2. clock'.pc = "finish" /\ clock'.ran = TRUE
      BY <2>2, <1>1 DEF Tallies, Clocks
    <3>3. Owing'
      BY <3>2 DEF Owing
    <3> QED BY <2>1, <2>2, <3>1, <3>3, <1>2, HandsOver
  <2>3. CASE ClockTo("retry") /\ UNCHANGED recordVars
    <3>1. RecordOnly
      BY <1>1, <2>3, RecordStays DEF recordVars
    <3>2. clock' \in Clocks /\ clock'.pc = "retry"
      BY <1>1, <2>3, ClockMoves DEF ClockTo
    <3>3. ~Owing' /\ ~Handing'
      BY <3>2 DEF Owing, Handing
    <3> QED BY <2>1, <3>1, <3>2, <3>3, <1>2, ClockGoesOn
  <2> QED BY <1>6, <2>2, <2>3 DEF Reminds
<1>7. CASE FindsThread
  <2>1. clock.pc = "find" /\ Handing /\ ~Owing
    BY <1>7 DEF FindsThread, ClockAt, Handing, Owing
  <2>2. RecordOnly
    BY <1>1, <1>7, RecordStays DEF FindsThread, recordVars
  <2>3. PICK v \in Lives :
          clock' = IF life[v].firing \/ FiringWaits(v)
                     THEN [clock EXCEPT !.pc = "finish", !.ran = FALSE]
                     ELSE [clock EXCEPT !.pc = "queue", !.of = v,
                                        !.last = FiresLast(clock.cur)]
    BY <1>7 DEF FindsThread
  <2>4. CASE clock' = [clock EXCEPT !.pc = "finish", !.ran = FALSE]
    <3>1. clock' \in Clocks
      BY <2>4, <1>1 DEF Tallies, Clocks
    <3>2. clock'.pc = "finish" /\ clock'.ran = FALSE
      BY <2>4, <1>1 DEF Tallies, Clocks
    <3>3. ~Owing' /\ ~Handing'
      BY <3>2 DEF Owing, Handing
    <3> QED BY <2>1, <2>2, <3>1, <3>3, <1>2, ClockGoesOn
  <2>5. CASE clock' = [clock EXCEPT !.pc = "queue", !.of = v,
                                    !.last = FiresLast(clock.cur)]
    <3>1. FiresLast(clock.cur) \in BOOLEAN
      BY DEF FiresLast, NextAfterEnd
    <3>2. v \in 0..MaxLives
      BY LivesAssumption DEF Lives
    <3> DEFINE l == FiresLast(clock.cur)
    <3> HIDE DEF l
    <3>3. clock' = [clock EXCEPT !.pc = "queue", !.of = v, !.last = l]
      BY <2>5 DEF l
    <3>4. l \in BOOLEAN
      BY <3>1 DEF l
    <3>5. clock' \in Clocks /\ clock'.pc = "queue"
      BY <3>2, <3>3, <3>4, <1>1 DEF Tallies, Clocks
    <3>6. ~Owing'
      BY <3>5 DEF Owing
    <3> QED BY <2>1, <2>2, <3>5, <3>6, <1>2, ClockGoesOn
  <2> QED BY <2>3, <2>4, <2>5
<1>8. CASE QueuesFiring
  <2>1. clock.pc = "queue" /\ Handing /\ Handed
    BY <1>8 DEF QueuesFiring, ClockAt, Handing
  <2>2. clock' = [clock EXCEPT !.pc = "finish", !.of = 0, !.ran = TRUE]
    BY <1>8 DEF QueuesFiring
  <2>3. 0 \in 0..MaxLives
    BY LivesAssumption
  <2>4. clock' \in Clocks
    BY <2>2, <2>3, <1>1 DEF Tallies, Clocks
  <2>5. clock'.pc = "finish" /\ clock'.ran = TRUE
    BY <2>2, <1>1 DEF Tallies, Clocks
  <2>6. Owing'
    BY <2>5 DEF Owing
  <2> QED BY <2>1, <2>4, <2>6, <1>2, HandsOver
<1>9. CASE Finishes
  BY <1>9, FinishSteps
<1> QED BY <1>3, <1>4, <1>5, <1>6, <1>7, <1>8, <1>9 DEF ClockStep

-----------------------------------------------------------------------------
LEMMA CountStarts == Init => CountInv
<1> SUFFICES ASSUME Init PROVE CountInv
  OBVIOUS
<1> USE DEF Init, RecordInit
<1>1. asked \in Counts /\ asked \in {Unbounded} \cup 0..Times
  BY TimesAssumption DEF Counts
<1>2. job \in JobRecords /\ job.state = "living" /\ job.times = asked
  BY <1>1 DEF JobRecords
<1>3. Tallies
  <2>1. AtLook \in Clocks
    BY LivesAssumption DEF AtLook, NoJob, Clocks, JobRecords
  <2> QED BY <1>1, <1>2, <2>1 DEF Tallies
<1>4. ASSUME asked # Unbounded
      PROVE  RecordTells /\ Account
  <2>1. asked \in Nat /\ asked >= 1 /\ asked \in 0..Times
    BY <1>1, <1>4, TimesAssumption DEF Counts
  <2>2. job.kind = "loop"
    <3>1. job.kind \in {"schedule", "loop"}
      BY <1>2 DEF JobRecords
    <3> QED BY <3>1, <1>4
  <2>3. RecordTells
    BY <2>1, <2>2, <1>2 DEF RecordTells
  <2>4. ~Owing /\ ~Handing
    BY DEF AtLook, Owing, Handing
  <2>5. Account
    BY <2>1, <2>4 DEF Account
  <2> QED BY <2>3, <2>5
<1> QED BY <1>3, <1>4 DEF CountInv

LEMMA CountStays == CountInv /\ [Next]_vars => CountInv'
<1> SUFFICES ASSUME CountInv, [Next]_vars PROVE CountInv'
  OBVIOUS
<1>1. CASE ClockStep
  BY <1>1, ClockSteps
<1>2. ASSUME NEW t \in Tasks, TaskStep(t) PROVE CountInv'
  BY <1>2, TaskSteps
<1>3. ASSUME NEW r \in Runners, RunnerMoves(r) PROVE CountInv'
  BY <1>3, RunnerSteps
<1>4. CASE Others
  BY <1>4, OtherSteps
<1>5. CASE Crash
  BY <1>5, CrashSteps
<1>6. CASE UNCHANGED vars
  <2>1. /\ clock' = clock /\ crashes' = crashes /\ job' = job
        /\ asked' = asked /\ handed' = handed /\ spent' = spent
        /\ faults' = faults
    BY <1>6 DEF vars, recordVars, callVars
  <2>2. RecordOnly
    BY <2>1, RecordStays DEF CountInv
  <2> QED BY <2>1, <2>2, OthersKeep
<1> QED BY <1>1, <1>2, <1>3, <1>4, <1>5, <1>6 DEF Next

(* A loop made to fire so many times is handed over no more often than     *)
(* that and once for each process that ended and each write refused, and   *)
(* is not ended by its count before it was (schedule.rs, `fire`, `finish`):*)
(* whoever cancels, ends, deletes or talks to the job between the handing  *)
(* over and the advance.                                                   *)
THEOREM CountAlwaysKept == Spec => []CountIsKept
<1>1. CountInv => CountIsKept
  BY DEF CountInv, CountIsKept, RecordTells, Account
<1>2. Spec => []CountInv
  BY CountStarts, CountStays, PTL DEF Spec
<1> QED BY <1>1, <1>2, PTL
-----------------------------------------------------------------------------
(* One LiveJob's Life, and what its steps make of it.                      *)
LifeSet ==
  [at : {"turn"}, firing : BOOLEAN, halted : BOOLEAN] \cup
  [at : {"ending"}, firing : {FALSE}, halted : BOOLEAN] \cup
  [at : {"idle", "stopped", "closed"}, firing : {FALSE}, halted : {FALSE}]

RunPcs == {"idle", "door", "build", "set", "driving", "end", "drop", "close",
           "next", "rest", "over", "dead"}
Run == [pc : RunPcs, of : 0..MaxLives, line : Lines, good : BOOLEAN]

Gone == {"ending", "stopped", "closed"}

LEMMA LifeSteps ==
  ASSUME NEW l \in LifeSet
  PROVE  /\ Claimed(l) \in LifeSet
         /\ Claimed(l).firing = TRUE => l.firing = TRUE
         /\ l.at \in Gone => Claimed(l).at = l.at
         /\ Claimed(l).at \in Gone => Claimed(l).at = l.at
         /\ FiringOver(l) \in LifeSet /\ FiringOver(l).at = l.at
         /\ FiringOver(l).firing = FALSE
         /\ Rested(l) \in LifeSet /\ Rested(l).firing = FALSE
         /\ l.at \in Gone => Rested(l).at = l.at
         /\ Rested(l).at \in Gone => Rested(l).at = l.at
         /\ LET e == [FiringOver(l) EXCEPT !.halted = FALSE]
            IN e \in LifeSet /\ e.firing = FALSE /\ e.at = l.at
         /\ Idle \in LifeSet /\ Idle.firing = FALSE /\ Idle.at = "idle"
         /\ LET c == [Idle EXCEPT !.at = "closed"]
            IN c \in LifeSet /\ c.firing = FALSE /\ c.at = "closed"
BY DEF LifeSet, Claimed, FiringOver, Rested, Stopped, Idle, Gone

(* A turn's beginning: only a firing puts one in flight, and a thread that *)
(* is gone stays gone.                                                     *)
LEMMA LifeBegun ==
  ASSUME NEW l \in LifeSet, NEW f \in BOOLEAN
  PROVE  /\ Begun(l, f) \in LifeSet
         /\ Begun(l, f).firing = TRUE => l.firing = TRUE \/ f = TRUE
         /\ l.at \in Gone => Begun(l, f).at = l.at
         /\ Begun(l, f).at \in Gone => Begun(l, f).at = l.at
BY DEF LifeSet, Begun, Claimed, Gone

(* A task with a firing in flight, and a task that drives a queue.         *)
InFlight(r, v) ==
  /\ run[r].of = v /\ run[r].line.firing = TRUE
  /\ run[r].pc \in {"build", "set", "driving", "end", "dead"}
Drives(r, v) == run[r].of = v /\ run[r].pc \notin {"idle", "rest", "over"}

(* A thread that still answers, and one with something to do.              *)
Open(v) == life[v].at \notin Gone /\ enrolled = TRUE /\ job.state # "off"
Busy(v) == running[v] = TRUE \/ waiting[v] # <<>>

ThreadTypes ==
  /\ held \in 0..MaxLives
  /\ life \in [Lives -> LifeSet]
  /\ waiting \in [Lives -> Seq(Lines)]
  /\ running \in [Lives -> BOOLEAN]
  /\ up \in [Lives -> {"none", "good", "stale"}]
  /\ run \in [Runners -> Run]

(* The thread: a firing in flight is some task's, and an open thread with  *)
(* a driver claimed or a line waiting has one.                             *)
ThreadInv ==
  /\ ThreadTypes
  /\ \A r \in Runners : run[r].pc # "idle" => run[r].of \in Lives
  /\ \A v \in Lives : life[v].firing = TRUE => \E r \in Runners : InFlight(r, v)
  /\ \A v \in Lives : Open(v) /\ Busy(v) => \E r \in Runners : Drives(r, v)

(* What ends a job's thread: its end, written first, or its last turn.     *)
EndsInv ==
  /\ held # 0 => life[held].at # "closed"
  /\ Living => \A v \in Lives : life[v].at \notin {"ending", "stopped"}

(* What has to be shown of a step.                                         *)
LEMMA ThreadKeeps ==
  ASSUME ThreadInv, ThreadTypes',
         \A r \in Runners : run'[r].pc # "idle" => run'[r].of \in Lives,
         \A v \in Lives : life'[v].firing = TRUE =>
           \/ \E r \in Runners : InFlight(r, v)'
           \/ /\ life[v].firing = TRUE
              /\ \A r \in Runners : InFlight(r, v) => InFlight(r, v)',
         \A v \in Lives : Open(v)' /\ Busy(v)' =>
           \/ \E r \in Runners : Drives(r, v)'
           \/ /\ Open(v) /\ Busy(v)
              /\ \A r \in Runners : Drives(r, v) => Drives(r, v)'
  PROVE  ThreadInv'
BY DEF ThreadInv

(* A step of one task on its LiveJob.                                      *)
RunnerOnly(r, v) ==
  /\ run[r].pc = "idle" \/ run[r].of = v
  /\ ThreadTypes'
  /\ \A s \in Runners : s # r => run'[s] = run[s]
  /\ run'[r].pc # "idle" => run'[r].of = v
  /\ \A w \in Lives : w # v => /\ life'[w] = life[w]
                              /\ running'[w] = running[w]
                              /\ waiting'[w] = waiting[w]
  /\ life'[v].firing = TRUE =>
       InFlight(r, v)' \/ (life[v].firing = TRUE /\ ~InFlight(r, v))
  /\ Open(v)' /\ Busy(v)' =>
       Drives(r, v)' \/ (Open(v) /\ Busy(v) /\ ~Drives(r, v))
  /\ enrolled' = enrolled
  /\ job.state = "off" => job'.state = "off"
  /\ job'.state = "living" => job.state = "living"
  /\ life'[v].at \in {"ending", "stopped"} =>
       life[v].at \in {"ending", "stopped"}
  /\ \/ held' = 0
     \/ held' = held /\ (life'[v].at = "closed" => life[v].at = "closed")

LEMMA RunnerKeeps ==
  ASSUME ThreadInv, EndsInv, NEW r \in Runners, NEW v \in Lives, RunnerOnly(r, v)
  PROVE  ThreadInv' /\ EndsInv'
<1> USE DEF RunnerOnly
<1>1. \A s \in Runners : run'[s].pc # "idle" => run'[s].of \in Lives
  BY DEF ThreadInv
<1>2. ASSUME NEW w \in Lives, life'[w].firing = TRUE
      PROVE  \/ \E s \in Runners : InFlight(s, w)'
             \/ /\ life[w].firing = TRUE
                /\ \A s \in Runners : InFlight(s, w) => InFlight(s, w)'
  <2>1. CASE w = v
    BY <1>2, <2>1 DEF InFlight
  <2>2. CASE w # v
    BY <1>2, <2>2 DEF InFlight
  <2> QED BY <2>1, <2>2
<1>3. ASSUME NEW w \in Lives, Open(w)' /\ Busy(w)'
      PROVE  \/ \E s \in Runners : Drives(s, w)'
             \/ /\ Open(w) /\ Busy(w)
                /\ \A s \in Runners : Drives(s, w) => Drives(s, w)'
  <2>1. CASE w = v
    BY <1>3, <2>1 DEF Drives
  <2>2. CASE w # v
    <3>1. Open(w) /\ Busy(w)
      BY <1>3, <2>2 DEF Open, Busy
    <3> QED BY <2>2, <3>1 DEF Drives
  <2> QED BY <2>1, <2>2
<1>4. ThreadInv'
  BY <1>1, <1>2, <1>3, ThreadKeeps
<1>5. EndsInv'
  <2>1. held' # 0 => life'[held'].at # "closed"
    <3>1. ASSUME held' # 0 PROVE life'[held'].at # "closed"
      <4>1. held' = held /\ held \in Lives
        BY <3>1, LivesAssumption DEF ThreadInv, ThreadTypes, Lives
      <4>2. CASE held = v
        BY <3>1, <4>1, <4>2 DEF EndsInv
      <4>3. CASE held # v
        BY <3>1, <4>1, <4>3 DEF EndsInv
      <4> QED BY <4>2, <4>3
    <3> QED BY <3>1
  <2>2. Living' => \A w \in Lives : life'[w].at \notin {"ending", "stopped"}
    <3>1. ASSUME Living', NEW w \in Lives
          PROVE  life'[w].at \notin {"ending", "stopped"}
      <4>1. life[w].at \notin {"ending", "stopped"}
        BY <3>1 DEF EndsInv, Living
      <4>2. CASE w = v
        BY <4>1, <4>2
      <4>3. CASE w # v
        BY <4>1, <4>3
      <4> QED BY <4>2, <4>3
    <3> QED BY <3>1
  <2> QED BY <2>1, <2>2 DEF EndsInv
<1> QED BY <1>4, <1>5

(* A task goes on to another place; a function is changed at one argument. *)
LEMMA RunAt ==
  ASSUME ThreadTypes, NEW r \in Runners, NEW pc \in RunPcs, To(r, pc)
  PROVE  /\ run' \in [Runners -> Run]
         /\ \A s \in Runners : s # r => run'[s] = run[s]
         /\ run'[r].pc = pc /\ run'[r].of = run[r].of
         /\ run'[r].line = run[r].line
BY DEF ThreadTypes, To, Run

LEMMA FunctionAt ==
  ASSUME NEW S, NEW T, NEW f \in [S -> T], NEW x \in S, NEW y \in T, NEW g,
         g = [f EXCEPT ![x] = y]
  PROVE  g \in [S -> T] /\ g[x] = y /\ \A z \in S : z # x => g[z] = f[z]
OBVIOUS

-----------------------------------------------------------------------------
(* Each step of a task in the queue.                                       *)
LEMMA RunnerThread ==
  ASSUME ThreadInv, EndsInv, job \in [kind : {"schedule", "loop"}, reminder : BOOLEAN,
              times : {Unbounded} \cup 0..Times,
              state : {"living", "ended", "off"}, final : BOOLEAN],
         granted \in BOOLEAN, enrolled \in BOOLEAN,
         NEW r \in Runners, RunnerStep(r)
  PROVE  ThreadInv' /\ EndsInv'
<1>p. run[r].pc # "idle"
  BY DEF RunnerStep, Begin, AgentStarts, AgentFails, Turn, TurnOver, End, Drops, Closes,
         NextLine, Rests, Over, On
<1>v. PICK v \in Lives : run[r].of = v
  BY <1>p DEF ThreadInv
<1>t. /\ ThreadTypes /\ life[v] \in LifeSet /\ run[r] \in Run
      /\ life \in [Lives -> LifeSet] /\ run \in [Runners -> Run]
      /\ running \in [Lives -> BOOLEAN] /\ waiting \in [Lives -> Seq(Lines)]
      /\ up \in [Lives -> {"none", "good", "stale"}]
      /\ run[r].line \in Lines /\ waiting[v] \in Seq(Lines)
  BY DEF ThreadInv, ThreadTypes, Run
<1>n. run[r].line.firing \in BOOLEAN
  BY <1>t DEF Lines
<1>1. CASE Begin(r)
  <2>0. /\ UNCHANGED <<held, waiting, running, job, enrolled>> /\ run[r].pc = "door"
    BY <1>1 DEF Begin, recordVars, On
  <2>1. CASE To(r, "rest") /\ UNCHANGED <<life, up>>
                           /\ ~(life[v].at \notin {"stopped", "closed"} /\ enrolled
                                  /\ job.state # "off")
    <3>1. /\ run' \in [Runners -> Run] /\ \A s \in Runners : s # r => run'[s] = run[s]
          /\ run'[r].pc = "rest" /\ run'[r].of = v
      BY <1>t, <1>v, <2>1, RunAt DEF RunPcs
    <3>2. ThreadTypes'
      BY <1>t, <2>0, <2>1, <3>1 DEF ThreadTypes
    <3>3. ~Open(v)'
      BY <2>0, <2>1 DEF Open, Gone
    <3>k. RunnerOnly(r, v)
      BY <1>p, <1>v, <2>0, <2>1, <3>1, <3>2, <3>3 DEF InFlight, RunnerOnly
    <3> QED BY <3>k, RunnerKeeps
  <2>2. CASE To(r, "next") /\ UNCHANGED <<life, up>>
    <3>1. /\ run' \in [Runners -> Run] /\ \A s \in Runners : s # r => run'[s] = run[s]
          /\ run'[r].pc = "next" /\ run'[r].of = v
      BY <1>t, <1>v, <2>2, RunAt DEF RunPcs
    <3>2. ThreadTypes'
      BY <1>t, <2>0, <2>2, <3>1 DEF ThreadTypes
    <3>k. RunnerOnly(r, v)
      BY <1>p, <1>v, <2>0, <2>2, <3>1, <3>2 DEF InFlight, Drives, RunnerOnly
    <3> QED BY <3>k, RunnerKeeps
  <2>3. ASSUME NEW pc \in {"build", "set"}, NEW u \in {"none", "good", "stale"},
               life' = [life EXCEPT ![v] = Begun(@, run[r].line.firing)],
               up' = [up EXCEPT ![v] = u], To(r, pc)
        PROVE  ThreadInv' /\ EndsInv'
    <3>1. /\ run' \in [Runners -> Run] /\ \A s \in Runners : s # r => run'[s] = run[s]
          /\ run'[r].pc = pc /\ run'[r].of = v /\ run'[r].line = run[r].line
      BY <1>t, <1>v, <2>3, RunAt DEF RunPcs
    <3>a. PICK k \in LifeSet, f \in BOOLEAN : k = life[v] /\ f = run[r].line.firing
      BY <1>t, <1>n
    <3>b. PICK l : l = Begun(k, f)
      OBVIOUS
    <3>2. l \in LifeSet /\ l = Begun(life[v], run[r].line.firing)
      BY <3>a, <3>b, LifeBegun
    <3>3. /\ l.firing = TRUE => life[v].firing = TRUE \/ run[r].line.firing = TRUE
          /\ l.at \in Gone => l.at = life[v].at
      <4>1. /\ Begun(k, f).firing = TRUE => k.firing = TRUE \/ f = TRUE
            /\ Begun(k, f).at \in Gone => Begun(k, f).at = k.at
        BY LifeBegun
      <4> QED BY <3>a, <3>b, <4>1
    <3>4. life' = [life EXCEPT ![v] = l]
      BY <1>t, <2>3, <3>2
    <3>5. /\ life' \in [Lives -> LifeSet] /\ life'[v] = l
          /\ \A w \in Lives : w # v => life'[w] = life[w]
      BY <1>t, <3>2, <3>4, FunctionAt
    <3>6. ThreadTypes'
      BY <1>t, <2>0, <2>3, <3>1, <3>5 DEF ThreadTypes
    <3>7. Drives(r, v)'
      BY <3>1 DEF Drives
    <3>8. life'[v].firing = TRUE =>
            InFlight(r, v)' \/ (life[v].firing = TRUE /\ ~InFlight(r, v))
      BY <2>0, <3>1, <3>3, <3>5 DEF InFlight
    <3>9. /\ life'[v].at \in {"ending", "stopped"} =>
               life[v].at \in {"ending", "stopped"}
          /\ life'[v].at = "closed" => life[v].at = "closed"
      BY <3>3, <3>5 DEF Gone
    <3>10. \A w \in Lives : w # v => /\ life'[w] = life[w]
                                      /\ running'[w] = running[w]
                                      /\ waiting'[w] = waiting[w]
      BY <2>0, <3>5
    <3>k. RunnerOnly(r, v)
      BY <1>p, <1>v, <2>0, <3>1, <3>6, <3>7, <3>8, <3>9, <3>10 DEF RunnerOnly
    <3> QED BY <3>k, RunnerKeeps
  <2>5. (IF up[v] # "good" THEN "none" ELSE up[v]) \in {"none", "good", "stale"}
    BY <1>t
  <2> QED BY <1>1, <1>v, <2>1, <2>2, <2>3, <2>5, <1>t DEF Begin
<1>2. CASE AgentStarts(r)
  <2>1. /\ To(r, "set") /\ up' = [up EXCEPT ![v] = "good"] /\ run[r].pc = "build"
        /\ UNCHANGED <<held, life, waiting, running, job, enrolled>>
    BY <1>2, <1>v DEF AgentStarts, On, recordVars
  <2>2. /\ run' \in [Runners -> Run] /\ \A s \in Runners : s # r => run'[s] = run[s]
        /\ run'[r].pc = "set" /\ run'[r].of = v /\ run'[r].line = run[r].line
    BY <1>t, <1>v, <2>1, RunAt DEF RunPcs
  <2>3. ThreadTypes'
    BY <1>t, <2>1, <2>2 DEF ThreadTypes
  <2>4. Drives(r, v)' /\ (InFlight(r, v) => InFlight(r, v)')
    BY <2>1, <2>2 DEF Drives, InFlight
  <2>k. RunnerOnly(r, v)
    BY <1>p, <1>v, <2>1, <2>2, <2>3, <2>4 DEF RunnerOnly
  <2> QED BY <2>k, RunnerKeeps
<1>3. CASE AgentFails(r)
  <2>1. /\ run' = [run EXCEPT ![r].pc = "next", ![r].good = TRUE]
        /\ life' = [life EXCEPT ![v] = FiringOver(@)]
        /\ UNCHANGED <<held, waiting, running, up, job, enrolled>>
    BY <1>3, <1>v DEF AgentFails, recordVars
  <2>2. /\ run' \in [Runners -> Run] /\ \A s \in Runners : s # r => run'[s] = run[s]
        /\ run'[r].pc = "next" /\ run'[r].of = v
    BY <1>t, <1>v, <2>1 DEF Run, RunPcs
  <2>3. PICK l \in LifeSet : l = FiringOver(life[v])
    BY <1>t, LifeSteps
  <2>4. l.firing = FALSE /\ l.at = life[v].at
    BY <1>t, <2>3, LifeSteps
  <2>5. /\ life' \in [Lives -> LifeSet] /\ life'[v] = l
        /\ \A w \in Lives : w # v => life'[w] = life[w]
    BY <1>t, <2>1, <2>3, FunctionAt
  <2>6. ThreadTypes'
    BY <1>t, <2>1, <2>2, <2>5 DEF ThreadTypes
  <2>7. Drives(r, v)'
    BY <2>2 DEF Drives
  <2>8. life'[v].firing # TRUE /\ life'[v].at = life[v].at
    BY <2>4, <2>5
  <2>k. RunnerOnly(r, v)
    BY <1>p, <1>p, <1>v, <2>1, <2>2, <2>5, <2>6, <2>7, <2>8 DEF RunnerOnly
  <2> QED BY <2>k, RunnerKeeps
<1>4. CASE Turn(r)
  <2>0. /\ UNCHANGED <<held, life, waiting, running, up, job, enrolled>>
        /\ run[r].pc = "set"
    BY <1>4 DEF Turn, On, recordVars
  <2>1. ASSUME NEW pc \in {"end", "dead", "driving", "next"}, To(r, pc),
               pc # "next" \/ ~InFlight(r, v)
        PROVE  ThreadInv' /\ EndsInv'
    <3>1. /\ run' \in [Runners -> Run] /\ \A s \in Runners : s # r => run'[s] = run[s]
          /\ run'[r].pc = pc /\ run'[r].of = v /\ run'[r].line = run[r].line
      BY <1>t, <1>v, <2>1, RunAt DEF RunPcs
    <3>2. ThreadTypes'
      BY <1>t, <2>0, <3>1 DEF ThreadTypes
    <3>3. Drives(r, v)' /\ (InFlight(r, v) => InFlight(r, v)')
      BY <2>1, <3>1 DEF Drives, InFlight
    <3>k. RunnerOnly(r, v)
      BY <1>p, <1>v, <2>0, <3>1, <3>2, <3>3 DEF RunnerOnly
    <3> QED BY <3>k, RunnerKeeps
  <2>2. CASE ~run[r].line.firing /\ To(r, "next")
    BY <2>1, <2>2 DEF InFlight
  <2>3. CASE To(r, IF life[v].halted THEN "end"
                   ELSE IF up[v] = "none" THEN "dead"
                   ELSE "driving")
    BY <2>1, <2>3
  <2> QED BY <1>4, <1>v, <2>2, <2>3 DEF Turn
<1>5. CASE TurnOver(r)
  <2>1. /\ UNCHANGED <<held, life, waiting, running, up, job, enrolled>>
        /\ run[r].pc = "driving" /\ To(r, "end")
    BY <1>5 DEF TurnOver, On, recordVars
  <2>2. /\ run' \in [Runners -> Run] /\ \A s \in Runners : s # r => run'[s] = run[s]
        /\ run'[r].pc = "end" /\ run'[r].of = v /\ run'[r].line = run[r].line
    BY <1>t, <1>v, <2>1, RunAt DEF RunPcs
  <2>3. ThreadTypes'
    BY <1>t, <2>1, <2>2 DEF ThreadTypes
  <2>4. Drives(r, v)' /\ (InFlight(r, v) => InFlight(r, v)')
    BY <2>1, <2>2 DEF Drives, InFlight
  <2>k. RunnerOnly(r, v)
    BY <1>p, <1>v, <2>1, <2>2, <2>3, <2>4 DEF RunnerOnly
  <2> QED BY <2>k, RunnerKeeps
<1>6. CASE End(r)
  <2>1. /\ life' = [life EXCEPT ![v] = [FiringOver(@) EXCEPT !.halted = FALSE]]
        /\ UNCHANGED <<held, waiting, running, job, enrolled>>
    BY <1>6, <1>v DEF End, recordVars
  <2>2. PICK l \in LifeSet : l = [FiringOver(life[v]) EXCEPT !.halted = FALSE]
    BY <1>t, LifeSteps
  <2>3. l.firing = FALSE /\ l.at = life[v].at
    BY <1>t, <2>2, LifeSteps
  <2>4. /\ life' \in [Lives -> LifeSet] /\ life'[v] = l
        /\ \A w \in Lives : w # v => life'[w] = life[w]
    BY <1>t, <2>1, <2>2, FunctionAt
  <2>5. \E pc \in {"rest", "drop", "next"} :
           To(r, pc) /\ (pc = "rest" => life[v].at = "stopped")
    BY <1>6, <1>v DEF End
  <2>6. PICK pc \in {"rest", "drop", "next"} :
           To(r, pc) /\ (pc = "rest" => life[v].at = "stopped")
    BY <2>5
  <2>7. up' \in [Lives -> {"none", "good", "stale"}]
    <3>1. up' = up \/ up' = [up EXCEPT ![v] = "none"]
      BY <1>6, <1>v DEF End, Release
    <3> QED BY <1>t, <3>1
  <2>8. /\ run' \in [Runners -> Run] /\ \A s \in Runners : s # r => run'[s] = run[s]
        /\ run'[r].pc = pc /\ run'[r].of = v
    BY <1>t, <1>v, <2>6, RunAt DEF RunPcs
  <2>9. ThreadTypes'
    BY <1>t, <2>1, <2>4, <2>7, <2>8 DEF ThreadTypes
  <2>10. Drives(r, v)' \/ ~Open(v)'
    BY <2>3, <2>4, <2>6, <2>8 DEF Drives, Open, Gone
  <2>11. life'[v].firing # TRUE /\ life'[v].at = life[v].at
    BY <2>3, <2>4
  <2>k. RunnerOnly(r, v)
    BY <1>p, <1>p, <1>v, <2>1, <2>4, <2>8, <2>9, <2>10, <2>11 DEF RunnerOnly
  <2> QED BY <2>k, RunnerKeeps
<1>7. CASE Drops(r)
  <2>1. /\ waiting' = [waiting EXCEPT ![v] = <<>>]
        /\ UNCHANGED <<held, life, running, up>> /\ To(r, "close") /\ run[r].pc = "drop"
        /\ EndFinalFiring
    BY <1>7, <1>v DEF Drops, On
  <2>2. /\ run' \in [Runners -> Run] /\ \A s \in Runners : s # r => run'[s] = run[s]
        /\ run'[r].pc = "close" /\ run'[r].of = v
    BY <1>t, <1>v, <2>1, RunAt DEF RunPcs
  <2>3. /\ waiting' \in [Lives -> Seq(Lines)]
        /\ \A w \in Lives : w # v => waiting'[w] = waiting[w]
    BY <1>t, <2>1
  <2>4. ThreadTypes'
    BY <1>t, <2>1, <2>2, <2>3 DEF ThreadTypes
  <2>5. Drives(r, v)' /\ ~InFlight(r, v)
    BY <2>1, <2>2 DEF Drives, InFlight
  <2>6. /\ enrolled' = enrolled /\ (job.state = "off" => job'.state = "off")
        /\ job'.state = "living" => job.state = "living"
    BY <2>1 DEF EndFinalFiring, Write, Living
  <2>k. RunnerOnly(r, v)
    BY <1>p, <1>v, <2>1, <2>2, <2>3, <2>4, <2>5, <2>6 DEF RunnerOnly
  <2> QED BY <2>k, RunnerKeeps
<1>8. CASE Closes(r)
  <2>1. /\ life' = [life EXCEPT ![v] = [Idle EXCEPT !.at = "closed"]]
        /\ UNCHANGED <<waiting, running, job, enrolled>> /\ held' = 0
        /\ To(r, "rest") /\ up' = [up EXCEPT ![v] = "none"] /\ run[r].pc = "close"
    BY <1>8, <1>v DEF Closes, Release, recordVars, On
  <2>2. PICK l \in LifeSet : l = [Idle EXCEPT !.at = "closed"]
    BY <1>t, LifeSteps
  <2>3. l.firing = FALSE /\ l.at = "closed"
    BY <1>t, <2>2, LifeSteps
  <2>4. /\ life' \in [Lives -> LifeSet] /\ life'[v] = l
        /\ \A w \in Lives : w # v => life'[w] = life[w]
    BY <1>t, <2>1, <2>2, FunctionAt
  <2>5. /\ run' \in [Runners -> Run] /\ \A s \in Runners : s # r => run'[s] = run[s]
        /\ run'[r].pc = "rest" /\ run'[r].of = v
    BY <1>t, <1>v, <2>1, RunAt DEF RunPcs
  <2>6. ThreadTypes'
    BY <1>t, <2>1, <2>4, <2>5, LivesAssumption DEF ThreadTypes
  <2>7. ~Open(v)'
    BY <2>3, <2>4 DEF Open, Gone
  <2>k. RunnerOnly(r, v)
    BY <1>p, <1>v, <2>1, <2>3, <2>4, <2>5, <2>6, <2>7 DEF RunnerOnly
  <2> QED BY <2>k, RunnerKeeps
<1>9. CASE NextLine(r)
  <2>0. UNCHANGED <<held, life, up, job, enrolled>> /\ run[r].pc = "next"
    BY <1>9 DEF NextLine, On, recordVars
  <2>1. CASE waiting[v] = <<>>
    <3>1. running' = [running EXCEPT ![v] = FALSE] /\ To(r, "rest") /\ UNCHANGED waiting
      BY <1>9, <1>v, <2>1 DEF NextLine
    <3>2. /\ run' \in [Runners -> Run] /\ \A s \in Runners : s # r => run'[s] = run[s]
          /\ run'[r].pc = "rest" /\ run'[r].of = v
      BY <1>t, <1>v, <3>1, RunAt DEF RunPcs
    <3>3. /\ running' \in [Lives -> BOOLEAN] /\ running'[v] = FALSE
          /\ \A w \in Lives : w # v => running'[w] = running[w]
      BY <1>t, <3>1
    <3>4. ThreadTypes'
      BY <1>t, <2>0, <3>1, <3>2, <3>3 DEF ThreadTypes
    <3>5. ~Busy(v)' /\ ~InFlight(r, v)
      BY <2>0, <2>1, <3>1, <3>3 DEF Busy, InFlight
    <3>k. RunnerOnly(r, v)
      BY <1>p, <1>v, <2>0, <3>1, <3>2, <3>3, <3>4, <3>5 DEF RunnerOnly
    <3> QED BY <3>k, RunnerKeeps
  <2>2. CASE waiting[v] # <<>>
    <3>1. /\ waiting' = [waiting EXCEPT ![v] = Tail(@)] /\ UNCHANGED running
          /\ run' = [run EXCEPT ![r].pc = "door", ![r].line = Head(waiting[v])]
      BY <1>9, <1>v, <2>2 DEF NextLine
    <3>a. \A s \in Seq(Lines) : s # <<>> => Tail(s) \in Seq(Lines) /\ Head(s) \in Lines
      OBVIOUS
    <3>2. PICK q \in Seq(Lines) : q = Tail(waiting[v])
      BY <1>t, <2>2, <3>a
    <3>3. PICK h \in Lines : h = Head(waiting[v])
      BY <1>t, <2>2, <3>a
    <3>4. /\ waiting' \in [Lives -> Seq(Lines)]
          /\ \A w \in Lives : w # v => waiting'[w] = waiting[w]
      BY <1>t, <3>1, <3>2
    <3>5. run' = [run EXCEPT ![r].pc = "door", ![r].line = h]
      BY <3>1, <3>3
    <3>6. /\ run' \in [Runners -> Run] /\ \A s \in Runners : s # r => run'[s] = run[s]
          /\ run'[r].pc = "door" /\ run'[r].of = v
      BY <1>t, <1>v, <3>5 DEF Run, RunPcs
    <3>9. life'[v] = life[v] /\ \A w \in Lives : w # v => life'[w] = life[w]
      BY <2>0
    <3>10. \A w \in Lives : w # v => running'[w] = running[w]
      BY <3>1
    <3>7. ThreadTypes'
      BY <1>t, <2>0, <3>1, <3>4, <3>6 DEF ThreadTypes
    <3>8. Drives(r, v)' /\ ~InFlight(r, v)
      BY <2>0, <3>6 DEF Drives, InFlight
    <3>11. held' = held /\ enrolled' = enrolled /\ job' = job /\ run[r].pc # "idle"
      BY <1>p, <2>0
    <3>12. \A w \in Lives : w # v => /\ life'[w] = life[w]
                                      /\ running'[w] = running[w]
                                      /\ waiting'[w] = waiting[w]
      BY <3>4, <3>9, <3>10
    <3>13. life'[v].firing = TRUE => life[v].firing = TRUE /\ ~InFlight(r, v)
      BY <3>8, <3>9
    <3>k. RunnerOnly(r, v)
      BY <1>p, <1>v, <3>6, <3>7, <3>8, <3>9, <3>11, <3>12, <3>13 DEF RunnerOnly
    <3> QED BY <3>k, RunnerKeeps
  <2> QED BY <2>1, <2>2
<1>10. CASE Rests(r)
  <2>1. /\ running' = [running EXCEPT ![v] = FALSE] /\ To(r, "over")
        /\ UNCHANGED <<held, life, waiting, up, job, enrolled>> /\ run[r].pc = "rest"
    BY <1>10, <1>v DEF Rests, On, recordVars
  <2>2. /\ run' \in [Runners -> Run] /\ \A s \in Runners : s # r => run'[s] = run[s]
        /\ run'[r].pc = "over" /\ run'[r].of = v
    BY <1>t, <1>v, <2>1, RunAt DEF RunPcs
  <2>3. /\ running' \in [Lives -> BOOLEAN] /\ running'[v] = FALSE
        /\ \A w \in Lives : w # v => running'[w] = running[w]
    BY <1>t, <2>1
  <2>4. ThreadTypes'
    BY <1>t, <2>1, <2>2, <2>3 DEF ThreadTypes
  <2>5. ~Drives(r, v) /\ ~InFlight(r, v) /\ (Open(v)' /\ Busy(v)' => Open(v) /\ Busy(v))
    BY <2>1, <2>3 DEF Drives, InFlight, Open, Busy
  <2>k. RunnerOnly(r, v)
    BY <1>p, <1>v, <2>1, <2>2, <2>3, <2>4, <2>5 DEF RunnerOnly
  <2> QED BY <2>k, RunnerKeeps
<1>11. CASE Over(r)
  <2>1. /\ life' = [life EXCEPT ![v] = Rested(@)] /\ run' = [run EXCEPT ![r] = NoRun]
        /\ UNCHANGED <<held, waiting, running, up>> /\ run[r].pc = "over"
        /\ EndFinalFiring
    BY <1>11, <1>v DEF Over, On
  <2>2. PICK l \in LifeSet : l = Rested(life[v])
    BY <1>t, LifeSteps
  <2>3. l.firing = FALSE /\ (l.at \in Gone => l.at = life[v].at)
        /\ (life[v].at \in Gone => l.at = life[v].at)
    BY <1>t, <2>2, LifeSteps
  <2>4. /\ life' \in [Lives -> LifeSet] /\ life'[v] = l
        /\ \A w \in Lives : w # v => life'[w] = life[w]
    BY <1>t, <2>1, <2>2, FunctionAt
  <2>5. NoRun \in Run /\ NoRun.pc = "idle"
    BY LivesAssumption DEF NoRun, Run, RunPcs, Said, Lines
  <2>6. /\ run' \in [Runners -> Run] /\ \A s \in Runners : s # r => run'[s] = run[s]
        /\ run'[r].pc = "idle"
    BY <1>t, <2>1, <2>5
  <2>7. ThreadTypes'
    BY <1>t, <2>1, <2>4, <2>6 DEF ThreadTypes
  <2>8. /\ enrolled' = enrolled /\ (job.state = "off" => job'.state = "off")
        /\ job'.state = "living" => job.state = "living"
    BY <2>1 DEF EndFinalFiring, Write, Living
  <2>9. ~Drives(r, v) /\ ~InFlight(r, v) /\ (Open(v)' /\ Busy(v)' => Open(v) /\ Busy(v))
    BY <2>1, <2>3, <2>4, <2>8 DEF Drives, InFlight, Open, Busy
  <2>10. /\ life'[v].firing # TRUE
         /\ life'[v].at \in {"ending", "stopped"} =>
              life[v].at \in {"ending", "stopped"}
         /\ life'[v].at = "closed" => life[v].at = "closed"
    BY <2>3, <2>4 DEF Gone
  <2>11. \A w \in Lives : w # v => /\ life'[w] = life[w]
                                      /\ running'[w] = running[w]
                                      /\ waiting'[w] = waiting[w]
    BY <2>1, <2>4
  <2>k. RunnerOnly(r, v)
    BY <1>p, <1>v, <2>1, <2>6, <2>7, <2>8, <2>9, <2>10, <2>11 DEF RunnerOnly
  <2> QED BY <2>k, RunnerKeeps
<1> QED BY <1>1, <1>2, <1>3, <1>4, <1>5, <1>6, <1>7, <1>8, <1>9, <1>10, <1>11
    DEF RunnerStep

-----------------------------------------------------------------------------
(* A step of somebody who is no task of the queue.                         *)
ThreadRests ==
  /\ ThreadTypes'
  /\ \A r \in Runners : /\ run'[r].pc = run[r].pc /\ run'[r].of = run[r].of
                        /\ run'[r].line = run[r].line
  /\ \A v \in Lives :
       /\ life'[v].firing = TRUE => life[v].firing = TRUE
       /\ Open(v)' /\ Busy(v)' => Open(v) /\ Busy(v)
       /\ life'[v].at \in {"ending", "stopped"} =>
            life[v].at \in {"ending", "stopped"} \/ ~Living'
  /\ Living' => Living
  /\ held' # 0 => life'[held'].at # "closed"

(* Such a step takes no task from anything.                                *)
LEMMA RestsKeeps ==
  ASSUME ThreadInv, EndsInv, ThreadRests
  PROVE  ThreadInv' /\ EndsInv'
<1>1. /\ \A r \in Runners, v \in Lives : /\ InFlight(r, v) => InFlight(r, v)'
                                         /\ Drives(r, v) => Drives(r, v)'
      /\ \A r \in Runners : run'[r].pc # "idle" => run'[r].of \in Lives
  BY DEF ThreadRests, ThreadInv, InFlight, Drives
<1>2. \A v \in Lives : life'[v].firing = TRUE =>
        life[v].firing = TRUE /\ \A r \in Runners : InFlight(r, v) => InFlight(r, v)'
  BY <1>1 DEF ThreadRests
<1>3. \A v \in Lives : Open(v)' /\ Busy(v)' =>
        Open(v) /\ Busy(v) /\ \A r \in Runners : Drives(r, v) => Drives(r, v)'
  BY <1>1 DEF ThreadRests
<1>4. ThreadInv'
  BY <1>1, <1>2, <1>3, ThreadKeeps DEF ThreadRests
<1>5. EndsInv'
  BY DEF ThreadRests, EndsInv
<1> QED BY <1>4, <1>5

(* A line is queued.                                                       *)
LEMMA QueueThread ==
  ASSUME ThreadInv, EndsInv, NEW v \in Lives, NEW line \in Lines, Queue(v, line),
         UNCHANGED <<held, up, job, enrolled>>
  PROVE  ThreadInv' /\ EndsInv'
<1>t. /\ ThreadTypes /\ life[v] \in LifeSet
      /\ life \in [Lives -> LifeSet] /\ run \in [Runners -> Run]
      /\ running \in [Lives -> BOOLEAN] /\ waiting \in [Lives -> Seq(Lines)]
      /\ up \in [Lives -> {"none", "good", "stale"}] /\ held \in 0..MaxLives
  BY DEF ThreadInv, ThreadTypes
<1>1. CASE running[v] = TRUE
  <2>1. /\ waiting' = [waiting EXCEPT ![v] = Append(@, line)]
        /\ UNCHANGED <<running, life, run, held, up, job, enrolled>>
    BY <1>1 DEF Queue, Wait
  <2>a. \A s \in Seq(Lines) : Append(s, line) \in Seq(Lines)
    OBVIOUS
  <2>2. /\ waiting' \in [Lives -> Seq(Lines)]
        /\ \A w \in Lives : w # v => waiting'[w] = waiting[w]
    BY <1>t, <2>1, <2>a
  <2>3. ThreadTypes'
    BY <1>t, <2>1, <2>2 DEF ThreadTypes
  <2>4. \A w \in Lives : Open(w)' /\ Busy(w)' => Open(w) /\ Busy(w)
    <3>1. ASSUME NEW w \in Lives, Open(w)', Busy(w)'
          PROVE  Open(w) /\ Busy(w)
      <4>1. Open(w)
        BY <2>1, <3>1 DEF Open
      <4>2. CASE w = v
        BY <1>1, <4>1, <4>2 DEF Busy
      <4>3. CASE w # v
        BY <2>1, <2>2, <3>1, <4>1, <4>3 DEF Busy
      <4> QED BY <4>2, <4>3
    <3> QED BY <3>1
  <2>5. ThreadRests
    BY <2>1, <2>3, <2>4 DEF ThreadRests, EndsInv, Living
  <2> QED BY <2>5, RestsKeeps
<1>2. CASE running[v] # TRUE
  <2>1. /\ running' = [running EXCEPT ![v] = TRUE]
        /\ life' = [life EXCEPT ![v] = Claimed(@)]
        /\ UNCHANGED <<waiting, held, up, job, enrolled>>
        /\ \E r \in Runners :
             /\ On(r, "idle")
             /\ run' = [run EXCEPT ![r] =
                          [pc |-> "door", of |-> v, line |-> line, good |-> TRUE]]
    BY <1>t, <1>2 DEF Queue, Claim
  <2>2. PICK r \in Runners :
          /\ On(r, "idle")
          /\ run' = [run EXCEPT ![r] =
                       [pc |-> "door", of |-> v, line |-> line, good |-> TRUE]]
    BY <2>1
  <2>3. PICK l \in LifeSet : l = Claimed(life[v])
    BY <1>t, LifeSteps
  <2>4. /\ l.firing = TRUE => life[v].firing = TRUE
        /\ l.at \in Gone => l.at = life[v].at
    BY <1>t, <2>3, LifeSteps
  <2>5. /\ life' \in [Lives -> LifeSet] /\ life'[v] = l
        /\ \A w \in Lives : w # v => life'[w] = life[w]
    BY <1>t, <2>1, <2>3, FunctionAt
  <2>a. v \in 0..MaxLives
    BY LivesAssumption DEF Lives
  <2>6. [pc |-> "door", of |-> v, line |-> line, good |-> TRUE] \in Run
    BY <2>a DEF Run, RunPcs
  <2>7. /\ run' \in [Runners -> Run] /\ \A s \in Runners : s # r => run'[s] = run[s]
        /\ run'[r].pc = "door" /\ run'[r].of = v
    BY <1>t, <2>2, <2>6
  <2>8. /\ running' \in [Lives -> BOOLEAN]
        /\ \A w \in Lives : w # v => running'[w] = running[w]
    BY <1>t, <2>1
  <2>9. ThreadTypes'
    BY <1>t, <2>1, <2>5, <2>7, <2>8 DEF ThreadTypes
  <2>10. Drives(r, v)' /\ ~InFlight(r, v)
    BY <2>2, <2>7 DEF Drives, InFlight, On
  <2>11. RunnerOnly(r, v)
    BY <2>1, <2>2, <2>4, <2>5, <2>7, <2>8, <2>9, <2>10 DEF RunnerOnly, On, Gone
  <2> QED BY <2>11, RunnerKeeps
<1> QED BY <1>1, <1>2

(* A LiveJob is found, or one nobody has hold of is made anew.             *)
LEMMA FindThread ==
  ASSUME ThreadInv, EndsInv, NEW v \in Lives, NEW kept, Find(v, kept),
         UNCHANGED <<run, job, enrolled>>
  PROVE  ThreadInv' /\ EndsInv'
<1>t. /\ ThreadTypes /\ life[v] \in LifeSet
      /\ life \in [Lives -> LifeSet] /\ run \in [Runners -> Run]
      /\ running \in [Lives -> BOOLEAN] /\ waiting \in [Lives -> Seq(Lines)]
      /\ up \in [Lives -> {"none", "good", "stale"}] /\ held \in 0..MaxLives
  BY DEF ThreadInv, ThreadTypes
<1>1. CASE UNCHANGED <<held, life, waiting, running, up>>
  <2>1. ThreadTypes'
    BY <1>1, <1>t DEF ThreadTypes
  <2>2. ThreadRests
    BY <1>1, <2>1 DEF ThreadRests, Open, Busy, Living, EndsInv
  <2> QED BY <2>2, RestsKeeps
<1>2. CASE /\ held' = v
           /\ life' = [life EXCEPT ![v] = Idle]
           /\ waiting' = [waiting EXCEPT ![v] = <<>>]
           /\ running' = [running EXCEPT ![v] = FALSE]
           /\ up' = [up EXCEPT ![v] = "none"]
  <2>1. PICK i \in LifeSet : i = Idle /\ i.firing = FALSE /\ i.at = "idle"
    BY <1>t, LifeSteps
  <2>2. /\ life' \in [Lives -> LifeSet] /\ life'[v] = i
        /\ \A w \in Lives : w # v => life'[w] = life[w]
    BY <1>t, <1>2, <2>1, FunctionAt
  <2>3. /\ waiting' \in [Lives -> Seq(Lines)] /\ waiting'[v] = <<>>
        /\ \A w \in Lives : w # v => waiting'[w] = waiting[w]
    BY <1>t, <1>2
  <2>4. /\ running' \in [Lives -> BOOLEAN] /\ running'[v] = FALSE
        /\ \A w \in Lives : w # v => running'[w] = running[w]
    BY <1>t, <1>2
  <2>5. ThreadTypes'
    <3>1. v \in 0..MaxLives
      BY LivesAssumption DEF Lives
    <3> QED BY <1>t, <1>2, <2>2, <2>3, <2>4, <3>1 DEF ThreadTypes
  <2>6. ASSUME NEW w \in Lives
        PROVE  /\ life'[w].firing = TRUE => life[w].firing = TRUE
               /\ Open(w)' /\ Busy(w)' => Open(w) /\ Busy(w)
               /\ life'[w].at \in {"ending", "stopped"} =>
                    life[w].at \in {"ending", "stopped"} \/ ~Living'
    <3>1. CASE w = v
      BY <2>1, <2>2, <2>3, <2>4, <3>1 DEF Busy
    <3>2. CASE w # v
      BY <2>2, <2>3, <2>4, <3>2 DEF Busy, Open
    <3> QED BY <3>1, <3>2
  <2>7. life'[held'].at # "closed"
    BY <1>2, <2>1, <2>2
  <2>8. ThreadRests
    BY <2>5, <2>6, <2>7 DEF ThreadRests, Living
  <2> QED BY <2>8, RestsKeeps
<1> QED BY <1>1, <1>2 DEF Find

TaskPcs == {"idle", "asked", "said", "halt", "ended", "done", "shut", "stop", "away"}

(* The calls and the clock: whom they took hold of, and what was ended     *)
(* before they stop anything.                                              *)
CallsInv ==
  /\ task \in [Tasks -> [pc : TaskPcs, of : 0..MaxLives]]
  /\ \A t \in Tasks : task[t].pc \in {"said", "halt", "shut", "stop", "away"} =>
       task[t].of \in Lives
  /\ clock.pc = "queue" => clock.of \in Lives
  /\ \A t \in Tasks : task[t].pc \in {"ended", "done", "shut", "stop", "away"} =>
       ~Living

(* What the world and the bounds are.                                      *)
WorldTypes ==
  /\ due \in BOOLEAN /\ slots \in 0..MaxFirings /\ late \in BOOLEAN
  /\ granted \in BOOLEAN /\ enrolled \in BOOLEAN
  /\ acts \in 0..MaxActs /\ crashes \in 0..MaxCrashes

(* A task past its queue, and one of the queue in the room's map, which    *)
(* may have panicked there.                                                *)
Past == {"rest", "over"}
Stands(r) == \/ held # 0 /\ run[r].of = held /\ run[r].pc # "idle"
             \/ run[r].pc \in Past

(* A job in its last firing has a task in its queue to end it.             *)
FinalInv ==
  Living /\ enrolled = TRUE /\ job.final = TRUE /\ faults = 0 =>
    \E r \in Runners : Stands(r)

(* The record only ever ends.                                              *)
Wanes == /\ job.state = "off" => job'.state = "off"
         /\ job'.state = "living" => job.state = "living"

(* The writes that advance nothing, and those that write nothing.          *)
LEMMA RecordWanes ==
  ASSUME Tallies,
         \/ UNCHANGED job
         \/ Retry \/ Tombstone \/ EndFinalFiring \/ EndRecord \/ TakeOff
  PROVE  Wanes
BY WritesOnlyEnd DEF Wanes, RecordOnly, RecordOnlyEnds

-----------------------------------------------------------------------------
(* ThreadInv and EndsInv, everyone but the tasks of the queue.             *)
LEMMA QuietThread ==
  ASSUME ThreadInv, EndsInv, UNCHANGED threadVars, Wanes,
         enrolled' = TRUE => enrolled = TRUE
  PROVE  ThreadInv' /\ EndsInv'
<1>1. ThreadTypes'
  BY DEF threadVars, ThreadInv, ThreadTypes
<1>2. ThreadRests
  BY <1>1 DEF ThreadRests, threadVars, Open, Busy, Living, EndsInv, Wanes
<1> QED BY <1>2, RestsKeeps

(* The clock's steps; what a call makes of a life; and each call's steps.  *)
LEMMA ClockThread ==
  ASSUME ThreadInv, EndsInv, CallsInv, CountInv, ClockStep
  PROVE  ThreadInv' /\ EndsInv'
<1>1. Tallies
  BY DEF CountInv
<1>2. CASE Looks \/ Fires \/ Clears \/ Reminds \/ Finishes \/ Retries
  <2>1. UNCHANGED threadVars
    BY <1>2 DEF Looks, Fires, Clears, Reminds, Finishes, Retries
  <2>2. enrolled' = enrolled
    BY <1>2 DEF Looks, Fires, Clears, Reminds, Finishes, Retries, recordVars, Tombstone,
                Handed, Finish, Retry
  <2>3. Wanes
    <3>1. CASE Looks \/ Fires \/ Clears \/ Reminds \/ Retries
      <4>1. UNCHANGED job \/ Tombstone \/ Retry
        BY <3>1 DEF Looks, Fires, Clears, Reminds, Retries, recordVars, Handed
      <4> QED BY <1>1, <4>1, RecordWanes
    <3>2. CASE Finishes
      <4>1. \/ job' = job
            \/ job' = Advanced(clock.ran, AtRest) /\ Living
        BY <3>2 DEF Finishes, Finish, Write
      <4>2. CASE job' = Advanced(clock.ran, AtRest) /\ Living
        BY <4>2 DEF Living, Wanes
      <4> QED BY <4>1, <4>2 DEF Wanes
    <3> QED BY <1>2, <3>1, <3>2
  <2> QED BY <2>1, <2>2, <2>3, QuietThread
<1>3. CASE FindsThread
  <2>1. UNCHANGED <<run, job, enrolled>>
        /\ \E v \in Lives : Find(v, {task[t].of : t \in Tasks})
    BY <1>3 DEF FindsThread, recordVars
  <2> QED BY <2>1, FindThread
<1>4. CASE QueuesFiring
  <2>1. /\ clock.of \in Lives /\ UNCHANGED <<held, up, job, enrolled>>
        /\ Queue(clock.of, [firing |-> TRUE, last |-> clock.last])
    BY <1>4 DEF QueuesFiring, CallsInv, ClockAt, Handed
  <2>2. [firing |-> TRUE, last |-> clock.last] \in Lines
    BY <1>1 DEF Lines, Tallies, Clocks
  <2> QED BY <2>1, <2>2, QueueThread
<1> QED BY <1>2, <1>3, <1>4 DEF ClockStep

LEMMA LifeHalted ==
  ASSUME NEW l \in LifeSet, l.at \in {"turn", "ending"}
  PROVE  \E k \in LifeSet : /\ k = [l EXCEPT !.halted = TRUE]
                            /\ k.firing = l.firing /\ k.at = l.at
<1>1. /\ [l EXCEPT !.halted = TRUE] \in LifeSet
      /\ [l EXCEPT !.halted = TRUE].firing = l.firing
      /\ [l EXCEPT !.halted = TRUE].at = l.at
  BY DEF LifeSet
<1> QED BY <1>1

LEMMA LifeEnding ==
  ASSUME NEW l \in LifeSet, l.at = "turn"
  PROVE  \E k \in LifeSet : /\ k = [l EXCEPT !.at = "ending", !.firing = FALSE]
                            /\ k.firing = FALSE /\ k.at = "ending"
<1>1. /\ [l EXCEPT !.at = "ending", !.firing = FALSE] \in LifeSet
      /\ [l EXCEPT !.at = "ending", !.firing = FALSE].firing = FALSE
      /\ [l EXCEPT !.at = "ending", !.firing = FALSE].at = "ending"
  BY DEF LifeSet
<1> QED BY <1>1

LEMMA LifeStopped ==
  ASSUME NEW l \in LifeSet
  PROVE  \E k \in LifeSet : /\ k = Stopped(l)
                            /\ k.firing = FALSE /\ k.at \in {"stopped", "closed"}
                            /\ l.at # "closed" => k.at = "stopped"
<1>1. /\ Stopped(l) \in LifeSet
      /\ Stopped(l).firing = FALSE /\ Stopped(l).at \in {"stopped", "closed"}
      /\ l.at # "closed" => Stopped(l).at = "stopped"
  BY DEF LifeSet, Stopped, Idle
<1> QED BY <1>1

LEMMA TaskThread ==
  ASSUME ThreadInv, EndsInv, CallsInv, CountInv, NEW t \in Tasks, TaskStep(t)
  PROVE  ThreadInv' /\ EndsInv'
<1>1. /\ Tallies /\ held \in 0..MaxLives /\ (held # 0 => held \in Lives)
  BY LivesAssumption DEF CountInv, ThreadInv, ThreadTypes, Lives
<1>t. /\ ThreadTypes
      /\ life \in [Lives -> LifeSet] /\ run \in [Runners -> Run]
      /\ running \in [Lives -> BOOLEAN] /\ waiting \in [Lives -> Seq(Lines)]
      /\ up \in [Lives -> {"none", "good", "stale"}]
  BY DEF ThreadInv, ThreadTypes
<1>2. CASE SayLooks(t) \/ Cancels(t) \/ CancelsEnded(t) \/ Dones(t)
  <2>1. UNCHANGED threadVars
    BY <1>2 DEF SayLooks, Cancels, CancelsEnded, Dones
  <2>2. enrolled' = enrolled /\ (UNCHANGED job \/ EndRecord \/ TakeOff)
    BY <1>2 DEF SayLooks, Cancels, CancelsEnded, Dones, EndRecord, TakeOff, recordVars
  <2>3. Wanes
    BY <1>1, <2>2, RecordWanes
  <2> QED BY <2>1, <2>2, <2>3, QuietThread
<1>3. CASE SayFinds(t)
  <2>1. UNCHANGED <<run, job, enrolled>>
        /\ \E v \in Lives : Find(v, {clock.of} \cup {task[u].of : u \in Tasks})
    BY <1>3 DEF SayFinds, recordVars
  <2> QED BY <2>1, FindThread
<1>4. CASE SayQueues(t)
  <2>1. /\ task[t].of \in Lives /\ UNCHANGED <<held, up, job, enrolled>>
        /\ Queue(task[t].of, Said)
    BY <1>4 DEF SayQueues, CallsInv, TaskAt, recordVars
  <2>2. Said \in Lines
    BY DEF Said, Lines
  <2> QED BY <2>1, <2>2, QueueThread
<1>5. CASE Halts(t)
  <2>1. /\ held \in Lives /\ life[held].at \in {"turn", "ending"}
        /\ life' = [life EXCEPT ![held].halted = TRUE]
        /\ UNCHANGED <<held, waiting, running, up, run, job, enrolled>>
    BY <1>1, <1>5 DEF Halts, recordVars
  <2>a. PICK o \in LifeSet : o = life[held] /\ o.at \in {"turn", "ending"}
    BY <1>t, <2>1
  <2>2. PICK l \in LifeSet : /\ l = [o EXCEPT !.halted = TRUE]
                            /\ l.firing = o.firing /\ l.at = o.at
    BY <2>a, LifeHalted
  <2>3. l.firing = life[held].firing /\ l.at = life[held].at
    BY <2>a, <2>2
  <2>4. life' = [life EXCEPT ![held] = l]
    BY <1>t, <2>1, <2>2, <2>a
  <2>5. /\ life' \in [Lives -> LifeSet] /\ life'[held] = l
        /\ \A w \in Lives : w # held => life'[w] = life[w]
    <3>1. PICK v \in Lives : v = held
      BY <2>1
    <3>2. life' = [life EXCEPT ![v] = l]
      BY <2>4, <3>1
    <3>3. /\ life' \in [Lives -> LifeSet] /\ life'[v] = l
          /\ \A w \in Lives : w # v => life'[w] = life[w]
      BY <1>t, <3>2, FunctionAt
    <3> QED BY <3>1, <3>3
  <2>6. \A w \in Lives : life'[w].firing = life[w].firing /\ life'[w].at = life[w].at
    BY <2>3, <2>5
  <2>7. ThreadTypes'
    BY <1>t, <2>1, <2>5 DEF ThreadTypes
  <2>8. ThreadRests
    BY <2>1, <2>6, <2>7 DEF ThreadRests, Open, Busy, Living, EndsInv
  <2> QED BY <2>8, RestsKeeps
<1>6. CASE HaltDrops(t) \/ EndShuts(t)
  <2>1. /\ task[t].of \in Lives /\ waiting' = [waiting EXCEPT ![task[t].of] = <<>>]
        /\ UNCHANGED <<held, life, running, up, run, job, enrolled>>
    BY <1>6 DEF HaltDrops, EndShuts, CallsInv, TaskAt, recordVars
  <2>2. /\ waiting' \in [Lives -> Seq(Lines)]
        /\ \A w \in Lives : waiting'[w] = waiting[w] \/ waiting'[w] = <<>>
    BY <1>t, <2>1
  <2>3. ThreadTypes'
    BY <1>t, <2>1, <2>2 DEF ThreadTypes
  <2>4. ThreadRests
    BY <2>1, <2>2, <2>3 DEF ThreadRests, Open, Busy, Living, EndsInv
  <2> QED BY <2>4, RestsKeeps
<1>7. CASE EndFinds(t)
  <2>0. /\ UNCHANGED <<held, waiting, running, up, run, job, enrolled>> /\ ~Living
    BY <1>7 DEF EndFinds, recordVars, TaskAt, CallsInv
  <2>1. CASE life' = life
    <3>1. ThreadTypes'
      BY <1>t, <2>0, <2>1 DEF ThreadTypes
    <3> QED BY <2>0, <2>1, <3>1, RestsKeeps
        DEF ThreadRests, Open, Busy, Living, EndsInv
  <2>2. CASE /\ held \in Lives /\ life[held].at = "turn"
             /\ life' = [life EXCEPT ![held].at = "ending", ![held].firing = FALSE]
    <3>a. PICK o \in LifeSet : o = life[held] /\ o.at = "turn"
      BY <1>t, <2>2
    <3>1. PICK l \in LifeSet :
            /\ l = [o EXCEPT !.at = "ending", !.firing = FALSE]
            /\ l.firing = FALSE /\ l.at = "ending"
      BY <3>a, LifeEnding
    <3>2. l.firing = FALSE /\ l.at = "ending"
      BY <3>1
    <3>3. life' = [life EXCEPT ![held] = l]
      BY <1>t, <2>2, <3>1, <3>a
    <3>4. /\ life' \in [Lives -> LifeSet] /\ life'[held] = l
          /\ \A w \in Lives : w # held => life'[w] = life[w]
      <4>1. PICK v \in Lives : v = held
        BY <2>2
      <4>2. life' = [life EXCEPT ![v] = l]
        BY <3>3, <4>1
      <4>3. /\ life' \in [Lives -> LifeSet] /\ life'[v] = l
            /\ \A w \in Lives : w # v => life'[w] = life[w]
        BY <1>t, <4>2, FunctionAt
      <4> QED BY <4>1, <4>3
    <3>5. ThreadTypes'
      BY <1>t, <2>0, <3>4 DEF ThreadTypes
    <3>6. ASSUME NEW w \in Lives
          PROVE  /\ life'[w].firing = TRUE => life[w].firing = TRUE
                 /\ Open(w)' /\ Busy(w)' => Open(w) /\ Busy(w)
      <4>1. CASE w = held
        BY <3>2, <3>4, <4>1 DEF Open, Gone
      <4>2. CASE w # held
        BY <2>0, <3>4, <4>2 DEF Open, Busy
      <4> QED BY <4>1, <4>2
    <3>7. ~Living' /\ life'[held'].at # "closed"
      BY <2>0, <3>2, <3>4 DEF Living
    <3>8. ThreadRests
      BY <2>0, <3>5, <3>6, <3>7 DEF ThreadRests
    <3> QED BY <3>8, RestsKeeps
  <2> QED BY <1>1, <1>7, <2>1, <2>2 DEF EndFinds
<1>8. CASE EndStops(t)
  <2>0. /\ UNCHANGED <<held, waiting, running, up, run, job, enrolled>> /\ ~Living
        /\ task[t].of \in Lives
        /\ life' = [life EXCEPT ![task[t].of] = Stopped(@)]
    BY <1>8 DEF EndStops, recordVars, TaskAt, CallsInv
  <2>v. PICK v \in Lives : task[t].of = v
    BY <2>0
  <2>a. PICK o \in LifeSet : o = life[v]
    BY <1>t
  <2>b. PICK l \in LifeSet :
          /\ l = Stopped(o)
          /\ l.firing = FALSE /\ l.at \in {"stopped", "closed"}
          /\ o.at # "closed" => l.at = "stopped"
    BY LifeStopped
  <2>1. l = Stopped(life[v])
    BY <2>a, <2>b
  <2>2. /\ l.firing = FALSE /\ l.at \in {"stopped", "closed"}
        /\ life[v].at # "closed" => l.at = "stopped"
    BY <2>a, <2>b
  <2>3. /\ life' \in [Lives -> LifeSet] /\ life'[v] = l
        /\ \A w \in Lives : w # v => life'[w] = life[w]
    BY <1>t, <2>0, <2>v, <2>1, FunctionAt
  <2>4. ThreadTypes'
    BY <1>t, <2>0, <2>3 DEF ThreadTypes
  <2>5. ASSUME NEW w \in Lives
        PROVE  /\ life'[w].firing = TRUE => life[w].firing = TRUE
               /\ Open(w)' /\ Busy(w)' => Open(w) /\ Busy(w)
               /\ life[w].at # "closed" => life'[w].at # "closed"
    <3>1. CASE w = v
      BY <2>2, <2>3, <3>1 DEF Open, Gone
    <3>2. CASE w # v
      BY <2>0, <2>3, <3>2 DEF Open, Busy
    <3> QED BY <3>1, <3>2
  <2>6. ~Living' /\ (held' # 0 => life'[held'].at # "closed")
    BY <1>1, <2>0, <2>5 DEF Living, EndsInv
  <2>7. ThreadRests
    BY <2>0, <2>4, <2>5, <2>6 DEF ThreadRests
  <2> QED BY <2>7, RestsKeeps
<1>9. CASE EndLetsGo(t)
  <2>1. /\ task[t].of \in Lives /\ waiting' = [waiting EXCEPT ![task[t].of] = <<>>]
        /\ up' = [up EXCEPT ![task[t].of] = "none"] /\ held' = 0
        /\ UNCHANGED <<life, running, run, job, enrolled>>
    BY <1>9 DEF EndLetsGo, CallsInv, TaskAt, recordVars, Release
  <2>2. /\ waiting' \in [Lives -> Seq(Lines)]
        /\ \A w \in Lives : waiting'[w] = waiting[w] \/ waiting'[w] = <<>>
    BY <1>t, <2>1
  <2>3. ThreadTypes'
    BY <1>t, <2>1, <2>2, LivesAssumption DEF ThreadTypes
  <2>4. ThreadRests
    BY <2>1, <2>2, <2>3 DEF ThreadRests, Open, Busy, Living
  <2> QED BY <2>4, RestsKeeps
<1> QED BY <1>2, <1>3, <1>4, <1>5, <1>6, <1>7, <1>8, <1>9 DEF TaskStep

-----------------------------------------------------------------------------
(* The sweep, the person and the world.                                    *)
LEMMA OtherThread ==
  ASSUME ThreadInv, EndsInv, CountInv, Others
  PROVE  ThreadInv' /\ EndsInv'
<1>1. /\ Tallies /\ held \in 0..MaxLives /\ (held # 0 => held \in Lives)
  BY LivesAssumption DEF CountInv, ThreadInv, ThreadTypes, Lives
<1>t. /\ ThreadTypes
      /\ life \in [Lives -> LifeSet] /\ run \in [Runners -> Run]
      /\ running \in [Lives -> BOOLEAN] /\ waiting \in [Lives -> Seq(Lines)]
      /\ up \in [Lives -> {"none", "good", "stale"}]
  BY DEF ThreadInv, ThreadTypes
<1>2. CASE UNCHANGED threadVars
  <2>1. UNCHANGED job
    BY DEF Others, Park, SlotComes, LetGo, Revoked, DateNears, GrantTaken, Deleted,
           recordVars
  <2>2. enrolled' = TRUE => enrolled = TRUE
    BY DEF Others, Park, SlotComes, LetGo, Revoked, DateNears, GrantTaken, Deleted,
           recordVars
  <2>3. Wanes
    BY <1>1, <2>1, RecordWanes
  <2> QED BY <1>2, <2>2, <2>3, QuietThread
<1>3. CASE Park \/ LetGo
  <2>1. /\ held \in Lives /\ UNCHANGED <<held, life, running, run, job, enrolled>>
        /\ waiting' = waiting \/ waiting' = [waiting EXCEPT ![held] = <<>>]
        /\ up' = [up EXCEPT ![held] = "none"]
    BY <1>1, <1>3 DEF Park, LetGo, recordVars, Release
  <2>2. /\ waiting' \in [Lives -> Seq(Lines)]
        /\ \A w \in Lives : waiting'[w] = waiting[w] \/ waiting'[w] = <<>>
    <3>1. CASE waiting' = waiting
      BY <1>t, <3>1
    <3>2. CASE waiting' = [waiting EXCEPT ![held] = <<>>]
      <4>1. <<>> \in Seq(Lines)
        OBVIOUS
      <4> QED BY <1>t, <2>1, <3>2, <4>1
    <3> QED BY <2>1, <3>1, <3>2
  <2>3. ThreadTypes'
    BY <1>t, <2>1, <2>2 DEF ThreadTypes
  <2>4. ThreadRests
    BY <2>1, <2>2, <2>3 DEF ThreadRests, Open, Busy, Living, EndsInv
  <2> QED BY <2>4, RestsKeeps
<1>4. CASE Revoked
  <2>1. /\ UNCHANGED <<held, life, waiting, running, job, enrolled>>
        /\ up' \in [Lives -> {"none", "good", "stale"}]
    BY <1>t, <1>4 DEF Revoked, recordVars
  <2>2. \A r \in Runners : [run[r] EXCEPT !.good = FALSE] \in Run
    BY <1>t DEF Run
  <2>3. /\ run' \in [Runners -> Run]
        /\ \A r \in Runners : /\ run'[r].pc = run[r].pc /\ run'[r].of = run[r].of
                              /\ run'[r].line = run[r].line
    BY <1>t, <1>4, <2>2 DEF Revoked, Run
  <2>4. ThreadTypes'
    BY <1>t, <2>1, <2>3 DEF ThreadTypes
  <2>5. ThreadRests
    BY <2>1, <2>3, <2>4 DEF ThreadRests, Open, Busy, Living, EndsInv
  <2> QED BY <2>5, RestsKeeps
<1> QED BY <1>2, <1>3, <1>4 DEF Others, threadVars

(* The states a process starts in.                                         *)
LEMMA FreshThread ==
  /\ Idle \in LifeSet /\ Idle.firing = FALSE /\ Idle.at = "idle"
  /\ NoRun \in Run /\ NoRun.pc = "idle"
BY LivesAssumption DEF Idle, LifeSet, NoRun, Run, RunPcs, Said, Lines

(* A room with no thread in it.                                            *)
Bare == /\ held = 0
        /\ life = [v \in Lives |-> Idle]
        /\ waiting = [v \in Lives |-> <<>>]
        /\ running = [v \in Lives |-> FALSE]
        /\ up = [v \in Lives |-> "none"]
        /\ run = [r \in Runners |-> NoRun]

LEMMA BareThread ==
  ASSUME Bare PROVE ThreadInv /\ EndsInv
<1>1. life \in [Lives -> LifeSet] /\ run \in [Runners -> Run]
  BY FreshThread DEF Bare
<1>2. waiting \in [Lives -> Seq(Lines)]
  <2>1. <<>> \in Seq(Lines)
    OBVIOUS
  <2> QED BY <2>1 DEF Bare
<1>3. ThreadTypes
  BY <1>1, <1>2, LivesAssumption DEF Bare, ThreadTypes
<1>4. \A r \in Runners : run[r].pc = "idle"
  BY FreshThread DEF Bare
<1>5. \A v \in Lives : life[v].firing = FALSE /\ life[v].at = "idle" /\ ~Busy(v)
  BY FreshThread DEF Bare, Busy
<1>6. ThreadInv
  BY <1>3, <1>4, <1>5 DEF ThreadInv
<1> QED BY <1>5, <1>6 DEF EndsInv, Bare

LEMMA CrashThread ==
  ASSUME Crash PROVE ThreadInv' /\ EndsInv'
<1>1. Bare'
  BY DEF Crash, Bare
<1> QED BY <1>1, BareThread, PTL

(* Every step.                                                             *)
LEMMA ThreadStays ==
  ASSUME ThreadInv, EndsInv, CallsInv, CountInv, WorldTypes, [Next]_vars
  PROVE  ThreadInv' /\ EndsInv'
<1>1. Tallies
  BY DEF CountInv
<1>2. CASE ClockStep
  BY <1>2, ClockThread
<1>3. ASSUME NEW t \in Tasks, TaskStep(t) PROVE ThreadInv' /\ EndsInv'
  BY <1>3, TaskThread
<1>4. ASSUME NEW r \in Runners, RunnerMoves(r) PROVE ThreadInv' /\ EndsInv'
  <2>1. RunnerStep(r) /\ job \in JobRecords
    BY <1>1, <1>4 DEF RunnerMoves, Tallies
  <2> QED BY <2>1, RunnerThread DEF JobRecords, WorldTypes
<1>5. CASE Others
  BY <1>5, OtherThread
<1>6. CASE Crash
  BY <1>6, CrashThread
<1>7. CASE UNCHANGED vars
  <2>1. UNCHANGED threadVars /\ UNCHANGED job /\ enrolled' = enrolled
    BY <1>7 DEF vars, recordVars
  <2>2. Wanes
    BY <1>1, <2>1, RecordWanes
  <2> QED BY <2>1, <2>2, QuietThread
<1> QED BY <1>2, <1>3, <1>4, <1>5, <1>6, <1>7 DEF Next

-----------------------------------------------------------------------------
(* Nobody but the clock's `finish` puts a job in its last firing, and no   *)
(* step makes a job live that is not.                                      *)
LEMMA OnlyClockAdvances ==
  ASSUME CountInv, [Next]_vars, ~Finishes
  PROVE  RecordOnlyEnds
<1>1. Tallies
  BY DEF CountInv
<1>2. ASSUME UNCHANGED job PROVE RecordOnlyEnds
  BY <1>1, <1>2 DEF RecordOnlyEnds, Tallies
<1>3. ASSUME Retry \/ Tombstone \/ EndFinalFiring \/ EndRecord \/ TakeOff
      PROVE  RecordOnlyEnds
  BY <1>1, <1>3, WritesOnlyEnd DEF RecordOnly
<1>4. CASE ClockStep
  <2>1. UNCHANGED job \/ Tombstone \/ Retry
    BY <1>4 DEF ClockStep, Looks, Fires, Clears, Reminds, FindsThread, QueuesFiring,
                Retries, recordVars, Handed
  <2> QED BY <1>2, <1>3, <2>1
<1>5. ASSUME NEW t \in Tasks, TaskStep(t) PROVE RecordOnlyEnds
  <2>1. UNCHANGED job \/ EndRecord \/ TakeOff
    BY <1>5 DEF TaskStep, SayLooks, SayFinds, SayQueues, Halts, HaltDrops, Cancels,
                CancelsEnded, Dones, EndFinds, EndShuts, EndStops, EndLetsGo,
                recordVars
  <2> QED BY <1>2, <1>3, <2>1
<1>6. ASSUME NEW r \in Runners, RunnerMoves(r) PROVE RecordOnlyEnds
  <2>1. UNCHANGED job \/ EndFinalFiring
    BY <1>6 DEF RunnerMoves, RunnerStep, Begin, AgentStarts, AgentFails, Turn,
                TurnOver, End, Drops, Closes, NextLine, Rests, Over, recordVars
  <2> QED BY <1>2, <1>3, <2>1
<1>7. CASE Others
  <2>1. UNCHANGED job
    BY <1>7 DEF Others, Park, SlotComes, LetGo, Revoked, DateNears, GrantTaken,
                Deleted, recordVars
  <2> QED BY <1>2, <2>1
<1>8. CASE Crash
  BY <1>3, <1>8 DEF Crash
<1>9. CASE UNCHANGED vars
  BY <1>2, <1>9 DEF vars, recordVars
<1> QED BY <1>4, <1>5, <1>6, <1>7, <1>8, <1>9 DEF Next

LEMMA NeverAgainLiving ==
  ASSUME CountInv, [Next]_vars
  PROVE  Living' => Living
<1>1. CASE Finishes
  BY <1>1 DEF Finishes, Finish, Living
<1>2. CASE ~Finishes
  BY <1>2, OnlyClockAdvances DEF RecordOnlyEnds, Living
<1> QED BY <1>1, <1>2

(* A call stops a thread only after its job's record has ended.            *)
LEMMA CallsStay ==
  ASSUME CallsInv, ThreadInv, CountInv, CountInv', [Next]_vars
  PROVE  CallsInv'
<1>1. /\ Tallies /\ held \in 0..MaxLives /\ (held # 0 => held \in Lives)
      /\ \A v \in Lives : v \in 0..MaxLives
      /\ 0 \in 0..MaxLives
  BY LivesAssumption DEF CountInv, ThreadInv, ThreadTypes, Lives
<1>2. Living' => Living
  BY NeverAgainLiving
<1>3. task \in [Tasks -> [pc : TaskPcs, of : 0..MaxLives]]
  BY DEF CallsInv
<1>4. CASE ClockStep \/ Others \/ (\E r \in Runners : RunnerMoves(r))
             \/ UNCHANGED vars
  <2>1. task' = task
    BY <1>4 DEF ClockStep, Others, RunnerMoves, vars, callVars, Looks, Fires, Clears,
         Reminds, FindsThread, QueuesFiring, Finishes, Retries, UNCHANGEDcalls
  <2>2. clock'.pc = "queue" => clock'.of \in Lives
    <3>1. CASE FindsThread
      <4>1. PICK v \in Lives :
              clock' = IF life[v].firing \/ FiringWaits(v)
                         THEN [clock EXCEPT !.pc = "finish", !.ran = FALSE]
                         ELSE [clock EXCEPT !.pc = "queue", !.of = v,
                                            !.last = FiresLast(clock.cur)]
        BY <3>1 DEF FindsThread
      <4>2. clock \in Clocks
        BY <1>1 DEF Tallies
      <4>3. CASE clock' = [clock EXCEPT !.pc = "finish", !.ran = FALSE]
        BY <4>2, <4>3 DEF Clocks
      <4>4. CASE clock' = [clock EXCEPT !.pc = "queue", !.of = v,
                                        !.last = FiresLast(clock.cur)]
        BY <4>2, <4>4 DEF Clocks
      <4> QED BY <4>1, <4>3, <4>4
    <3>2. CASE ClockStep /\ ~FindsThread
      <4>1. clock \in Clocks
        BY <1>1 DEF Tallies
      <4>2. \/ ClockLooks \/ ClockTo("fire") \/ ClockTo("clear") \/ ClockTo("retry")
            \/ clock' = [clock EXCEPT !.cur = job, !.pc = IF job.reminder THEN "post"
                                                                         ELSE "find"]
            \/ clock' = [clock EXCEPT !.pc = "finish", !.ran = TRUE]
            \/ clock' = [clock EXCEPT !.pc = "finish", !.of = 0, !.ran = TRUE]
        BY <3>2 DEF ClockStep, Looks, Fires, Clears, Reminds, QueuesFiring, Finishes,
                    Retries
      <4>3. clock'.pc # "queue"
        <5>1. CASE ClockLooks
          BY <5>1 DEF ClockLooks, AtLook
        <5>2. CASE ClockTo("fire") \/ ClockTo("clear") \/ ClockTo("retry")
          BY <4>1, <5>2 DEF ClockTo, Clocks
        <5>3. ASSUME NEW pc \in {"post", "find"},
                     clock' = [clock EXCEPT !.cur = job, !.pc = pc]
              PROVE  clock'.pc # "queue"
          BY <4>1, <5>3 DEF Clocks
        <5>4. CASE \/ clock' = [clock EXCEPT !.pc = "finish", !.ran = TRUE]
                   \/ clock' = [clock EXCEPT !.pc = "finish", !.of = 0, !.ran = TRUE]
          BY <4>1, <5>4 DEF Clocks
        <5>5. (IF job.reminder THEN "post" ELSE "find") \in {"post", "find"}
          OBVIOUS
        <5> QED BY <4>2, <5>1, <5>2, <5>3, <5>4, <5>5
      <4> QED BY <4>3
    <3>3. CASE clock' = clock
      BY <3>3 DEF CallsInv
    <3> QED BY <1>4, <3>1, <3>2, <3>3 DEF Others, RunnerMoves, vars, callVars
  <2> QED BY <1>2, <2>1, <2>2 DEF CallsInv
<1>5. ASSUME NEW t \in Tasks, TaskStep(t) PROVE CallsInv'
  <2>0. clock' = clock
    BY <1>5 DEF TaskStep, SayLooks, SayFinds, SayQueues, Halts, HaltDrops, Cancels,
                CancelsEnded, Dones, EndFinds, EndShuts, EndStops, EndLetsGo
  <2>1. ASSUME NEW k \in [pc : TaskPcs, of : 0..MaxLives],
               task' = [task EXCEPT ![t] = k],
               k.pc \in {"said", "halt", "shut", "stop", "away"} => k.of \in Lives,
               k.pc \in {"ended", "done", "shut", "stop", "away"} => ~Living'
        PROVE  CallsInv'
    <3>1. /\ task' \in [Tasks -> [pc : TaskPcs, of : 0..MaxLives]] /\ task'[t] = k
          /\ \A u \in Tasks : u # t => task'[u] = task[u]
      BY <1>3, <2>1
    <3>2. \A u \in Tasks : task'[u].pc \in {"said", "halt", "shut", "stop", "away"} =>
                             task'[u].of \in Lives
      BY <2>1, <3>1 DEF CallsInv
    <3>3. \A u \in Tasks :
            task'[u].pc \in {"ended", "done", "shut", "stop", "away"} => ~Living'
      BY <1>2, <2>1, <3>1 DEF CallsInv
    <3> QED BY <2>0, <3>1, <3>2, <3>3 DEF CallsInv
  <2>2. ASSUME NEW pc \in TaskPcs, NEW v \in 0..MaxLives, TaskTo(t, pc, v),
               pc \in {"said", "halt", "shut", "stop", "away"} => v \in Lives,
               pc \in {"ended", "done", "shut", "stop", "away"} => ~Living'
        PROVE  CallsInv'
    <3>1. PICK k \in [pc : TaskPcs, of : 0..MaxLives] : k = [pc |-> pc, of |-> v]
      OBVIOUS
    <3>2. task' = [task EXCEPT ![t] = k] /\ k.pc = pc /\ k.of = v
      BY <2>2, <3>1 DEF TaskTo
    <3> QED BY <2>1, <2>2, <3>2
  <2>3. ASSUME TaskEnds(t) PROVE CallsInv'
    <3>1. TaskTo(t, "idle", 0)
      BY <2>3 DEF TaskEnds, TaskTo, NoTask
    <3>2. "idle" \in TaskPcs
      BY DEF TaskPcs
    <3> QED BY <1>1, <2>2, <3>1, <3>2
  <2>4. CASE SayLooks(t)
    <3>1. TaskTo(t, "asked", 0) /\ "asked" \in TaskPcs
      BY <2>4 DEF SayLooks, TaskPcs
    <3> QED BY <1>1, <2>2, <3>1
  <2>5. CASE SayFinds(t)
    <3>1. PICK v \in Lives : TaskTo(t, "said", v)
      BY <2>5 DEF SayFinds
    <3>2. "said" \in TaskPcs /\ v \in 0..MaxLives
      BY <1>1 DEF TaskPcs
    <3> QED BY <2>2, <3>1, <3>2
  <2>6. CASE Halts(t)
    <3>1. TaskTo(t, "halt", held) /\ "halt" \in TaskPcs /\ held \in Lives
      BY <1>1, <2>6 DEF Halts, TaskPcs
    <3> QED BY <1>1, <2>2, <3>1
  <2>7. CASE Cancels(t) \/ Dones(t)
    <3>1. ~Living' /\ "ended" \in TaskPcs /\ "done" \in TaskPcs
          /\ (TaskTo(t, "ended", 0) \/ TaskTo(t, "done", 0))
      BY <1>1, <2>7 DEF Cancels, Dones, EndRecord, Living, TaskPcs, Tallies, JobRecords
    <3> QED BY <1>1, <2>2, <3>1
  <2>8. CASE CancelsEnded(t)
    <3>1. task' = task
      BY <2>8 DEF CancelsEnded
    <3> QED BY <1>2, <2>0, <3>1 DEF CallsInv
  <2>9. CASE EndFinds(t)
    <3>1. ~Living'
      BY <1>2, <2>9 DEF EndFinds, TaskAt, CallsInv
    <3>2. \/ TaskEnds(t)
          \/ held \in Lives /\ (TaskTo(t, "shut", held) \/ TaskTo(t, "stop", held))
      BY <1>1, <2>9 DEF EndFinds
    <3>3. "shut" \in TaskPcs /\ "stop" \in TaskPcs
      BY DEF TaskPcs
    <3> QED BY <1>1, <2>2, <2>3, <3>1, <3>2, <3>3
  <2>10. CASE EndStops(t)
    <3>1. task[t].pc = "stop" /\ TaskTo(t, "away", task[t].of)
      BY <2>10 DEF EndStops, TaskAt
    <3>2. ~Living' /\ "away" \in TaskPcs
      BY <1>2, <3>1 DEF CallsInv, TaskPcs
    <3>3. PICK v \in Lives : v = task[t].of
      BY <3>1 DEF CallsInv
    <3> QED BY <1>1, <2>2, <3>1, <3>2, <3>3
  <2> QED BY <1>5, <2>3, <2>4, <2>5, <2>6, <2>7, <2>8, <2>9, <2>10
      DEF TaskStep, SayQueues, HaltDrops, EndShuts, EndLetsGo
<1>6. CASE Crash
  <2>1. /\ \A t \in Tasks : task'[t].pc = "idle" /\ clock'.pc = "look"
        /\ task' \in [Tasks -> [pc : TaskPcs, of : 0..MaxLives]] /\ clock'.pc = "look"
    <3>1. NoTask \in [pc : TaskPcs, of : 0..MaxLives] /\ NoTask.pc = "idle"
      BY <1>1 DEF NoTask, TaskPcs
    <3> QED BY <1>6, <3>1 DEF Crash, ClockLooks, AtLook
  <2> QED BY <2>1 DEF CallsInv
<1> QED BY <1>4, <1>5, <1>6 DEF Next

LEMMA WorldStays ==
  ASSUME WorldTypes, CountInv, CountInv', [Next]_vars
  PROVE  WorldTypes'
<1>1. /\ MaxActs \in Nat /\ MaxCrashes \in Nat /\ MaxFirings \in Nat
      /\ faults' \in Nat
  BY TasksAssumption, BoundsAssumption DEF CountInv, Tallies
<1>2. CASE UNCHANGED vars
  BY <1>2 DEF vars, recordVars, callVars, WorldTypes
<1>3. CASE Next
  <2>1. acts' \in Nat
    <3>1. acts' = acts \/ acts' = acts + 1
      BY <1>3 DEF Next, ClockStep, Looks, Fires, Clears, Reminds, FindsThread,
           QueuesFiring, Finishes, Retries, UNCHANGEDcalls, TaskStep, SayLooks,
           SayFinds, SayQueues, Halts, HaltDrops, Cancels, CancelsEnded, Dones,
           EndFinds, EndShuts, EndStops, EndLetsGo, RunnerMoves, callVars, Others,
           Crash, Acts
    <3> QED BY <3>1 DEF WorldTypes
  <2>2. acts' \in 0..MaxActs
    <3>1. acts' + faults' <= MaxActs
      BY <1>3 DEF Next
    <3>2. \A a, f, m \in Nat : a + f <= m => a \in 0..m
      OBVIOUS
    <3> QED BY <1>1, <2>1, <3>1, <3>2
  <2>3. crashes' \in 0..MaxCrashes
    <3>1. crashes' = crashes \/ (crashes < MaxCrashes /\ crashes' = crashes + 1)
      BY <1>3 DEF Next, ClockStep, Looks, Fires, Clears, Reminds, FindsThread,
           QueuesFiring, Finishes, Retries, UNCHANGEDcalls, TaskStep, SayLooks,
           SayFinds, SayQueues, Halts, HaltDrops, Cancels, CancelsEnded, Dones,
           EndFinds, EndShuts, EndStops, EndLetsGo, RunnerMoves, callVars, Others,
           Crash
    <3> QED BY <1>1, <3>1 DEF WorldTypes
  <2>4. CASE Others
    <3>1. /\ due' \in BOOLEAN /\ late' \in BOOLEAN /\ granted' \in BOOLEAN
          /\ enrolled' \in BOOLEAN
      BY <2>4 DEF Others, WorldTypes, Park, LetGo, Revoked, SlotComes, DateNears,
           GrantTaken, Deleted, recordVars
    <3>2. slots' \in 0..MaxFirings
      <4>1. slots' = slots \/ (slots < MaxFirings /\ slots' = slots + 1)
        BY <2>4 DEF Others, Park, LetGo, Revoked, SlotComes, DateNears,
             GrantTaken, Deleted, recordVars
      <4> QED BY <1>1, <4>1 DEF WorldTypes
    <3> QED BY <2>2, <2>3, <3>1, <3>2 DEF WorldTypes
  <2>5. ASSUME UNCHANGED <<slots, late, granted, enrolled>>,
               due' = due \/ due' = FALSE
        PROVE  WorldTypes'
    BY <2>2, <2>3, <2>5 DEF WorldTypes
  <2>6. CASE ClockStep
    <3>1. UNCHANGED <<slots, late, granted, enrolled>> /\ (due' = due \/ due' = FALSE)
      BY <2>6 DEF ClockStep, Looks, Fires, Clears, Reminds, FindsThread,
           QueuesFiring, Finishes, Retries, recordVars, Tombstone, Write, Handed,
           Finish, Retry
    <3> QED BY <2>5, <3>1
  <2>7. ASSUME NEW t \in Tasks, TaskStep(t) PROVE WorldTypes'
    <3>1. UNCHANGED <<due, slots, late, granted, enrolled>>
      BY <2>7 DEF TaskStep, SayLooks,
           SayFinds, SayQueues, Halts, HaltDrops, Cancels, CancelsEnded, Dones,
           EndFinds, EndShuts, EndStops, EndLetsGo, recordVars, EndRecord, TakeOff
    <3> QED BY <2>5, <3>1
  <2>8. ASSUME NEW r \in Runners, RunnerMoves(r) PROVE WorldTypes'
    <3>1. UNCHANGED <<due, slots, late, granted, enrolled>>
      BY <2>8 DEF RunnerMoves, RunnerStep, Begin, AgentStarts, AgentFails, Turn,
           TurnOver, End, Drops, Closes, NextLine, Rests, Over, recordVars,
           EndFinalFiring, Write
    <3> QED BY <2>5, <3>1
  <2>9. CASE Crash
    <3>1. UNCHANGED <<due, slots, late, granted, enrolled>>
      BY <2>9 DEF Crash, EndFinalFiring, Write
    <3> QED BY <2>5, <3>1
  <2> QED BY <1>3, <2>4, <2>6, <2>7, <2>8, <2>9 DEF Next
<1> QED BY <1>2, <1>3

(* Who finds a last firing over ends the job, or its write was refused.    *)
LEMMA FirstEnds ==
  ASSUME Tallies, EndFinalFiring, Living', job'.final = TRUE, faults' = 0
  PROVE  FALSE
BY DEF EndFinalFiring, Write, Living, Tallies, JobRecords

(* What a step may do to a task in a queue, but for the one that ends the  *)
(* last firing with the queue.                                             *)
Goes(r) == /\ run'[r].pc # "idle" /\ run'[r].of = run[r].of
           /\ run[r].pc \in Past => run'[r].pc \in Past

LEMMA RunnerGoes ==
  ASSUME Tallies, ThreadInv, CallsInv, Next \/ UNCHANGED vars, ~Crash,
         Living', job'.final = TRUE, faults' = 0,
         NEW r \in Runners, run[r].pc # "idle"
  PROVE  Goes(r)
<1> USE DEF Goes, Past
<1>1. run \in [Runners -> Run]
  BY DEF ThreadInv, ThreadTypes
<1>2. CASE UNCHANGED run
  BY <1>2
<1>3. ASSUME NEW s \in Runners, RunnerMoves(s) PROVE Goes(r)
  <2>1. RunnerStep(s)
    BY <1>3 DEF RunnerMoves
  <2>2. CASE Over(s)
    BY <2>2, FirstEnds DEF Over
  <2>3. ASSUME NEW pc \in RunPcs, To(s, pc), pc # "idle",
               run[s].pc \in Past => pc \in Past
        PROVE  Goes(r)
    BY <1>1, <2>3 DEF To, Run
  <2>4. CASE Begin(s) \/ AgentStarts(s) \/ Turn(s) \/ TurnOver(s) \/ End(s)
             \/ Drops(s) \/ Closes(s) \/ Rests(s)
    <3>1. \E pc \in RunPcs : /\ To(s, pc) /\ pc # "idle"
                             /\ run[s].pc \in Past => pc \in Past
      BY <2>4 DEF Begin, AgentStarts, Turn, TurnOver, End, Drops, Closes, Rests,
                  RunPcs, On
    <3> QED BY <2>3, <3>1
  <2>5. CASE AgentFails(s) \/ NextLine(s)
    <3>1. run[s].pc \notin Past
      BY <2>5 DEF AgentFails, NextLine, On
    <3>2. \/ To(s, "rest")
          \/ run' = [run EXCEPT ![s].pc = "next", ![s].good = TRUE]
          \/ run' = [run EXCEPT ![s].pc = "door",
                                ![s].line = Head(waiting[run[s].of])]
      BY <2>5 DEF AgentFails, NextLine
    <3>3. "rest" \in RunPcs
      BY DEF RunPcs
    <3> QED BY <1>1, <2>3, <3>1, <3>2, <3>3 DEF Run
  <2> QED BY <2>1, <2>2, <2>4, <2>5 DEF RunnerStep
<1>4. ASSUME NEW v \in Lives, NEW line, Claim(v, line) PROVE Goes(r)
  <2>1. PICK s \in Runners :
          /\ run[s].pc = "idle"
          /\ run' = [run EXCEPT ![s] =
                       [pc |-> "door", of |-> v, line |-> line, good |-> TRUE]]
    BY <1>4 DEF Claim, On
  <2> QED BY <1>1, <2>1 DEF Run
<1>5. ASSUME NEW v, NEW line, Queue(v, line), v \in Lives PROVE Goes(r)
  <2>1. Wait(v, line) \/ Claim(v, line)
    BY <1>5 DEF Queue
  <2> QED BY <1>2, <1>4, <1>5, <2>1 DEF Wait
<1>6. CASE ClockStep
  <2>1. QueuesFiring \/ UNCHANGED run
    BY <1>6 DEF ClockStep, Looks, Fires, Clears, Reminds, FindsThread, Finishes,
                Retries, threadVars
  <2>2. QueuesFiring =>
          /\ clock.of \in Lives
          /\ Queue(clock.of, [firing |-> TRUE, last |-> clock.last])
    BY DEF QueuesFiring, CallsInv, ClockAt
  <2> QED BY <1>2, <1>5, <2>1, <2>2
<1>7. ASSUME NEW t \in Tasks, TaskStep(t) PROVE Goes(r)
  <2>1. SayQueues(t) \/ UNCHANGED run
    BY <1>7 DEF TaskStep, SayLooks, SayFinds, Halts, HaltDrops, Cancels,
         CancelsEnded, Dones, EndFinds, EndShuts, EndStops, EndLetsGo, threadVars
  <2>2. SayQueues(t) => task[t].of \in Lives /\ Queue(task[t].of, Said)
    BY DEF SayQueues, CallsInv, TaskAt
  <2> QED BY <1>2, <1>5, <2>1, <2>2
<1>8. CASE Others
  <2>1. CASE Revoked
    <3>1. run' = [s \in Runners |->
                    IF On(s, "build") THEN [run[s] EXCEPT !.good = FALSE]
                                      ELSE run[s]]
      BY <2>1 DEF Revoked
    <3> QED BY <1>1, <3>1 DEF Run
  <2>2. Others => Revoked \/ UNCHANGED run
    BY DEF Others, Park, LetGo, threadVars
  <2> QED BY <1>2, <1>8, <2>1, <2>2
<1>9. CASE UNCHANGED vars
  BY <1>2, <1>9 DEF vars, threadVars
<1> QED BY <1>3, <1>6, <1>7, <1>8, <1>9 DEF Next

(* The LiveJob in the room's map goes only with a close: a stop of an ended*)
(* job's is out of the question while the job lives.                       *)
LEMMA HeldGoes ==
  ASSUME CallsInv, Living, Next \/ UNCHANGED vars, ~Crash
  PROVE  held' = held \/ held = 0 \/ \E s \in Runners : Closes(s)
<1>1. ASSUME NEW t \in Tasks, TaskStep(t) PROVE held' = held \/ held = 0
  <2>1. ~EndLetsGo(t)
    BY DEF EndLetsGo, CallsInv, TaskAt
  <2> QED BY <1>1, <2>1 DEF TaskStep, SayLooks, SayFinds, SayQueues, Find, Halts,
       HaltDrops, Cancels, CancelsEnded, Dones, EndFinds, EndShuts, EndStops,
       threadVars
<1>2. ASSUME NEW s \in Runners, RunnerMoves(s) PROVE held' = held \/ Closes(s)
  BY <1>2 DEF RunnerMoves, RunnerStep, Begin, AgentStarts, AgentFails, Turn,
              TurnOver, End, Drops, NextLine, Rests, Over
<1>3. ClockStep => held' = held \/ held = 0
  BY DEF ClockStep, Looks, Fires, Clears, Reminds, FindsThread, Find,
         QueuesFiring, Finishes, Retries, threadVars
<1>4. Others \/ UNCHANGED vars => held' = held
  BY DEF Others, Park, LetGo, Revoked, vars, threadVars
<1> QED BY <1>1, <1>2, <1>3, <1>4 DEF Next

(* A task goes from the queue only by ending a last firing, or by a write  *)
(* that was refused; the clock puts a job in its last firing only while    *)
(* one is there.                                                           *)
LEMMA FinalStays ==
  ASSUME FinalInv, ThreadInv, EndsInv, CallsInv, CountInv, WorldTypes, [Next]_vars
  PROVE  FinalInv'
<1> SUFFICES ASSUME Living', enrolled' = TRUE, job'.final = TRUE, faults' = 0
             PROVE  \E r \in Runners : Stands(r)'
  BY DEF FinalInv
<1>1. /\ Tallies /\ faults \in Nat /\ job \in JobRecords
      /\ held \in 0..MaxLives /\ (held # 0 => held \in Lives)
      /\ running \in [Lives -> BOOLEAN]
      /\ run \in [Runners -> Run]
  BY LivesAssumption DEF CountInv, Tallies, ThreadInv, ThreadTypes, Lives
<1>2. Living
  BY NeverAgainLiving
<1>3. faults = 0
  <2>1. faults' = faults \/ faults' = faults + 1
    BY ZenonT(60) DEF Next, ClockStep, Looks, Fires, Clears, Reminds, FindsThread,
         QueuesFiring, Finishes, Retries, TaskStep, SayLooks,
         SayFinds, SayQueues, Halts, HaltDrops, Cancels, CancelsEnded, Dones,
         EndFinds, EndShuts, EndStops, EndLetsGo, RunnerMoves, RunnerStep, Begin,
         AgentStarts, AgentFails, Turn, TurnOver, End, Drops, Closes, NextLine,
         Rests, Over, Others, Park, LetGo, Revoked, SlotComes, DateNears,
         GrantTaken, Deleted, Crash, vars, recordVars, EndFinalFiring, EndRecord,
         TakeOff, Tombstone, Retry, Finish, Handed, Write
  <2> QED BY <1>1, <2>1
<1>4. enrolled = TRUE
  BY ZenonT(60) DEF Next, ClockStep, Looks, Fires, Clears, Reminds, FindsThread,
       QueuesFiring, Finishes, Retries, TaskStep, SayLooks,
       SayFinds, SayQueues, Halts, HaltDrops, Cancels, CancelsEnded, Dones,
       EndFinds, EndShuts, EndStops, EndLetsGo, RunnerMoves, RunnerStep, Begin,
       AgentStarts, AgentFails, Turn, TurnOver, End, Drops, Closes, NextLine,
       Rests, Over, Others, Park, LetGo, Revoked, SlotComes, DateNears,
       GrantTaken, Deleted, Crash, vars, recordVars, EndFinalFiring, EndRecord,
       TakeOff, Tombstone, Retry, Finish, Handed
<1>5. CASE job.final # TRUE
  <2>1. Finishes
    BY <1>5, OnlyClockAdvances DEF RecordOnlyEnds
  <2>2. clock.ran \in BOOLEAN /\ AtRest \in BOOLEAN
    BY <1>1 DEF Tallies, Clocks, AtRest
  <2>3. job' = Advanced(clock.ran, AtRest)
    BY <1>5, <2>1 DEF Finishes, Finish, Write
  <2>4. /\ job'.final = (job.final \/ FinalNow(clock.ran))
        /\ job'.state = IF EndsNow(clock.ran, AtRest) THEN "ended" ELSE job.state
    BY <1>1, <2>2, <2>3, AdvancedType
  <2>5. FinalNow(clock.ran)
    BY <1>1, <1>5, <2>4 DEF JobRecords
  <2>6. ~AtRest
    BY <2>4, <2>5 DEF EndsNow, FinalNow, Living
  <2>7. held \in Lives /\ Busy(held)
    BY <1>1, <2>6 DEF AtRest, Busy
  <2>8. Open(held)
    BY <1>2, <1>4, <2>7, LivesAssumption DEF Open, Gone, EndsInv, Living, Lives
  <2>9. PICK r \in Runners : Drives(r, held)
    BY <2>7, <2>8 DEF ThreadInv
  <2>10. run' = run /\ held' = held
    BY <2>1 DEF Finishes, threadVars
  <2>11. held # 0
    BY <2>7 DEF Lives
  <2> QED BY <2>9, <2>10, <2>11 DEF Drives, Stands
<1>6. CASE job.final = TRUE
  <2>1. PICK r \in Runners : Stands(r)
    BY <1>2, <1>3, <1>4, <1>6 DEF FinalInv
  <2>a. run[r].pc # "idle"
    BY <2>1 DEF Stands, Past
  <2>b. ~Crash
    BY <1>1, FirstEnds DEF Crash
  <2>2. Goes(r)
    BY <1>1, <2>a, <2>b, RunnerGoes
  <2>3. held' = held \/ held = 0 \/ \E s \in Runners : Closes(s)
    BY <1>2, <2>b, HeldGoes
  <2>4. CASE \E s \in Runners : Closes(s)
    <3>1. PICK s \in Runners : Closes(s)
      BY <2>4
    <3>2. run'[s].pc = "rest"
      BY <1>1, <3>1 DEF Closes, To, Run
    <3> QED BY <3>2 DEF Stands, Past
  <2>5. CASE held' = held \/ held = 0
    BY <2>1, <2>2, <2>5 DEF Stands, Goes, Past
  <2> QED BY <2>3, <2>4, <2>5
<1> QED BY <1>5, <1>6

-----------------------------------------------------------------------------
(* The inductive invariant, whole.                                         *)
JobsInv == CountInv /\ ThreadInv /\ EndsInv /\ CallsInv /\ WorldTypes /\ FinalInv

LEMMA JobsStarts == Init => JobsInv
<1> SUFFICES ASSUME Init PROVE JobsInv
  OBVIOUS
<1>1. CountInv
  BY CountStarts
<1>2. ThreadInv /\ EndsInv
  <2>1. Bare
    BY DEF Init, ThreadInit, Bare
  <2> QED BY <2>1, BareThread
<1>3. CallsInv
  <2>1. NoTask \in [pc : TaskPcs, of : 0..MaxLives] /\ NoTask.pc = "idle"
    BY LivesAssumption DEF NoTask, TaskPcs
  <2> QED BY <2>1 DEF Init, CallsInv, AtLook
<1>4. WorldTypes
  <2>1. /\ acts = 0 /\ crashes = 0 /\ slots = 0 /\ due = FALSE /\ late = FALSE
        /\ granted = TRUE /\ enrolled = TRUE
    BY DEF Init, RecordInit
  <2>2. 0 \in 0..MaxActs /\ 0 \in 0..MaxCrashes /\ 0 \in 0..MaxFirings
    BY TasksAssumption, BoundsAssumption
  <2> QED BY <2>1, <2>2 DEF WorldTypes
<1>5. FinalInv
  BY DEF Init, RecordInit, FinalInv
<1> QED BY <1>1, <1>2, <1>3, <1>4, <1>5 DEF JobsInv

LEMMA JobsStays == JobsInv /\ [Next]_vars => JobsInv'
<1> SUFFICES ASSUME JobsInv, [Next]_vars PROVE JobsInv'
  OBVIOUS
<1> USE DEF JobsInv
<1>1. CountInv'
  BY CountStays
<1>2. ThreadInv' /\ EndsInv'
  BY ThreadStays
<1>3. CallsInv'
  BY <1>1, CallsStay
<1>4. WorldTypes'
  BY <1>1, WorldStays
<1>5. FinalInv'
  BY FinalStays
<1> QED BY <1>1, <1>2, <1>3, <1>4, <1>5

LEMMA JobsAlways == Spec => []JobsInv
BY JobsStarts, JobsStays, PTL DEF Spec

(* A job in its last firing has a task in its queue to end it, unless a    *)
(* write was refused, its teammate deleted, or the task of its thread      *)
(* panicked: the clock and the queue never both leave the end to the other *)
(* (schedule.rs, `finish`; job_thread.rs, `rest`).                         *)
THEOREM LastFiringAlwaysEnds == Spec => []LastFiringEnds
<1>1. JobsInv => LastFiringEnds
  <2> SUFFICES ASSUME JobsInv, Living, enrolled, job.final, faults = 0
               PROVE  \/ \E r \in Runners : run[r].pc \notin {"idle", "dead"}
                      \/ held # 0 /\ Panicked(held)
    BY DEF LastFiringEnds
  <2>1. PICK r \in Runners : Stands(r)
    BY DEF JobsInv, FinalInv, WorldTypes, CountInv, Tallies, JobRecords
  <2> QED BY <2>1 DEF Stands, Past, Panicked, On
<1> QED BY <1>1, JobsAlways, PTL

(* Every state is of its type; a firing the thread believes in flight is a *)
(* task's that runs it, so no later slot is skipped for a firing nobody    *)
(* runs, and a line that waits in an open thread has a driver, whatever was*)
(* cancelled, stopped, parked, revoked or restarted meanwhile              *)
(* (job_thread.rs, `Life::firing_since`; turns.rs, `claim` and             *)
(* `next_line`). A task that panicked, its agent taken from under its turn *)
(* (`let_go_of_jobs`), is the exception: its firing and its queue stay     *)
(* claimed by nobody.                                                      *)
THEOREM ThreadAlwaysTrue == Spec => []ThreadIsTrue
<1>1. JobsInv => ThreadIsTrue
  <2> SUFFICES ASSUME JobsInv PROVE ThreadIsTrue
    OBVIOUS
  <2>1. TypeOK
    BY DEF JobsInv, CountInv, Tallies, JobRecords, Clocks, ThreadInv, ThreadTypes,
           LifeSet, Run, RunPcs, CallsInv, TaskPcs, WorldTypes, TypeOK, RecordTypeOK,
           ThreadTypeOK
  <2>2. FiringIsInFlight
    BY DEF JobsInv, ThreadInv, ThreadTypes, LifeSet, InFlight, FiringIsInFlight, On
  <2>3. NoLineStranded
    BY DEF JobsInv, ThreadInv, WorldTypes, Drives, Open, Busy, Gone, Shut,
           NoLineStranded, Panicked, On
  <2> QED BY <2>1, <2>2, <2>3 DEF ThreadIsTrue
<1> QED BY <1>1, JobsAlways, PTL
=============================================================================
