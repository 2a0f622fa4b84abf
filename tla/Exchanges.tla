----------------------------- MODULE Exchanges -----------------------------
(***************************************************************************)
(* The requests one teammate sends another, from acceptance to the sender  *)
(* having heard the result (session/exchanges.rs and its submodules): the  *)
(* pair's durable record, the one worker that moves it, the tasks that     *)
(* admit a request, the turn that works it, the person's Stop, Interrupt,  *)
(* Resume and answers, revocation, the sender's turn that hears the        *)
(* result, and the end of the process at any point.                        *)
(*                                                                         *)
(* One pair, all requests from one teammate (the asker) to the other (the  *)
(* target), both on this desk.  A handoff works in a thread of its own, an *)
(* ask in the target's main conversation; an ask sent from a work thread   *)
(* (replyThread) owes that thread what comes of it.  Saves of the pair are *)
(* single appends that succeed.                                            *)
(***************************************************************************)
EXTENDS Integers, FiniteSets

CONSTANTS Requests,  \* what the asker may send
          Cap,       \* EXCHANGE_CAP: messages before the pair pauses
          MaxEvents, \* bound: failures, the person's interventions, stops of
                     \* a teammate and ends of the process
          Kinds,     \* kinds of request sent: an intent and whether from a thread
          None       \* no request

ASSUME RequestsAssumption == /\ None \notin Requests
                             /\ Kinds \subseteq {"ask", "handoff"} \X BOOLEAN
ASSUME BoundsAssumption == Cap \in Nat \ {0} /\ MaxEvents \in Nat

VARIABLES
  pair,    \* the pair's brake: exchanges and paused
  req,     \* each request's State, and its gate
  tape,    \* each result's line where the sender reads it
  told,    \* what the sender was told of a stop
  lease,   \* exchange_leases
  task,    \* the call that sends a request, or the task that admits it
  worker,  \* exchange_workers: the pair's worker
  line,    \* the request's line in the conversation that works it
  answer,  \* the person's answer to its card, in its thread
  queue,   \* results waiting in the sender's conversation
  dispatched, \* dispatched_deliveries of that conversation's session
  sender,  \* the sender's turn, from its door
  revoking,\* revocations under way: epochs closed, requests not yet stopped
  recovered, \* the first sweep of this process has been
  events,  \* the bounded events so far
  begins,  \* history: turns a request's own line, or its answer, began
  ran,     \* history: turns that ran with a result
  taken,   \* history: results this process marked heard
  skipped, \* history: results taken up by a turn that was then skipped
  unsettled, \* history: requests whose delivery, once claimed, was cut or failed
  overtaken \* history: requests stopped before their delivery, which landed,
            \* was settled, and heard by no turn until then

durable == <<pair, req, tape, told>>
calls == <<task, worker, revoking, recovered>>
work == <<line, answer, begins>>
hearing == <<queue, dispatched, sender, ran, taken, skipped>>
bounds == <<events, unsettled, overtaken>>
vars == <<durable, lease, calls, work, hearing, bounds>>

Unsent == [phase |-> "unsent", intent |-> "ask", replyThread |-> FALSE,
           begun |-> FALSE, counted |-> FALSE,
           sending |-> FALSE, heard |-> FALSE, owed |-> "nobody",
           answering |-> FALSE, reqCounted |-> FALSE, gate |-> "none"]
Idle == [first |-> None, behind |-> {}]
Off == [pc |-> "off", id |-> None]
On == [pc |-> "on", id |-> None]

Init == /\ pair = [exchanges |-> 0, paused |-> FALSE]
        /\ req = [r \in Requests |-> Unsent]
        /\ tape = [r \in Requests |-> "none"]
        /\ told = [r \in Requests |-> {}]
        /\ lease = [r \in Requests |-> "none"]
        /\ task = [r \in Requests |-> "none"]
        /\ worker = Off
        /\ line = [r \in Requests |-> "none"]
        /\ answer = [r \in Requests |-> "none"]
        /\ queue = {}
        /\ dispatched = {}
        /\ sender = Idle
        /\ revoking = {}
        /\ recovered = TRUE
        /\ events = 0
        /\ begins = [r \in Requests |-> [line |-> 0, answer |-> 0]]
        /\ ran = [r \in Requests |-> 0]
        /\ taken = {}
        /\ skipped = {}
        /\ unsettled = {}
        /\ overtaken = {}
-----------------------------------------------------------------------------
Phase(r) == req[r].phase
Handoff(r) == req[r].intent = "handoff"
Open == {r \in Requests : Phase(r) \in {"queued", "running", "waiting", "reply"}}

(* Request::pending                                                        *)
Pending(r) == \/ r \in Open
              \/ Phase(r) = "done" /\ ~req[r].heard

Owing == {r \in Requests : Phase(r) = "stopped" /\ req[r].owed = "thread"}

(* exchange_lease_current: one this process has no lease of passes.        *)
Current(r) == lease[r] \in {"none", "current"}

(* Request::advance, as the state each move leaves.                        *)
Admitted(s) == [s EXCEPT !.phase = "running", !.begun = FALSE, !.reqCounted = TRUE]
Begun(s) == [s EXCEPT !.phase = "running", !.begun = TRUE]
Answered(s) == [s EXCEPT !.phase = "reply", !.begun = FALSE, !.sending = FALSE]
Waiting(s) == [s EXCEPT !.phase = "waiting", !.begun = FALSE]
Claimed(s) == [s EXCEPT !.counted = TRUE, !.sending = TRUE]
Heard(s) == [s EXCEPT !.heard = TRUE]
Delivered(s) ==
  IF s.phase = "reply" THEN [s EXCEPT !.phase = "done", !.sending = FALSE]
  ELSE IF s.answering THEN [s EXCEPT !.owed = "nobody", !.answering = FALSE]
  ELSE s

(* owes_thread: asked before the leases are revoked.                       *)
OwesThread(r, revoked) == /\ req[r].intent = "ask" /\ req[r].replyThread
                          /\ Phase(r) # "done"
                          /\ revoked # "asker"
                          /\ lease[r] # "asker"

(* Mutant: a stop does not note that the answer is on its way.             *)
EndedUnanswering(r, revoked) ==
  [req[r] EXCEPT !.phase = "stopped",
                 !.owed = IF OwesThread(r, revoked) THEN "thread" ELSE "nobody",
                 !.begun = FALSE, !.counted = FALSE, !.sending = FALSE,
                 !.heard = FALSE]

Ended(r, revoked) ==
  [req[r] EXCEPT !.phase = "stopped",
                 !.owed = IF OwesThread(r, revoked) THEN "thread" ELSE "nobody",
                 !.answering = Phase(r) = "reply" /\ req[r].sending,
                 !.begun = FALSE, !.counted = FALSE, !.sending = FALSE,
                 !.heard = FALSE]

(* end_request on each of S, with the notice exchange_notices leaves.      *)
End(S, revoked) ==
  /\ req' = [r \in Requests |-> IF r \in S THEN Ended(r, revoked) ELSE req[r]]
  /\ lease' = [r \in Requests |-> IF r \in S THEN "asker" ELSE lease[r]]
  /\ told' = [r \in Requests |->
                IF r \in S /\ req'[r].owed = "nobody" /\ ~req'[r].answering
                THEN told[r] \cup {"notice"} ELSE told[r]]

(* stop_revoked_exchanges(None): the sweep.                                *)
Sweep == End({r \in Requests : Pending(r) /\ ~Current(r)}, "none")

Answer(r) == req' = [req EXCEPT ![r] = Answered(@)]

(* set_exchange_reply: nothing for a request that has ended.               *)
Fail(r) == IF r \in Open THEN Answer(r) ELSE UNCHANGED req

Counted == /\ events < MaxEvents
           /\ events' = events + 1
Bounded == Counted /\ UNCHANGED <<unsettled, overtaken>>
-----------------------------------------------------------------------------
(* queue_request: the leases are taken, the pair is saved under the lock,  *)
(* and the worker is woken after.  A teammate whose epoch closes meanwhile *)
(* may have given its lease before.                                        *)
Send(r) == /\ Phase(r) = "unsent"
           /\ \E kind \in Kinds :
                req' = [req EXCEPT ![r].phase = "queued", ![r].intent = kind[1],
                                   ![r].replyThread = kind[2]]
           /\ \E l \in {"current"} \cup revoking : lease' = [lease EXCEPT ![r] = l]
           /\ task' = [task EXCEPT ![r] = "wake"]
           /\ UNCHANGED <<pair, tape, told, worker, revoking, recovered, work, hearing,
                          bounds>>

(* wake_exchange.  The wakes by which a change to an open request reminds  *)
(* a worker that runs already are left out.                                *)
Awake == IF worker.pc = "off" THEN On ELSE worker

Wake(r) == /\ task[r] = "wake"
           /\ task' = [task EXCEPT ![r] = "none"]
           /\ worker' = Awake
           /\ UNCHANGED <<durable, lease, revoking, recovered, work, hearing, bounds>>

(* The loop's look, under the lock the enqueue takes.                      *)
Retire == /\ worker = On
          /\ Open \cup Owing = {}
          /\ worker' = Off
          /\ UNCHANGED <<durable, lease, task, revoking, recovered, work, hearing,
                         bounds>>

(* What exchange_step goes through: the requests open as it began, and so  *)
(* past a failure owed since, which is the next step's first.              *)
Looks(r) == worker = On /\ r \in Open

FindRevoked(r) == /\ Looks(r) /\ ~Current(r)
                  /\ Sweep
                  /\ UNCHANGED <<pair, tape, calls, work, hearing, bounds>>

TakeUp(r) == /\ Looks(r) /\ Current(r)
             /\ Phase(r) = "queued" /\ ~pair.paused /\ task[r] = "none"
             /\ task' = [task EXCEPT ![r] = "auth"]
             /\ lease' = [lease EXCEPT ![r] = "current"]
             /\ UNCHANGED <<durable, worker, revoking, recovered, work, hearing, bounds>>

(* The end of an admitting task wakes the worker too.                      *)
EndTask(r) == /\ task' = [task EXCEPT ![r] = "none"]
              /\ worker' = Awake

(* admit_request: what its leases or the person's answer to the            *)
(* first-contact card make of it.                                          *)
AdmitRevoked(r) == /\ task[r] = "auth" /\ ~Current(r)
                   /\ Sweep
                   /\ EndTask(r)
                   /\ UNCHANGED <<pair, tape, revoking, recovered, work, hearing,
                                  bounds>>

Refuse(r) == /\ task[r] = "auth" /\ Current(r)
             /\ Fail(r)
             /\ EndTask(r)
             /\ UNCHANGED <<pair, tape, told, lease, revoking, recovered, work,
                            hearing, bounds>>

(* hand_over_request: its line queued once, or the request failed.         *)
HandedOver(r, s) == \/ /\ line' = IF line[r] = "none" THEN [line EXCEPT ![r] = "queued"]
                                                     ELSE line
                       /\ req' = [req EXCEPT ![r] = s]
                       /\ UNCHANGED bounds
                    \/ /\ Bounded
                       /\ req' = [req EXCEPT ![r] = Answered(s)]
                       /\ UNCHANGED line

Admit(r) ==
  /\ task[r] = "auth" /\ Current(r)
  /\ EndTask(r)
  /\ IF pair.paused \/ Phase(r) # "queued"
     THEN UNCHANGED <<pair, req, line, bounds>>
     ELSE LET n == pair.exchanges + (IF req[r].reqCounted THEN 0 ELSE 1) IN
          /\ pair' = [exchanges |-> n, paused |-> n >= Cap]
          /\ HandedOver(r, Admitted(req[r]))
  /\ UNCHANGED <<tape, told, lease, revoking, recovered, answer, begins, hearing>>

(* exchange_request on one admitted whose line has gone before its turn.   *)
HandOverAgain(r) == /\ Looks(r) /\ Current(r)
                    /\ Phase(r) = "running" /\ ~req[r].begun
                    /\ task[r] = "none" /\ line[r] = "none"
                    /\ HandedOver(r, req[r])
                    /\ UNCHANGED <<pair, tape, told, lease, calls, answer, begins,
                                   hearing>>
-----------------------------------------------------------------------------
(* The line leaves its queue without a turn: a chapter swapped, a thread   *)
(* closed, its teammate stopped.                                           *)
DropLine(r) == /\ line[r] = "queued"
               /\ Bounded
               /\ line' = [line EXCEPT ![r] = "none"]
               /\ UNCHANGED <<durable, lease, calls, answer, begins, hearing>>

(* begin_request, at the door of the turn.                                 *)
BeginTurn(r) ==
  /\ line[r] = "queued"
  /\ IF Current(r) /\ Phase(r) = "running"
     THEN /\ req' = [req EXCEPT ![r] = Begun(@)]
          /\ line' = [line EXCEPT ![r] = "turn"]
          /\ begins' = [begins EXCEPT ![r].line = @ + 1]
     ELSE /\ line' = [line EXCEPT ![r] = "none"]
          /\ UNCHANGED <<req, begins>>
  /\ UNCHANGED <<pair, tape, told, lease, calls, answer, hearing, bounds>>

(* finish_request, and refuse_request for a turn its door refused: only a  *)
(* clean turn may wait on its card.                                        *)
EndTurn(r, clean) ==
  /\ line[r] = "turn"
  /\ line' = [line EXCEPT ![r] = "none"]
  /\ req' = IF Phase(r) # "running" THEN req
            ELSE [req EXCEPT ![r] =
                    IF clean /\ @.gate \in {"open", "answered"}
                    THEN Waiting(@) ELSE Answered(@)]
  /\ UNCHANGED <<pair, tape, told, lease, calls, answer, begins, hearing, bounds>>

(* stop_handoff_for_the_person: the turn cut, or the lines that waited     *)
(* dropped, with a note aside for the sender.                              *)
StopHandoff(r) ==
  /\ Handoff(r)
  /\ \/ line[r] = "turn" /\ Phase(r) = "running"
     \/ line[r] = "queued" /\ Phase(r) = "running" /\ ~req[r].begun
     \/ answer[r] = "queued" /\ Phase(r) = "waiting"
  /\ req' = [req EXCEPT ![r] = Ended(r, "none")]
  /\ lease' = [lease EXCEPT ![r] = "asker"]
  /\ told' = [told EXCEPT ![r] = @ \cup {"note"}]
  /\ line' = [line EXCEPT ![r] = "none"]
  /\ answer' = [answer EXCEPT ![r] = "none"]
  /\ UNCHANGED <<pair, tape, calls, begins, hearing, bounds>>

(* fail_dropped_questions                                                  *)
StopQuestion(r) == /\ ~Handoff(r) /\ line[r] = "queued"
                   /\ line' = [line EXCEPT ![r] = "none"]
                   /\ IF Phase(r) = "running" /\ ~req[r].begun
                      THEN Answer(r) ELSE UNCHANGED req
                   /\ UNCHANGED <<pair, tape, told, lease, calls, answer, begins,
                                  hearing, bounds>>

(* Interrupt: the handoff stays running and begun, held by no turn.        *)
Carried(r) == Phase(r) = "running" /\ req[r].begun /\ line[r] = "none"

Interrupt(r) == /\ Handoff(r) /\ line[r] = "turn" /\ Phase(r) = "running"
                /\ Bounded
                /\ line' = [line EXCEPT ![r] = "none"]
                /\ UNCHANGED <<durable, lease, calls, answer, begins, hearing>>

(* The person's next line takes it up, or the thread closes first.         *)
CarryOn(r) == /\ Carried(r) /\ Current(r)
              /\ line' = [line EXCEPT ![r] = "turn"]
              /\ UNCHANGED <<durable, lease, calls, answer, begins, hearing, bounds>>

EndCarried(r) == /\ Carried(r)
                 /\ Answer(r)
                 /\ UNCHANGED <<pair, tape, told, lease, calls, work, hearing, bounds>>
-----------------------------------------------------------------------------
(* link_handoff_human: the result waits behind the card.                   *)
PostCard(r) == /\ Handoff(r) /\ line[r] = "turn"
               /\ Phase(r) = "running" /\ Current(r) /\ req[r].gate = "none"
               /\ req' = [req EXCEPT ![r].gate = "open"]
               /\ UNCHANGED <<pair, tape, told, lease, calls, work, hearing, bounds>>

(* unlink_handoff_human: not once the turn has ended to wait on it.        *)
WithdrawCard(r) == /\ req[r].gate = "open" /\ Phase(r) = "running"
                   /\ Bounded
                   /\ req' = [req EXCEPT ![r].gate = "none"]
                   /\ UNCHANGED <<pair, tape, told, lease, calls, work, hearing>>

(* The card is settled on the tape; its answer is handed to the thread     *)
(* only while the handoff is open (handoff_is_open).                       *)
AnswerCard(r) == /\ req[r].gate = "open"
                 /\ req' = [req EXCEPT ![r].gate = "answered"]
                 /\ answer' = IF Phase(r) \in {"running", "waiting"}
                              THEN [answer EXCEPT ![r] = "queued"] ELSE answer
                 /\ UNCHANGED <<pair, tape, told, lease, calls, line, begins, hearing,
                                bounds>>

(* The worker repairs an answer no line carries.                           *)
HandOverAnswer(r) == /\ Looks(r) /\ Current(r) /\ Phase(r) = "waiting"
                     /\ req[r].gate = "answered" /\ answer[r] = "none"
                     /\ answer' = [answer EXCEPT ![r] = "queued"]
                     /\ UNCHANGED <<durable, lease, calls, line, begins, hearing, bounds>>

(* resume_handoff_answer, which looks again after its await, then          *)
(* begin_request.                                                          *)
TakesAnswer(r) == Phase(r) = "waiting" /\ Current(r) /\ req[r].gate = "answered"

BeginAnswer(r) ==
  /\ answer[r] = "queued" /\ line[r] = "none"
  /\ answer' = [answer EXCEPT ![r] = "none"]
  /\ IF TakesAnswer(r)
     THEN /\ req' = [req EXCEPT ![r] = [Begun(@) EXCEPT !.gate = "consumed"]]
          /\ lease' = [lease EXCEPT ![r] = "current"]
          /\ line' = [line EXCEPT ![r] = "turn"]
          /\ begins' = [begins EXCEPT ![r].answer = @ + 1]
     ELSE UNCHANGED <<req, lease, line, begins>>
  /\ UNCHANGED <<pair, tape, told, calls, hearing, bounds>>

(* The grant is asked again and refused.                                   *)
RefuseAnswer(r) == /\ answer[r] = "queued" /\ line[r] = "none" /\ TakesAnswer(r)
                   /\ answer' = [answer EXCEPT ![r] = "none"]
                   /\ Fail(r)
                   /\ UNCHANGED <<pair, tape, told, lease, calls, line, begins, hearing,
                                  bounds>>
-----------------------------------------------------------------------------
(* exchange_request on a reply: counted and claimed in one look, and then  *)
(* delivered outside the lock.                                             *)
Claim(r) ==
  /\ Looks(r) /\ Current(r) /\ Phase(r) = "reply"
  /\ req[r].counted \/ ~pair.paused
  /\ req' = [req EXCEPT ![r] = Claimed(@)]
  /\ pair' = IF req[r].counted THEN pair
             ELSE [exchanges |-> pair.exchanges + 1, paused |-> pair.exchanges + 1 >= Cap]
  /\ worker' = [pc |-> "deliver", id |-> r]
  /\ UNCHANGED <<tape, told, lease, task, revoking, recovered, work, hearing, bounds>>

(* deliver_to_main: written once, and queued once in a session unless read.*)
Dispatch(r) == /\ tape' = [tape EXCEPT ![r] = IF @ = "none" THEN "sent" ELSE @]
               /\ queue' = IF tape[r] = "read" THEN queue
                                               ELSE queue \cup ({r} \ dispatched)
               /\ dispatched' = IF tape[r] = "read" THEN dispatched
                                                    ELSE dispatched \cup {r}

Land(r) == /\ worker = [pc |-> "deliver", id |-> r]
           /\ Dispatch(r)
           /\ worker' = [worker EXCEPT !.pc = "landed"]
           /\ UNCHANGED <<pair, req, told, lease, task, revoking, recovered, work,
                          sender, ran, taken, skipped, bounds>>

Settle(r) == /\ worker = [pc |-> "landed", id |-> r]
             /\ req' = [req EXCEPT ![r] = Delivered(@)]
             /\ overtaken' = IF Phase(r) = "stopped" /\ ran[r] = 0
                             THEN overtaken \cup {r} ELSE overtaken
             /\ worker' = On
             /\ UNCHANGED <<pair, tape, told, lease, task, revoking, recovered, work,
                            hearing, events, unsettled>>

(* It did not land: a request stopped meanwhile is told so after all, and  *)
(* one still a reply is looked at again.                                   *)
FailDelivery(r) ==
  /\ worker = [pc |-> "deliver", id |-> r]
  /\ Counted
  /\ unsettled' = IF Phase(r) = "reply" THEN unsettled \cup {r} ELSE unsettled
  /\ req' = [req EXCEPT ![r].answering = FALSE]
  /\ told' = IF Phase(r) = "stopped" /\ req[r].owed = "nobody"
             THEN [told EXCEPT ![r] = @ \cup {"notice"}] ELSE told
  /\ worker' = On
  /\ UNCHANGED <<pair, tape, lease, task, revoking, recovered, work, hearing, overtaken>>

(* tell_thread_stopped: handed to the thread, under an id of its own, or   *)
(* to the sender's conversation; then the debt is settled.                 *)
Tell(r) == /\ worker = On /\ r \in Owing
           /\ told' = [told EXCEPT ![r] = @ \cup {"failure"}]
           /\ req' = [req EXCEPT ![r].owed = "nobody"]
           /\ UNCHANGED <<pair, tape, lease, calls, work, hearing, bounds>>
-----------------------------------------------------------------------------
(* exchange_result_waits and begin_exchange_result.                        *)
ResultWaits(r) == Current(r) /\ Phase(r) \in {"reply", "done"} /\ ~req[r].heard

(* The door of the sender's turn looks at the result it would hear.  The   *)
(* results of work threads queued behind one are taken up with it          *)
(* (results_behind).                                                       *)
Together(r) == {q \in queue \ {r} : /\ Handoff(r) /\ ~req[r].replyThread
                                     /\ Handoff(q) /\ ~req[q].replyThread}

(* Mutant: the look at the door already marks the result heard.            *)
TakeResultAtTheDoor(r) ==
  /\ sender = Idle /\ r \in queue
  /\ IF ResultWaits(r)
     THEN LET behind == {q \in Together(r) : ResultWaits(q)} IN
          /\ queue' = queue \ ({r} \cup Together(r))
          /\ req' = [q \in Requests |-> IF q \in {r} \cup behind THEN Heard(req[q])
                                                                ELSE req[q]]
          /\ sender' = [first |-> r, behind |-> behind]
          /\ taken' = taken \cup {r} \cup behind
     ELSE /\ queue' = queue \ {r}
          /\ UNCHANGED <<req, sender, taken>>
  /\ UNCHANGED <<pair, tape, told, lease, calls, work, dispatched, ran, skipped, bounds>>

TakeResult(r) ==
  /\ sender = Idle /\ r \in queue
  /\ IF ResultWaits(r)
     THEN LET behind == {q \in Together(r) : ResultWaits(q)} IN
          /\ queue' = queue \ ({r} \cup Together(r))
          /\ req' = [q \in Requests |-> IF q \in behind THEN Heard(req[q]) ELSE req[q]]
          /\ sender' = [first |-> r, behind |-> behind]
          /\ taken' = taken \cup behind
     ELSE /\ queue' = queue \ {r}
          /\ UNCHANGED <<req, sender, taken>>
  /\ UNCHANGED <<pair, tape, told, lease, calls, work, dispatched, ran, skipped, bounds>>

(* The result itself is committed, and nothing refuses the turn from here; *)
(* or it has been stopped since the look, and the turn is skipped.         *)
HearResult ==
  /\ sender # Idle
  /\ IF ResultWaits(sender.first)
     THEN LET heard == {sender.first} \cup sender.behind IN
          /\ req' = [req EXCEPT ![sender.first] = Heard(@)]
          /\ tape' = [r \in Requests |-> IF r \in heard THEN "read" ELSE tape[r]]
          /\ ran' = [r \in Requests |-> IF r \in heard THEN ran[r] + 1 ELSE ran[r]]
          /\ taken' = taken \cup heard
          /\ UNCHANGED skipped
     ELSE /\ skipped' = skipped \cup sender.behind
          /\ UNCHANGED <<req, tape, ran, taken>>
  /\ sender' = Idle
  /\ UNCHANGED <<pair, told, lease, calls, work, queue, dispatched, bounds>>

(* cut_turn in the sender's conversation: what waits there goes, and may   *)
(* be handed to it again.                                                  *)
DropResults == /\ queue # {}
               /\ Bounded
               /\ queue' = {}
               /\ dispatched' = {}
               /\ UNCHANGED <<durable, lease, calls, work, sender, ran, taken, skipped>>
-----------------------------------------------------------------------------
(* Mutant: the brake is let off and the count kept.                        *)
ReleasedUncounted == pair' = [pair EXCEPT !.paused = FALSE]

Released == pair' = [exchanges |-> 0, paused |-> FALSE]

(* wake_owed                                                               *)
WakeOwed == worker' = IF \E r \in Requests : req'[r].owed = "thread" THEN Awake
                                                                    ELSE worker

(* change_exchange and heard_from_person.                                  *)
ResumeExchange == /\ Bounded
                  /\ Released
                  /\ UNCHANGED <<req, tape, told, lease, calls, work, hearing>>

StopExchange == /\ Bounded
                /\ End({r \in Requests : Pending(r)}, "none")
                /\ WakeOwed
                /\ Released
                /\ UNCHANGED <<tape, task, revoking, recovered, work, hearing>>

(* invalidate and stop_session: the teammate's epoch closes and what waits *)
(* in its conversation goes; its exchanges are revoked after.              *)
CloseEpoch(who) ==
  /\ Bounded
  /\ revoking' = revoking \cup {who}
  /\ lease' = [r \in Requests |-> IF lease[r] = "current" \/ (lease[r] = "target" /\ who = "asker")
                                  THEN who ELSE lease[r]]
  /\ queue' = IF who = "asker" THEN {} ELSE queue
  /\ dispatched' = IF who = "asker" THEN {} ELSE dispatched
  /\ line' = [r \in Requests |-> IF who = "target" /\ line[r] = "queued"
                                 THEN "none" ELSE line[r]]
  /\ UNCHANGED <<durable, task, worker, recovered, answer, begins, sender, ran, taken,
                 skipped>>

RevokeExchanges(who) ==
  /\ who \in revoking
  /\ revoking' = revoking \ {who}
  /\ End({r \in Requests : Pending(r)}, who)
  /\ WakeOwed
  /\ UNCHANGED <<pair, tape, task, recovered, work, hearing, bounds>>

(* Mutant: a restart queues again whatever was running.                    *)
ReconciledUnbegun(s) ==
  IF s.phase = "running" THEN [s EXCEPT !.phase = "queued", !.begun = FALSE]
  ELSE [s EXCEPT !.answering = FALSE]

(* The process ends, at any point, and the next one reconciles the pair    *)
(* before anything else runs.                                              *)
Reconciled(s) ==
  IF s.phase = "running" THEN IF s.begun THEN Answered(s) ELSE [s EXCEPT !.phase = "queued"]
  ELSE [s EXCEPT !.answering = FALSE]

Restart == /\ Counted
           /\ unsettled' = unsettled \cup ({worker.id} \ {None})
           /\ taken' = {}
           /\ req' = [r \in Requests |-> Reconciled(req[r])]
           /\ lease' = [r \in Requests |-> "none"]
           /\ task' = [r \in Requests |-> "none"]
           /\ worker' = Off
           /\ line' = [r \in Requests |-> "none"]
           /\ answer' = [r \in Requests |-> "none"]
           /\ queue' = {}
           /\ dispatched' = {}
           /\ sender' = Idle
           /\ revoking' = {}
           /\ recovered' = FALSE
           /\ UNCHANGED <<pair, tape, told, begins, ran, skipped, overtaken>>

(* recover_exchanges, at the first sweep: every pair's worker, and each    *)
(* result on the sender's tape that was never read.                        *)
Recover == /\ ~recovered
           /\ recovered' = TRUE
           /\ worker' = Awake
           /\ LET unheard == {r \in Requests : tape[r] = "sent" /\ ~req[r].replyThread}
              IN /\ queue' = queue \cup (unheard \ dispatched)
                 /\ dispatched' = dispatched \cup unheard
           /\ UNCHANGED <<durable, lease, task, revoking, work, sender, ran, taken, skipped,
                          bounds>>
-----------------------------------------------------------------------------
Desk(r) == \/ Wake(r) \/ FindRevoked(r) \/ TakeUp(r) \/ AdmitRevoked(r)
           \/ Admit(r) \/ HandOverAgain(r) \/ HandOverAnswer(r)
           \/ Claim(r) \/ Land(r) \/ Settle(r) \/ Tell(r)
           \/ BeginTurn(r) \/ BeginAnswer(r)
           \/ TakeResult(r)
Faults(r) == Refuse(r) \/ FailDelivery(r) \/ DropLine(r) \/ RefuseAnswer(r)
Agent(r) == \/ \E clean \in BOOLEAN : EndTurn(r, clean)
            \/ PostCard(r) \/ WithdrawCard(r)
Person(r) == \/ StopHandoff(r) \/ StopQuestion(r) \/ Interrupt(r) \/ CarryOn(r)
             \/ EndCarried(r) \/ AnswerCard(r)
Next == \/ \E r \in Requests : Send(r) \/ Desk(r) \/ Faults(r) \/ Agent(r) \/ Person(r)
        \/ Retire \/ HearResult \/ DropResults
        \/ ResumeExchange \/ StopExchange
        \/ \E who \in {"asker", "target"} : CloseEpoch(who) \/ RevokeExchanges(who)
        \/ Restart \/ Recover

Spec == Init /\ [][Next]_vars
-----------------------------------------------------------------------------
TypeOK ==
  /\ pair \in [exchanges : 0..Cap, paused : BOOLEAN]
  /\ req \in [Requests -> [phase : {"unsent", "queued", "running", "waiting", "reply",
                                    "done", "stopped"},
                           intent : {"ask", "handoff"},
                           owed : {"nobody", "thread"},
                           gate : {"none", "open", "answered", "consumed"},
                           replyThread : BOOLEAN, begun : BOOLEAN, counted : BOOLEAN,
                           sending : BOOLEAN, heard : BOOLEAN, answering : BOOLEAN,
                           reqCounted : BOOLEAN]]
  /\ tape \in [Requests -> {"none", "sent", "read"}]
  /\ told \in [Requests -> SUBSET {"notice", "note", "failure"}]
  /\ lease \in [Requests -> {"none", "current", "asker", "target"}]
  /\ task \in [Requests -> {"none", "wake", "auth"}]
  /\ \/ worker \in {Off, On}
     \/ worker.pc \in {"deliver", "landed"} /\ worker.id \in Requests
  /\ line \in [Requests -> {"none", "queued", "turn"}]
  /\ answer \in [Requests -> {"none", "queued"}]
  /\ queue \subseteq Requests /\ dispatched \subseteq Requests
  /\ sender = Idle \/ sender \in [first : Requests, behind : SUBSET Requests]
  /\ revoking \subseteq {"asker", "target"}
  /\ recovered \in BOOLEAN
  /\ {taken, skipped, unsettled, overtaken} \subseteq SUBSET Requests
  /\ events \in 0..MaxEvents

(* No request is worked twice: across redelivery, a dropped line, a stop   *)
(* and the end of the process, its own line begins at most one turn and    *)
(* its card's answer at most one more.                                     *)
WorkedOnce == \A r \in Requests : begins[r].line <= 1 /\ begins[r].answer <= 1

(* A result is heard by at most one turn of its sender, however often it   *)
(* was delivered.                                                          *)
HeardOnce == \A r \in Requests : ran[r] <= 1

(* The brake: a pair pauses on the message that reaches the cap, and until *)
(* the person answers no further one is let in or delivered.               *)
PausedAtCap == pair.paused <=> pair.exchanges = Cap

(* Nothing is left without a worker: while a request is open, or a failure *)
(* is owed, the pair's worker runs or is about to be woken.                *)
WorkerWatches == recovered /\ Open \cup Owing # {} =>
                   worker.pc # "off" \/ \E r \in Requests : task[r] # "none"

(* The sender of a request that was stopped is told one thing: never both  *)
(* its result, heard by a turn of it, and the stop; and, once nothing more *)
(* is owed and no delivery is under way, one of the two.  Two kinds of     *)
(* request are named as exceptions.  One whose claimed delivery was cut by *)
(* the end of the process, or failed while it was still a reply, may hear  *)
(* both or neither (unsettled).  One stopped behind a delivery that landed *)
(* (overtaken) hears neither: its line is on the sender's tape, but the    *)
(* stop has revoked its leases, so the sender's turn skips it at its door  *)
(* (exchange_step, end_request, exchange_result_waits).                    *)
ToldOneThing ==
  \A r \in Requests \ unsettled :
    /\ ran[r] > 0 => told[r] = {}
    /\ Phase(r) = "stopped" /\ req[r].owed = "nobody" /\ worker.id # r
         => \/ told[r] # {} \/ ran[r] > 0
            \/ r \in overtaken /\ tape[r] # "none"

(* What this process marked heard is heard, by a turn that ran or is       *)
(* certain to; but for results taken up behind one that was stopped        *)
(* between the look at the door and its own commit.                        *)
HeardIsRun ==
  \A r \in taken : ran[r] > 0 \/ r \in sender.behind \cup skipped

(* Through redelivery, stops and the end of the process a request is       *)
(* worked once and its result heard once.                                  *)
OnceEach == WorkedOnce /\ HeardOnce

(* Nothing is forgotten: what is open has a worker, and what was marked    *)
(* heard is heard (reconcile_exchanges, wake_exchange,                     *)
(* begin_exchange_result).                                                 *)
NothingIsForgotten == TypeOK /\ WorkerWatches /\ HeardIsRun
=============================================================================
