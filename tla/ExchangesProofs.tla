-------------------------- MODULE ExchangesProofs --------------------------
(***************************************************************************)
(* What Exchanges promises for any requests, any cap and any number of     *)
(* faults: a request is worked once and its result heard once, the pair    *)
(* pauses exactly at its cap, the sender is told one thing of a request    *)
(* that was stopped, and nothing is forgotten.                             *)
(*                                                                         *)
(* The first rests on how a request's record may move.  Stays is what      *)
(* every step that begins no turn and hears no result keeps of it: a       *)
(* request stopped stays so, one heard is heard or stopped, a card's       *)
(* answer is consumed for good, and one whose turn has begun never again   *)
(* waits for its line.                                                     *)
(*                                                                         *)
(* What the sender is told rests on Says: how far its delivery has come of *)
(* a request whose delivery, once claimed, was neither cut nor failed.     *)
(* Moves is what a step that tells, delivers and hears nothing keeps of    *)
(* it.  Keeps is what a move keeps of a request that a task holds or that  *)
(* its pair's worker is kept for.                                          *)
(***************************************************************************)
EXTENDS Exchanges, TLAPS

Phases == {"unsent", "queued", "running", "waiting", "reply", "done", "stopped"}

Records == [phase : Phases, intent : {"ask", "handoff"},
            owed : {"nobody", "thread"},
            gate : {"none", "open", "answered", "consumed"},
            replyThread : BOOLEAN, begun : BOOLEAN, counted : BOOLEAN,
            sending : BOOLEAN, heard : BOOLEAN, answering : BOOLEAN,
            reqCounted : BOOLEAN]

(* A line of its own may still be its first.                               *)
Unbegun(s) == \/ s.phase \in {"unsent", "queued"}
              \/ s.phase = "running" /\ ~s.begun

Stays(s, t) ==
  /\ t \in Records
  /\ s.phase = "stopped" => t.phase = "stopped"
  /\ s.heard => t.heard \/ t.phase = "stopped"
  /\ s.gate = "consumed" => t.gate = "consumed"
  /\ Unbegun(t) => Unbegun(s)
  /\ t.phase = "running" /\ t.begun => s.phase = "running" /\ s.begun

(* A result that a turn heard, or will with the one it was taken up with.  *)
Spoken(s) == s.heard \/ s.phase = "stopped"

Sorts == /\ req \in [Requests -> Records]
         /\ line \in [Requests -> {"none", "queued", "turn"}]
         /\ begins \in [Requests -> [line : 0..1, answer : 0..1]]
         /\ ran \in [Requests -> 0..1]
         /\ sender # Idle => sender.first \in Requests

WorkInv == \A r \in Requests :
  /\ begins[r].line = 1 => ~Unbegun(req[r])
  /\ line[r] = "queued" => ~(Phase(r) = "running" /\ req[r].begun)
  /\ begins[r].answer = 1 => req[r].gate = "consumed"

HearInv == \A r \in Requests :
  /\ ran[r] = 1 => Spoken(req[r])
  /\ r \in sender.behind => ran[r] = 0 /\ Spoken(req[r]) /\ r # sender.first

EInv == Sorts /\ WorkInv /\ HearInv
-----------------------------------------------------------------------------
(* What each move of a request keeps.                                      *)
LEMMA MovesStay ==
  ASSUME NEW s \in Records
  PROVE  /\ Stays(s, s)
         /\ Stays(s, Claimed(s)) /\ Stays(s, Heard(s)) /\ Stays(s, Delivered(s))
         /\ Stays(s, Reconciled(s))
         /\ Stays(s, [s EXCEPT !.owed = "nobody"])
         /\ Stays(s, [s EXCEPT !.answering = FALSE])
         /\ s.phase # "stopped" => Stays(s, Answered(s)) /\ Stays(s, Waiting(s))
         /\ s.phase = "queued" => /\ Stays(s, Admitted(s))
                                  /\ Stays(s, Answered(Admitted(s)))
         /\ s.gate # "consumed" =>
              \A g \in {"none", "open", "answered"} :
                Stays(s, [s EXCEPT !.gate = g])
  <1> USE DEF Records, Phases, Stays, Unbegun
  <1>1. Stays(s, s)
    OBVIOUS
  <1>2. Stays(s, Claimed(s)) /\ Stays(s, Heard(s))
    BY DEF Claimed, Heard
  <1>3. Stays(s, Delivered(s))
    <2>1. CASE s.phase = "reply"
      BY <2>1 DEF Delivered
    <2>2. CASE s.phase # "reply" /\ s.answering
      BY <2>2 DEF Delivered
    <2>3. CASE s.phase # "reply" /\ ~s.answering
      BY <1>1, <2>3 DEF Delivered
    <2> QED
      BY <2>1, <2>2, <2>3
  <1>4. Stays(s, [s EXCEPT !.owed = "nobody"])
    OBVIOUS
  <1>5. Stays(s, [s EXCEPT !.answering = FALSE])
    OBVIOUS
  <1>6. s.phase # "stopped" => Stays(s, Answered(s)) /\ Stays(s, Waiting(s))
    BY DEF Answered, Waiting
  <1>7. s.phase = "queued" => Stays(s, Admitted(s))
    BY DEF Admitted
  <1>8. s.phase = "queued" => Stays(s, Answered(Admitted(s)))
    BY DEF Admitted, Answered
  <1>9. s.gate # "consumed" =>
          \A g \in {"none", "open", "answered"} : Stays(s, [s EXCEPT !.gate = g])
    OBVIOUS
  <1>10. Stays(s, Reconciled(s))
    BY ZenonT(60) DEF Reconciled, Answered
  <1> QED
    BY <1>1, <1>2, <1>3, <1>4, <1>5, <1>6, <1>7, <1>8, <1>9, <1>10, ZenonT(60)

LEMMA StopStays ==
  ASSUME NEW s \in Records, NEW o \in {"nobody", "thread"}, NEW a \in BOOLEAN
  PROVE  Stays(s, [s EXCEPT !.phase = "stopped", !.owed = o, !.answering = a,
                            !.begun = FALSE, !.counted = FALSE,
                            !.sending = FALSE, !.heard = FALSE])
  BY ZenonT(60) DEF Records, Phases, Stays, Unbegun

LEMMA EndedStays ==
  ASSUME EInv, NEW r \in Requests, NEW revoked
  PROVE  Stays(req[r], Ended(r, revoked))
  <1>1. req[r] \in Records
    BY DEF EInv, Sorts
  <1>2. (IF OwesThread(r, revoked) THEN "thread" ELSE "nobody")
           \in {"nobody", "thread"}
    OBVIOUS
  <1>3. (Phase(r) = "reply" /\ req[r].sending) \in BOOLEAN
    OBVIOUS
  <1> QED
    BY <1>1, <1>2, <1>3, StopStays, ZenonT(60) DEF Ended

LEMMA BegunIs ==
  ASSUME NEW s \in Records
  PROVE  /\ Begun(s) \in Records
         /\ Begun(s).phase = "running" /\ Begun(s).begun = TRUE
         /\ Begun(s).gate = s.gate /\ Begun(s).heard = s.heard
  <1> USE DEF Begun, Records, Phases
  <1>1. Begun(s) \in Records
    OBVIOUS
  <1>2. Begun(s).phase = "running" /\ Begun(s).gate = s.gate
    OBVIOUS
  <1>3. Begun(s).begun = TRUE
    OBVIOUS
  <1>4. Begun(s).heard = s.heard
    OBVIOUS
  <1> QED
    BY <1>1, <1>2, <1>3, <1>4

LEMMA AdmittedIs ==
  ASSUME NEW s \in Records
  PROVE  /\ Admitted(s) \in Records
         /\ Admitted(s).phase = "running" /\ Admitted(s).begun = FALSE
  <1> USE DEF Admitted, Records, Phases
  <1>1. Admitted(s) \in Records
    OBVIOUS
  <1>2. Admitted(s).phase = "running"
    OBVIOUS
  <1>3. Admitted(s).begun = FALSE
    OBVIOUS
  <1> QED
    BY <1>1, <1>2, <1>3

LEMMA ConsumedIs ==
  ASSUME NEW s \in Records
  PROVE  \E t \in Records :
           /\ t = [s EXCEPT !.gate = "consumed"]
           /\ t.gate = "consumed" /\ t.phase = s.phase
           /\ t.begun = s.begun /\ t.heard = s.heard
  <1> DEFINE t == [s EXCEPT !.gate = "consumed"]
  <1> USE DEF Records, Phases
  <1>1. t \in Records /\ t.gate = "consumed" /\ t.phase = s.phase
    OBVIOUS
  <1>2. t.begun = s.begun
    OBVIOUS
  <1>3. t.heard = s.heard
    OBVIOUS
  <1> QED
    BY <1>1, <1>2, <1>3

LEMMA SentStays ==
  ASSUME NEW s \in Records, s.phase = "unsent", NEW kind \in Kinds
  PROVE  Stays(s, [s EXCEPT !.phase = "queued", !.intent = kind[1],
                            !.replyThread = kind[2]])
  <1>1. kind[1] \in {"ask", "handoff"} /\ kind[2] \in BOOLEAN
    BY RequestsAssumption
  <1>2. ASSUME NEW i \in {"ask", "handoff"}, NEW b \in BOOLEAN
        PROVE  Stays(s, [s EXCEPT !.phase = "queued", !.intent = i,
                                  !.replyThread = b])
    BY DEF Records, Phases, Stays, Unbegun
  <1> QED
    BY <1>1, <1>2
-----------------------------------------------------------------------------
(* A line is queued only for a request no turn has begun.                  *)
LinesStay == /\ line' \in [Requests -> {"none", "queued", "turn"}]
             /\ \A q \in Requests :
                  line'[q] = "queued" => line[q] = "queued" \/ Unbegun(req'[q])

(* Steps that begin no turn and hear no result.                            *)
LEMMA Quiet ==
  ASSUME EInv, req' \in [Requests -> Records],
         \A q \in Requests : Stays(req[q], req'[q]),
         LinesStay, UNCHANGED <<begins, ran>>, sender' \in {sender, Idle}
  PROVE  EInv'
  <1>1. Sorts'
    BY DEF EInv, Sorts, LinesStay
  <1>2. WorkInv'
    BY DEF EInv, WorkInv, LinesStay, Stays, Unbegun, Phase
  <1>3. HearInv'
    BY DEF EInv, HearInv, Stays, Spoken, Idle
  <1> QED
    BY <1>1, <1>2, <1>3 DEF EInv

(* Those of one request.                                                   *)
LEMMA OneMoves ==
  ASSUME EInv, NEW r \in Requests, NEW t, Stays(req[r], t),
         req' = [req EXCEPT ![r] = t],
         LinesStay, UNCHANGED <<begins, ran>>, sender' = sender
  PROVE  EInv'
  <1>1. t \in Records
    BY DEF Stays
  <1>2. req' \in [Requests -> Records]
    BY <1>1 DEF EInv, Sorts
  <1>3. \A q \in Requests : Stays(req[q], req'[q])
    BY MovesStay DEF EInv, Sorts
  <1> QED
    BY <1>2, <1>3, Quiet

(* Those of none.                                                          *)
LEMMA NoneMoves ==
  ASSUME EInv, req' = req,
         LinesStay, UNCHANGED <<begins, ran>>, sender' \in {sender, Idle}
  PROVE  EInv'
  <1>1. req' \in [Requests -> Records]
        /\ \A q \in Requests : Stays(req[q], req'[q])
    BY MovesStay DEF EInv, Sorts
  <1> QED
    BY <1>1, Quiet

LEMMA LinesKept ==
  ASSUME EInv, line' = line
  PROVE  LinesStay
  BY DEF EInv, Sorts, LinesStay

LEMMA LineSet ==
  ASSUME EInv, NEW r \in Requests, NEW l \in {"none", "queued", "turn"},
         line' = [line EXCEPT ![r] = l], l = "queued" => Unbegun(req'[r])
  PROVE  LinesStay
  BY DEF EInv, Sorts, LinesStay

(* Requests are stopped together, by whoever stops them.                   *)
LEMMA EndKeeps ==
  ASSUME EInv, NEW S, NEW revoked, End(S, revoked), line' = line,
         UNCHANGED <<begins, ran, sender>>
  PROVE  EInv'
  <1>1. req' = [r \in Requests |-> IF r \in S THEN Ended(r, revoked) ELSE req[r]]
    BY DEF End
  <1>2. \A r \in Requests : req[r] \in Records /\ Stays(req[r], req[r])
    BY MovesStay DEF EInv, Sorts
  <1>3. \A r \in Requests : Stays(req[r], req'[r])
    BY <1>1, <1>2, EndedStays
  <1>4. req' \in [Requests -> Records]
    BY <1>1, <1>3 DEF Stays
  <1> QED
    BY <1>3, <1>4, Quiet, LinesKept
-----------------------------------------------------------------------------
LEMMA BeginTurnKeeps ==
  ASSUME EInv, NEW r \in Requests, BeginTurn(r)
  PROVE  EInv'
  <1>1. CASE Current(r) /\ Phase(r) = "running"
    <2>1. /\ req' = [req EXCEPT ![r] = Begun(@)]
          /\ line' = [line EXCEPT ![r] = "turn"]
          /\ begins' = [begins EXCEPT ![r].line = @ + 1]
          /\ UNCHANGED <<ran, sender>> /\ line[r] = "queued"
      BY <1>1 DEF BeginTurn, hearing
    <2>2. req[r].phase = "running" /\ ~req[r].begun /\ begins[r].line = 0
      BY <1>1, <2>1 DEF EInv, Sorts, WorkInv, Phase, Unbegun
    <2>3. /\ Begun(req[r]) \in Records
          /\ Begun(req[r]).phase = "running" /\ Begun(req[r]).begun = TRUE
          /\ Begun(req[r]).gate = req[r].gate
          /\ Begun(req[r]).heard = req[r].heard
      BY BegunIs DEF EInv, Sorts
    <2>4. /\ req' \in [Requests -> Records]
          /\ req'[r] = Begun(req[r])
          /\ \A q \in Requests \ {r} : req'[q] = req[q]
      BY <2>1, <2>3 DEF EInv, Sorts
    <2>5. /\ begins' \in [Requests -> [line : 0..1, answer : 0..1]]
          /\ begins'[r].answer = begins[r].answer
          /\ \A q \in Requests \ {r} : begins'[q] = begins[q]
      BY <2>1, <2>2 DEF EInv, Sorts
    <2>6. Sorts'
      BY <2>1, <2>4, <2>5 DEF EInv, Sorts
    <2>7. WorkInv'
      BY <2>1, <2>3, <2>4, <2>5 DEF EInv, Sorts, WorkInv, Unbegun, Phase
    <2>8. HearInv'
      BY <2>1, <2>2, <2>3, <2>4 DEF EInv, HearInv, Spoken
    <2> QED
      BY <2>6, <2>7, <2>8 DEF EInv
  <1>2. CASE ~(Current(r) /\ Phase(r) = "running")
    BY <1>2, LineSet, NoneMoves DEF BeginTurn, hearing
  <1> QED
    BY <1>1, <1>2

LEMMA BeginAnswerKeeps ==
  ASSUME EInv, NEW r \in Requests, BeginAnswer(r)
  PROVE  EInv'
  <1>1. CASE TakesAnswer(r)
    <2> DEFINE t == [Begun(req[r]) EXCEPT !.gate = "consumed"]
    <2>1. /\ req' = [req EXCEPT ![r] = t]
          /\ line' = [line EXCEPT ![r] = "turn"]
          /\ begins' = [begins EXCEPT ![r].answer = @ + 1]
          /\ UNCHANGED <<ran, sender>>
      BY <1>1 DEF BeginAnswer, hearing
    <2>2. /\ req[r].phase = "waiting" /\ req[r].gate = "answered"
          /\ begins[r].answer = 0
      BY <1>1 DEF TakesAnswer, EInv, Sorts, WorkInv, Phase
    <2>3. /\ t \in Records
          /\ t.phase = "running" /\ t.begun = TRUE /\ t.gate = "consumed"
          /\ t.heard = req[r].heard
      <3>1. req[r] \in Records
        BY DEF EInv, Sorts
      <3>2. /\ Begun(req[r]) \in Records
            /\ Begun(req[r]).phase = "running" /\ Begun(req[r]).begun = TRUE
            /\ Begun(req[r]).heard = req[r].heard
        BY <3>1, BegunIs
      <3>3. PICK u \in Records :
              /\ u = t /\ u.gate = "consumed"
              /\ u.phase = Begun(req[r]).phase
              /\ u.begun = Begun(req[r]).begun
              /\ u.heard = Begun(req[r]).heard
        BY <3>2, ConsumedIs
      <3> HIDE DEF t
      <3> QED
        BY <3>2, <3>3
    <2> HIDE DEF t
    <2>4. /\ req' \in [Requests -> Records]
          /\ req'[r] = t
          /\ \A q \in Requests \ {r} : req'[q] = req[q]
      BY <2>1, <2>3 DEF EInv, Sorts
    <2>5. /\ begins' \in [Requests -> [line : 0..1, answer : 0..1]]
          /\ \A q \in Requests \ {r} : begins'[q] = begins[q]
      BY <2>1, <2>2 DEF EInv, Sorts
    <2>6. Sorts'
      BY <2>1, <2>4, <2>5 DEF EInv, Sorts
    <2>7. WorkInv'
      BY <2>1, <2>3, <2>4, <2>5 DEF EInv, Sorts, WorkInv, Unbegun, Phase
    <2>8. HearInv'
      BY <2>1, <2>2, <2>3, <2>4 DEF EInv, HearInv, Spoken
    <2> QED
      BY <2>6, <2>7, <2>8 DEF EInv
  <1>2. CASE ~TakesAnswer(r)
    BY <1>2, LinesKept, NoneMoves DEF BeginAnswer, hearing
  <1> QED
    BY <1>1, <1>2

(* The results taken up behind one are marked heard before any turn ran    *)
(* with them.                                                              *)
LEMMA TakeResultKeeps ==
  ASSUME EInv, NEW r \in Requests, TakeResult(r)
  PROVE  EInv'
  <1>1. CASE ResultWaits(r)
    <2> DEFINE behind == {q \in Together(r) : ResultWaits(q)}
    <2>1. /\ req' = [q \in Requests |-> IF q \in behind THEN Heard(req[q])
                                                       ELSE req[q]]
          /\ sender' = [first |-> r, behind |-> behind]
          /\ UNCHANGED <<line, begins, ran>>
      BY <1>1 DEF TakeResult, work
    <2>2. r \notin behind
      BY DEF Together
    <2>3. \A q \in behind \cap Requests : ran[q] = 0
      BY DEF ResultWaits, Phase, EInv, Sorts, HearInv, Spoken
    <2> HIDE DEF behind
    <2>4. \A q \in Requests : Stays(req[q], req'[q])
      BY <2>1, MovesStay DEF EInv, Sorts
    <2>5. \A q \in behind \cap Requests : Spoken(req'[q])
      BY <2>1, <2>2 DEF Spoken, Heard, EInv, Sorts, Records
    <2>6. Sorts'
      BY <2>1, <2>2, <2>4 DEF EInv, Sorts, Stays
    <2>7. WorkInv'
      BY <2>1, <2>4 DEF EInv, WorkInv, Stays, Unbegun, Phase
    <2>8. HearInv'
      BY <2>1, <2>2, <2>3, <2>4, <2>5 DEF EInv, HearInv, Stays, Spoken
    <2> QED
      BY <2>6, <2>7, <2>8 DEF EInv
  <1>2. CASE ~ResultWaits(r)
    BY <1>2, LinesKept, NoneMoves DEF TakeResult, work
  <1> QED
    BY <1>1, <1>2

LEMMA HearResultKeeps ==
  ASSUME EInv, HearResult
  PROVE  EInv'
  <1>1. CASE ResultWaits(sender.first)
    <2> DEFINE f == sender.first
               heard == {f} \cup sender.behind
    <2>1. f \in Requests
      BY DEF HearResult, EInv, Sorts
    <2>2. /\ req' = [req EXCEPT ![f] = Heard(@)]
          /\ ran' = [r \in Requests |-> IF r \in heard THEN ran[r] + 1 ELSE ran[r]]
          /\ sender' = Idle
          /\ UNCHANGED <<line, begins>>
      BY <1>1 DEF HearResult, work
    <2>3. \A q \in heard \cap Requests : ran[q] = 0
      BY <1>1, <2>1 DEF ResultWaits, Phase, EInv, Sorts, HearInv, Spoken
    <2>4. \A q \in Requests : Stays(req[q], req'[q])
      BY <2>2, MovesStay DEF EInv, Sorts
    <2>5. \A q \in heard \cap Requests : Spoken(req'[q])
      <3>1. Spoken(req'[f])
        BY <2>1, <2>2 DEF Spoken, Heard, EInv, Sorts, Records
      <3>2. \A q \in sender.behind \cap Requests : Spoken(req'[q])
        BY <2>1, <2>4 DEF EInv, HearInv, Stays, Spoken
      <3> QED
        BY <3>1, <3>2
    <2> HIDE DEF heard, f
    <2>6. ran' \in [Requests -> 0..1]
      BY <2>2, <2>3 DEF EInv, Sorts
    <2>7. Sorts'
      <3>1. req' \in [Requests -> Records]
        BY <2>2, <2>4 DEF EInv, Sorts, Stays
      <3> QED
        BY <2>2, <2>6, <3>1 DEF EInv, Sorts
    <2>8. WorkInv'
      BY <2>2, <2>4 DEF EInv, WorkInv, Stays, Unbegun, Phase
    <2>9. HearInv'
      BY <2>2, <2>4, <2>5 DEF EInv, HearInv, Stays, Spoken, Idle
    <2> QED
      BY <2>7, <2>8, <2>9 DEF EInv
  <1>2. CASE ~ResultWaits(sender.first)
    BY <1>2, LinesKept, NoneMoves DEF HearResult, work
  <1> QED
    BY <1>1, <1>2

LEMMA RestartKeeps ==
  ASSUME EInv, Restart
  PROVE  EInv'
  <1>1. /\ req' = [r \in Requests |-> Reconciled(req[r])]
        /\ line' = [r \in Requests |-> "none"]
        /\ UNCHANGED <<begins, ran>> /\ sender' = Idle
    BY DEF Restart
  <1>2. \A r \in Requests : Stays(req[r], req'[r])
    BY <1>1, MovesStay DEF EInv, Sorts
  <1>3. req' \in [Requests -> Records]
    BY <1>1, <1>2 DEF Stays
  <1>4. LinesStay
    BY <1>1 DEF LinesStay
  <1> QED
    BY <1>1, <1>2, <1>3, <1>4, Quiet
-----------------------------------------------------------------------------
(* One request's record moves and no line does.                            *)
LEMMA RecordMoves ==
  ASSUME EInv, NEW r \in Requests,
         \/ Send(r) \/ Refuse(r) \/ Claim(r) \/ Settle(r) \/ FailDelivery(r)
         \/ Tell(r) \/ PostCard(r) \/ WithdrawCard(r) \/ AnswerCard(r)
         \/ EndCarried(r) \/ RefuseAnswer(r)
  PROVE  EInv'
  <1>1. req[r] \in Records
    BY DEF EInv, Sorts
  <1>2. line' = line /\ UNCHANGED <<begins, ran, sender>>
    BY DEF Send, Refuse, Claim, Settle, FailDelivery, Tell, PostCard,
           WithdrawCard, AnswerCard, EndCarried, RefuseAnswer, work, hearing
  <1>3. LinesStay
    BY <1>2, LinesKept
  <1>4. \A t : Stays(req[r], t) /\ req' = [req EXCEPT ![r] = t] => EInv'
    BY <1>2, <1>3, OneMoves
  <1>5. CASE Send(r)
    <2>1. PICK kind \in Kinds :
            req' = [req EXCEPT ![r] = [@ EXCEPT !.phase = "queued",
                                                !.intent = kind[1],
                                                !.replyThread = kind[2]]]
      BY <1>5, ZenonT(60) DEF Send
    <2>2. req[r].phase = "unsent"
      BY <1>5 DEF Send, Phase
    <2> QED
      BY <1>1, <1>4, <2>1, <2>2, SentStays
  <1>6. CASE Refuse(r) \/ RefuseAnswer(r) \/ EndCarried(r)
    <2>1. req' = req \/ (r \in Open /\ req' = [req EXCEPT ![r] = Answered(@)])
      BY <1>6 DEF Refuse, RefuseAnswer, EndCarried, Carried, Fail, Answer, Open
    <2>2. CASE req' = req
      BY <1>2, <1>3, <2>2, NoneMoves
    <2>3. CASE r \in Open /\ req' = [req EXCEPT ![r] = Answered(@)]
      BY <1>1, <1>4, <2>3, MovesStay DEF Open, Phase
    <2> QED
      BY <2>1, <2>2, <2>3
  <1>7. CASE Claim(r)
    BY <1>1, <1>4, <1>7, MovesStay DEF Claim
  <1>8. CASE Settle(r)
    BY <1>1, <1>4, <1>8, MovesStay DEF Settle
  <1>9. CASE FailDelivery(r)
    <2>1. req' = [req EXCEPT ![r] = [@ EXCEPT !.answering = FALSE]]
      BY <1>9 DEF FailDelivery
    <2> QED
      BY <1>1, <1>4, <2>1, MovesStay
  <1>10. CASE Tell(r)
    <2>1. req' = [req EXCEPT ![r] = [@ EXCEPT !.owed = "nobody"]]
      BY <1>10 DEF Tell
    <2> QED
      BY <1>1, <1>4, <2>1, MovesStay
  <1>11. CASE PostCard(r) \/ WithdrawCard(r) \/ AnswerCard(r)
    <2>1. PICK g \in {"none", "open", "answered"} :
            req' = [req EXCEPT ![r] = [@ EXCEPT !.gate = g]]
      BY <1>11 DEF PostCard, WithdrawCard, AnswerCard
    <2>2. req[r].gate # "consumed"
      BY <1>11 DEF PostCard, WithdrawCard, AnswerCard
    <2> QED
      BY <1>1, <1>4, <2>1, <2>2, MovesStay
  <1> QED
    BY <1>5, <1>6, <1>7, <1>8, <1>9, <1>10, <1>11

(* A request is handed over, and its line with it; or its line goes.       *)
LEMMA HandingKeeps ==
  ASSUME EInv, NEW r \in Requests, NEW s \in Records, HandedOver(r, s),
         Stays(req[r], s), Stays(req[r], Answered(s)),
         s.phase = "running", ~s.begun, UNCHANGED <<begins, ran, sender>>
  PROVE  EInv'
  <1>1. CASE /\ line' = IF line[r] = "none" THEN [line EXCEPT ![r] = "queued"]
                                            ELSE line
             /\ req' = [req EXCEPT ![r] = s]
    <2>1. LinesStay
      <3>1. Unbegun(req'[r])
        BY <1>1 DEF EInv, Sorts, Unbegun
      <3> QED
        BY <1>1, <3>1, LineSet, LinesKept
    <2> QED
      BY <1>1, <2>1, OneMoves
  <1>2. CASE req' = [req EXCEPT ![r] = Answered(s)] /\ UNCHANGED line
    BY <1>2, OneMoves, LinesKept
  <1> QED
    BY <1>1, <1>2 DEF HandedOver

LEMMA LineMoves ==
  ASSUME EInv, NEW r \in Requests,
         \/ Admit(r) \/ HandOverAgain(r) \/ StopHandoff(r) \/ StopQuestion(r)
         \/ \E clean \in BOOLEAN : EndTurn(r, clean)
  PROVE  EInv'
  <1>1. /\ req[r] \in Records
        /\ UNCHANGED <<begins, ran, sender>>
    BY DEF EInv, Sorts, Admit, HandOverAgain, StopHandoff, StopQuestion,
           EndTurn, hearing
  <1>2. CASE Admit(r)
    <2>1. CASE pair.paused \/ Phase(r) # "queued"
      BY <1>1, <1>2, <2>1, NoneMoves, LinesKept DEF Admit
    <2>2. CASE ~(pair.paused \/ Phase(r) # "queued")
      <3>1. HandedOver(r, Admitted(req[r])) /\ req[r].phase = "queued"
        BY <1>2, <2>2 DEF Admit, Phase
      <3>2. /\ Stays(req[r], Admitted(req[r]))
            /\ Stays(req[r], Answered(Admitted(req[r])))
        BY <1>1, <3>1, MovesStay
      <3>3. /\ Admitted(req[r]) \in Records
            /\ Admitted(req[r]).phase = "running" /\ ~Admitted(req[r]).begun
        BY <1>1, AdmittedIs
      <3> QED
        BY <1>1, <3>1, <3>2, <3>3, HandingKeeps
    <2> QED
      BY <2>1, <2>2
  <1>3. CASE HandOverAgain(r)
    BY <1>1, <1>3, MovesStay, HandingKeeps DEF HandOverAgain, Phase
  <1>4. CASE StopHandoff(r)
    <2>1. /\ req' = [req EXCEPT ![r] = Ended(r, "none")]
          /\ line' = [line EXCEPT ![r] = "none"]
      BY <1>4 DEF StopHandoff
    <2> QED
      BY <1>1, <2>1, EndedStays, LineSet, OneMoves
  <1>5. ASSUME line' = [line EXCEPT ![r] = "none"],
               \/ req' = req
               \/ /\ req[r].phase # "stopped"
                  /\ req' = [req EXCEPT ![r] = Answered(@)]
               \/ /\ req[r].phase # "stopped"
                  /\ req' = [req EXCEPT ![r] = Waiting(@)]
        PROVE  EInv'
    <2>1. LinesStay
      BY <1>5, LineSet
    <2> QED
      BY <1>1, <1>5, <2>1, MovesStay, OneMoves, NoneMoves
  <1>6. CASE StopQuestion(r)
    BY <1>5, <1>6 DEF StopQuestion, Answer, Phase
  <1>7. CASE \E clean \in BOOLEAN : EndTurn(r, clean)
    BY <1>5, <1>7 DEF EndTurn, Phase
  <1> QED
    BY <1>2, <1>3, <1>4, <1>6, <1>7

(* What moves no request.                                                  *)
LEMMA OthersMove ==
  ASSUME EInv,
         \/ \E r \in Requests :
              \/ Wake(r) \/ TakeUp(r) \/ Land(r) \/ HandOverAnswer(r)
              \/ DropLine(r) \/ Interrupt(r) \/ CarryOn(r)
         \/ Retire \/ DropResults \/ ResumeExchange \/ Recover
         \/ \E who \in {"asker", "target"} : CloseEpoch(who)
         \/ UNCHANGED vars
  PROVE  EInv'
  <1> USE DEF durable, calls, work, hearing, bounds, vars
  <1>1. req' = req /\ UNCHANGED <<begins, ran, sender>>
    BY DEF Wake, TakeUp, Land, HandOverAnswer, DropLine, Interrupt, CarryOn,
           Retire, DropResults, ResumeExchange, Recover, CloseEpoch
  <1>2. LinesStay
    <2>1. CASE line' = line
      BY <2>1, LinesKept
    <2>2. ASSUME NEW r \in Requests, DropLine(r) \/ Interrupt(r) \/ CarryOn(r)
          PROVE  LinesStay
      BY <2>2, LineSet DEF DropLine, Interrupt, CarryOn
    <2>3. ASSUME NEW who, CloseEpoch(who) PROVE LinesStay
      BY <2>3 DEF CloseEpoch, EInv, Sorts, LinesStay
    <2> QED
      BY <2>1, <2>2, <2>3
      DEF Wake, TakeUp, Land, HandOverAnswer, Retire, DropResults,
          ResumeExchange, Recover
  <1> QED
    BY <1>1, <1>2, NoneMoves

LEMMA StopsKeep ==
  ASSUME EInv,
         \/ \E r \in Requests : FindRevoked(r) \/ AdmitRevoked(r)
         \/ StopExchange
         \/ \E who \in {"asker", "target"} : RevokeExchanges(who)
  PROVE  EInv'
  BY EndKeeps DEF FindRevoked, AdmitRevoked, Sweep, StopExchange,
                  RevokeExchanges, work, hearing

LEMMA ENext == EInv /\ [Next]_vars => EInv'
  <1> SUFFICES ASSUME EInv, [Next]_vars PROVE EInv'
    OBVIOUS
  <1>1. ASSUME NEW r \in Requests, Desk(r) PROVE EInv'
    BY <1>1, BeginTurnKeeps, BeginAnswerKeeps, TakeResultKeeps, RecordMoves,
       LineMoves, OthersMove, StopsKeep DEF Desk
  <1>2. ASSUME NEW r \in Requests, Faults(r) \/ Agent(r) \/ Person(r) \/ Send(r)
        PROVE  EInv'
    BY <1>2, RecordMoves, LineMoves, OthersMove DEF Faults, Agent, Person
  <1> QED
    BY <1>1, <1>2, HearResultKeeps, RestartKeeps, OthersMove, StopsKeep
       DEF Next

LEMMA EInit == Init => EInv
  BY RequestsAssumption
     DEF Init, EInv, Sorts, WorkInv, HearInv, Unsent, Idle, Records, Phases,
         Unbegun, Spoken, Phase

(* Whatever is delivered again, dropped, stopped, revoked or cut by the    *)
(* end of the process, a request's line and its card's answer begin at     *)
(* most one turn each, and one turn hears its result (begin_request,       *)
(* resume_handoff_answer, begin_exchange_result).                          *)
THEOREM WorkedAndHeardOnce == Spec => []OnceEach
  <1>1. EInv => OnceEach
    BY DEF EInv, Sorts, OnceEach, WorkedOnce, HeardOnce
  <1> QED
    BY <1>1, EInit, ENext, PTL DEF Spec
-----------------------------------------------------------------------------
PairInv == pair \in [exchanges : 0..Cap, paused : BOOLEAN] /\ PausedAtCap

(* One message more, of a pair that is not paused.                         *)
LEMMA OneMoreMessage ==
  ASSUME PairInv, ~pair.paused, NEW n \in {pair.exchanges, pair.exchanges + 1},
         pair' = [exchanges |-> n, paused |-> n >= Cap]
  PROVE  PairInv'
  <1>1. pair.exchanges \in 0..Cap /\ pair.exchanges # Cap /\ Cap \in Nat
    BY BoundsAssumption DEF PairInv, PausedAtCap
  <1>2. n \in 0..Cap /\ (n >= Cap <=> n = Cap)
    BY <1>1
  <1>3. pair' \in [exchanges : 0..Cap, paused : BOOLEAN]
    BY <1>2
  <1>4. PausedAtCap'
    BY <1>2 DEF PausedAtCap
  <1> QED
    BY <1>3, <1>4 DEF PairInv

LEMMA PairNext == PairInv /\ [Next]_vars => PairInv'
  <1> SUFFICES ASSUME PairInv, [Next]_vars PROVE PairInv'
    OBVIOUS
  <1> USE DEF durable
  <1>1. CASE pair' = pair
    BY <1>1 DEF PairInv, PausedAtCap
  <1>2. CASE Released
    BY <1>2, BoundsAssumption DEF Released, PairInv, PausedAtCap
  <1>3. ASSUME NEW r \in Requests, Admit(r) PROVE PairInv'
    <2>1. CASE pair.paused \/ Phase(r) # "queued"
      BY <1>1, <1>3, <2>1 DEF Admit
    <2>2. CASE ~(pair.paused \/ Phase(r) # "queued")
      <3>1. PICK n \in {pair.exchanges, pair.exchanges + 1} :
              pair' = [exchanges |-> n, paused |-> n >= Cap]
        BY <1>3, <2>2 DEF Admit, PairInv
      <3> QED
        BY <2>2, <3>1, OneMoreMessage
    <2> QED
      BY <2>1, <2>2
  <1>4. ASSUME NEW r \in Requests, Claim(r) PROVE PairInv'
    BY <1>1, <1>4, OneMoreMessage DEF Claim
  <1>5. ASSUME NEW r \in Requests,
               Desk(r) \/ Faults(r) \/ Agent(r) \/ Person(r) \/ Send(r)
        PROVE  PairInv'
    <2>1. CASE Admit(r) \/ Claim(r)
      BY <1>3, <1>4, <2>1
    <2>2. CASE ~(Admit(r) \/ Claim(r))
      <3>1. pair' = pair
        BY <1>5, <2>2
        DEF Desk, Faults, Agent, Person, Send, Wake, FindRevoked, TakeUp,
            AdmitRevoked, HandOverAgain, HandOverAnswer, Land, Settle, Tell,
            BeginTurn, BeginAnswer, TakeResult, Refuse, FailDelivery, DropLine,
            RefuseAnswer, EndTurn, PostCard, WithdrawCard, StopHandoff,
            StopQuestion, Interrupt, CarryOn, EndCarried, AnswerCard
      <3> QED
        BY <1>1, <3>1
    <2> QED
      BY <2>1, <2>2
  <1>6. CASE ResumeExchange \/ StopExchange
    BY <1>2, <1>6 DEF ResumeExchange, StopExchange
  <1>7. CASE \/ Retire \/ HearResult \/ DropResults \/ Restart \/ Recover
            \/ \E who \in {"asker", "target"} :
                 CloseEpoch(who) \/ RevokeExchanges(who)
            \/ UNCHANGED vars
    BY <1>1, <1>7
    DEF Retire, HearResult, DropResults, Restart, Recover, CloseEpoch,
        RevokeExchanges, vars
  <1> QED
    BY <1>5, <1>6, <1>7 DEF Next

(* A pair is paused exactly while it has as many messages as it may, until *)
(* the person answers, for any cap (exchange_request, admit_request,       *)
(* change_exchange).                                                       *)
THEOREM PausesAtItsCap == Spec => []PausedAtCap
  <1>1. Init => PairInv
    BY BoundsAssumption DEF Init, PairInv, PausedAtCap
  <1>2. PairInv => PausedAtCap
    BY DEF PairInv
  <1> QED
    BY <1>1, <1>2, PairNext, PTL DEF Spec
-----------------------------------------------------------------------------
(* A reply on its way to its sender.                                       *)
Sending(s) == s.phase = "reply" /\ s.sending = TRUE

Landed(r) == worker = [pc |-> "landed", id |-> r]
Delivering(r) == worker = [pc |-> "deliver", id |-> r]

(* An admitting task has a request that waits for it, or was stopped.      *)
TaskInv == \A r \in Requests : task[r] # "none" => Phase(r) \in {"queued", "stopped"}

(* What waits to be heard, or was, is on the sender's tape.                *)
LandInv == \A r \in Requests :
  \/ r \in queue \cup dispatched \/ Landed(r)
  \/ r = sender.first \/ r \in sender.behind \/ ran[r] > 0
  => tape[r] # "none"

(* What is known of a request whose delivery was neither cut nor failed.   *)
Says(r) ==
  /\ tape[r] # "none" => \/ Phase(r) = "reply" /\ Landed(r)
                         \/ Phase(r) \in {"done", "stopped"}
  /\ worker.id = r => \/ Sending(req[r])
                      \/ Phase(r) = "stopped" /\ req[r].answering = TRUE
  /\ Sending(req[r]) => worker.id = r
  /\ req[r].answering = TRUE => worker.id = r /\ Phase(r) = "stopped"
  /\ Delivering(r) => tape[r] = "none"
  /\ told[r] # {} => /\ Phase(r) = "stopped" /\ ran[r] = 0
                     /\ r \notin sender.behind
  /\ Phase(r) = "stopped" /\ (ran[r] > 0 \/ r \in sender.behind)
       => req[r].owed = "nobody" \/ worker.id = r
  /\ Phase(r) = "stopped" /\ req[r].owed = "nobody" /\ worker.id # r
       => told[r] # {} \/ ran[r] > 0 \/ (r \in overtaken /\ tape[r] # "none")

SaysInv == \A r \in Requests \ unsettled : Says(r)
Jobs == {Off, On} \cup [pc : {"deliver", "landed"}, id : Requests]

RestTypes ==
  /\ tape \in [Requests -> {"none", "sent", "read"}]
  /\ told \in [Requests -> SUBSET {"notice", "note", "failure"}]
  /\ lease \in [Requests -> {"none", "current", "asker", "target"}]
  /\ task \in [Requests -> {"none", "wake", "auth"}]
  /\ worker \in Jobs
  /\ answer \in [Requests -> {"none", "queued"}]
  /\ queue \subseteq Requests /\ dispatched \subseteq Requests
  /\ sender = Idle \/ sender \in [first : Requests, behind : SUBSET Requests]
  /\ revoking \subseteq {"asker", "target"}
  /\ recovered \in BOOLEAN
  /\ taken \subseteq Requests /\ skipped \subseteq Requests
  /\ unsettled \subseteq Requests /\ overtaken \subseteq Requests
  /\ events \in 0..MaxEvents

LEMMA AwakeIs == RestTypes => Awake \in Jobs
  BY DEF RestTypes, Awake, Jobs

LEMMA CountedIs ==
  ASSUME RestTypes, events' = events \/ Counted
  PROVE  events' \in 0..MaxEvents
  BY BoundsAssumption DEF RestTypes, Counted

LEMMA EndTypes ==
  ASSUME RestTypes, NEW S, NEW revoked, End(S, revoked)
  PROVE  /\ lease' \in [Requests -> {"none", "current", "asker", "target"}]
         /\ told' \in [Requests -> SUBSET {"notice", "note", "failure"}]
  BY DEF RestTypes, End

LEMMA EventsStep ==
  ASSUME RestTypes, [Next]_vars
  PROVE  events' \in 0..MaxEvents
<1> USE DEF bounds
<1>1. ASSUME NEW r \in Requests, Desk(r) \/ Send(r)
      PROVE  events' = events \/ Counted
  <2>1. CASE Admit(r) \/ HandOverAgain(r)
    BY <2>1 DEF Admit, HandOverAgain, HandedOver, Bounded
  <2>2. CASE ~(Admit(r) \/ HandOverAgain(r))
    BY <1>1, <2>2
    DEF Desk, Send, Wake, FindRevoked, TakeUp, AdmitRevoked,
        HandOverAnswer, Claim, Land, Settle, Tell, BeginTurn, BeginAnswer,
        TakeResult
  <2> QED BY <2>1, <2>2
<1>2. ASSUME NEW r \in Requests, Faults(r) \/ Agent(r) \/ Person(r)
      PROVE  events' = events \/ Counted
  BY <1>2
  DEF Faults, Agent, Person, Refuse, FailDelivery, DropLine, RefuseAnswer,
      EndTurn, PostCard, WithdrawCard, StopHandoff, StopQuestion, Interrupt,
      CarryOn, EndCarried, AnswerCard, Bounded
<1>3. ASSUME NEW who \in {"asker", "target"},
             CloseEpoch(who) \/ RevokeExchanges(who)
      PROVE  events' = events \/ Counted
  BY <1>3 DEF CloseEpoch, RevokeExchanges, Bounded
<1>5. ASSUME \/ Retire \/ HearResult \/ DropResults \/ ResumeExchange
             \/ StopExchange
      PROVE  events' = events \/ Counted
  BY <1>5
  DEF Retire, HearResult, DropResults, ResumeExchange, StopExchange, Bounded
<1>6. ASSUME Restart \/ Recover \/ UNCHANGED vars
      PROVE  events' = events \/ Counted
  BY <1>6 DEF Restart, Recover, vars
<1>4. events' = events \/ Counted
  BY <1>1, <1>2, <1>3, <1>5, <1>6 DEF Next
<1> QED BY <1>4, CountedIs

LEMMA TypesStep ==
  ASSUME RestTypes, EInv, [Next]_vars
  PROVE  RestTypes'
<1> USE DEF durable, calls, work, hearing, bounds
<1>e. events' \in 0..MaxEvents
  BY EventsStep
<1>a. Awake \in Jobs /\ On \in Jobs /\ Off \in Jobs
  BY AwakeIs DEF Jobs
<1> USE DEF RestTypes
<1>1. ASSUME NEW r \in Requests,
             \/ DropLine(r) \/ Interrupt(r) \/ CarryOn(r) \/ EndCarried(r)
             \/ PostCard(r) \/ WithdrawCard(r) \/ HandOverAgain(r)
             \/ (\E clean \in BOOLEAN : EndTurn(r, clean)) \/ StopQuestion(r)
             \/ BeginTurn(r)
      PROVE  RestTypes'
  BY <1>1, <1>e
  DEF DropLine, Interrupt, CarryOn, EndCarried, PostCard, WithdrawCard,
      HandOverAgain, HandedOver, EndTurn, StopQuestion, BeginTurn, Bounded
<1>2. ASSUME NEW r \in Requests,
             \/ AnswerCard(r) \/ HandOverAnswer(r) \/ BeginAnswer(r)
             \/ RefuseAnswer(r)
      PROVE  RestTypes'
  BY <1>2, <1>e DEF AnswerCard, HandOverAnswer, BeginAnswer, RefuseAnswer
<1>3. ASSUME NEW r \in Requests, Send(r) \/ Wake(r) \/ TakeUp(r) \/ Refuse(r)
      PROVE  RestTypes'
  <2>1. CASE Send(r)
    BY <1>e, <2>1 DEF Send
  <2>2. CASE Wake(r) \/ TakeUp(r) \/ Refuse(r)
    BY <1>a, <1>e, <2>2 DEF Wake, TakeUp, Refuse, EndTask
  <2> QED BY <1>3, <2>1, <2>2
<1>4. ASSUME NEW r \in Requests, Admit(r) PROVE RestTypes'
  <2>1. /\ UNCHANGED <<tape, told, lease, revoking, recovered, answer, queue,
                       dispatched, sender, taken, skipped>>
        /\ task' = [task EXCEPT ![r] = "none"] /\ worker' = Awake
        /\ unsettled' = unsettled /\ overtaken' = overtaken
    BY <1>4 DEF Admit, EndTask, HandedOver, Bounded
  <2> QED BY <1>a, <1>e, <2>1
<1>5. ASSUME NEW r \in Requests, Claim(r) \/ Land(r) \/ Settle(r)
      PROVE  RestTypes'
  <2>1. CASE Claim(r)
    BY <1>e, <2>1 DEF Claim, Jobs
  <2>2. CASE Land(r)
    <3>1. worker' = [pc |-> "landed", id |-> r]
      BY <2>2 DEF Land
    <3>2. worker' \in Jobs
      BY <3>1 DEF Jobs
    <3> QED BY <1>e, <2>2, <3>2 DEF Land, Dispatch
  <2>3. CASE Settle(r)
    BY <1>a, <1>e, <2>3 DEF Settle
  <2> QED BY <1>5, <2>1, <2>2, <2>3
<1>6. ASSUME NEW r \in Requests, FailDelivery(r) \/ Tell(r) \/ StopHandoff(r)
      PROVE  RestTypes'
  BY <1>a, <1>e, <1>6 DEF FailDelivery, Tell, StopHandoff
<1>7. ASSUME NEW r \in Requests, TakeResult(r) PROVE RestTypes'
  <2>1. CASE ResultWaits(r)
    <3>1. PICK behind \in SUBSET Requests :
            /\ sender' = [first |-> r, behind |-> behind]
            /\ taken' = taken \cup behind
            /\ queue' \subseteq queue
      BY <1>7, <2>1 DEF TakeResult, Together
    <3> QED BY <1>7, <1>e, <3>1 DEF TakeResult
  <2>2. CASE ~ResultWaits(r)
    BY <1>7, <1>e, <2>2 DEF TakeResult
  <2> QED BY <2>1, <2>2
<1>8. CASE HearResult
  <2>1. sender.first \in Requests /\ sender.behind \subseteq Requests
    BY <1>8 DEF HearResult
  <2> QED BY <1>e, <1>8, <2>1 DEF HearResult
<1>9. ASSUME NEW r \in Requests, FindRevoked(r) \/ AdmitRevoked(r)
      PROVE  RestTypes'
  <2>1. /\ lease' \in [Requests -> {"none", "current", "asker", "target"}]
        /\ told' \in [Requests -> SUBSET {"notice", "note", "failure"}]
    BY <1>9, EndTypes DEF FindRevoked, AdmitRevoked, Sweep
  <2>2. CASE FindRevoked(r)
    BY <1>e, <2>1, <2>2 DEF FindRevoked
  <2>3. CASE AdmitRevoked(r)
    BY <1>a, <1>e, <2>1, <2>3 DEF AdmitRevoked, EndTask
  <2> QED BY <1>9, <2>2, <2>3
<1>10. CASE StopExchange \/ \E who \in {"asker", "target"} : RevokeExchanges(who)
  <2>1. /\ lease' \in [Requests -> {"none", "current", "asker", "target"}]
        /\ told' \in [Requests -> SUBSET {"notice", "note", "failure"}]
    BY <1>10, EndTypes DEF StopExchange, RevokeExchanges
  <2>2. worker' \in Jobs
    BY <1>10, <1>a DEF StopExchange, RevokeExchanges, WakeOwed
  <2> QED BY <1>10, <1>e, <2>1, <2>2 DEF StopExchange, RevokeExchanges, Bounded
<1>11. CASE Retire \/ DropResults \/ ResumeExchange \/ Recover
  BY <1>11, <1>a, <1>e DEF Retire, DropResults, ResumeExchange, Recover, Bounded
<1>12. ASSUME NEW who \in {"asker", "target"}, CloseEpoch(who) PROVE RestTypes'
  BY <1>12, <1>e DEF CloseEpoch, Bounded
<1>13. CASE Restart
  <2>1. worker.id \in Requests \cup {None}
    BY DEF Jobs, Off, On
  <2> QED BY <1>a, <1>e, <1>13, <2>1 DEF Restart
<1>14. CASE UNCHANGED vars
  BY <1>14 DEF vars
<1> QED
  BY <1>1, <1>2, <1>3, <1>4, <1>5, <1>6, <1>7, <1>8, <1>9, <1>10, <1>11,
     <1>12, <1>13, <1>14 DEF Next, Desk, Faults, Agent, Person
-----------------------------------------------------------------------------
(* A request's row of what the sender's telling depends on.                *)
SameRow(s, t) == /\ t.phase = s.phase
                 /\ (t.sending = TRUE <=> s.sending = TRUE)
                 /\ (t.answering = TRUE <=> s.answering = TRUE)
                 /\ t.owed = s.owed

(* Phases in which nothing has come of a request yet.                      *)
Early(s) == s.phase \notin {"reply", "done", "stopped"}

Moves(s, t) ==
  \/ SameRow(s, t)
  \/ /\ Early(s) /\ t.phase \notin {"done", "stopped"} /\ ~Sending(t)
     /\ (t.answering = TRUE <=> s.answering = TRUE)

SameJob == worker' = worker \/ {worker, worker'} \subseteq {On, Off}

(* Steps in which nothing is told, delivered or heard.                     *)
Calm == /\ \A q \in Requests : Moves(req[q], req'[q])
        /\ UNCHANGED <<tape, told, ran, unsettled, overtaken>>
        /\ SameJob
        /\ sender' \in {sender, Idle}

LEMMA CalmSays ==
  ASSUME Calm, NEW q \in Requests \ unsettled, Says(q)
  PROVE  Says(q)'
<1> USE RequestsAssumption
    DEF Calm, Says, Moves, SameRow, Early, Sending, Landed, Delivering, Phase
<1>1. sender'.behind \subseteq sender.behind
  BY DEF Idle
<1>2. /\ worker'.id = q <=> worker.id = q
      /\ Landed(q)' <=> Landed(q)
      /\ Delivering(q)' <=> Delivering(q)
  <2>1. On.id # q /\ Off.id # q /\ On.pc \notin {"landed", "deliver"}
        /\ Off.pc \notin {"landed", "deliver"}
    BY DEF On, Off
  <2> QED BY <2>1 DEF SameJob
<1> QED BY <1>1, <1>2

LEMMA RowMoves ==
  ASSUME NEW s \in Records
  PROVE  /\ Moves(s, s) /\ Moves(s, Heard(s))
         /\ \A g \in {"none", "open", "answered", "consumed"} :
              Moves(s, [s EXCEPT !.gate = g])
         /\ Early(s) => /\ Moves(s, Answered(s)) /\ Moves(s, Waiting(s))
                        /\ Moves(s, Admitted(s)) /\ Moves(s, Begun(s))
                        /\ Moves(s, Answered(Admitted(s)))
<1> USE DEF Records, Phases, Moves, SameRow, Early, Sending
<1>1. Moves(s, s)
  OBVIOUS
<1>2. Moves(s, Heard(s))
  BY DEF Heard
<1>3. \A g \in {"none", "open", "answered", "consumed"} :
        Moves(s, [s EXCEPT !.gate = g])
  OBVIOUS
<1>4. Early(s) => Moves(s, Answered(s))
  BY DEF Answered
<1>5. Early(s) => Moves(s, Waiting(s))
  BY DEF Waiting
<1>6. Early(s) => Moves(s, Admitted(s))
  BY DEF Admitted
<1>7. Early(s) => Moves(s, Begun(s))
  BY DEF Begun
<1>8. Early(s) => Moves(s, Answered(Admitted(s)))
  BY DEF Answered, Admitted
<1> QED BY <1>1, <1>2, <1>3, <1>4, <1>5, <1>6, <1>7, <1>8, ZenonT(60)

LEMMA SentMoves ==
  ASSUME NEW s \in Records, s.phase = "unsent", NEW kind \in Kinds
  PROVE  Moves(s, [s EXCEPT !.phase = "queued", !.intent = kind[1],
                            !.replyThread = kind[2]])
<1>1. kind[1] \in {"ask", "handoff"} /\ kind[2] \in BOOLEAN
  BY RequestsAssumption
<1>2. ASSUME NEW i \in {"ask", "handoff"}, NEW b \in BOOLEAN
      PROVE  Moves(s, [s EXCEPT !.phase = "queued", !.intent = i,
                                !.replyThread = b])
  BY DEF Records, Phases, Moves, SameRow, Early, Sending
<1> QED BY <1>1, <1>2

LEMMA OneRow ==
  ASSUME EInv, NEW r \in Requests, NEW t, Moves(req[r], t),
         req' = [req EXCEPT ![r] = t]
  PROVE  \A q \in Requests : Moves(req[q], req'[q])
BY RowMoves DEF EInv, Sorts

LEMMA NoRow ==
  ASSUME EInv, req' = req
  PROVE  \A q \in Requests : Moves(req[q], req'[q])
BY RowMoves DEF EInv, Sorts

LEMMA AwakeJob ==
  ASSUME RestTypes, worker' = Awake
  PROVE  SameJob
BY RequestsAssumption DEF RestTypes, Awake, SameJob, Jobs, On, Off

(* Those of the desk, the agents and the person.                           *)
LEMMA CalmSteps ==
  ASSUME EInv, RestTypes, TaskInv, NEW r \in Requests,
         \/ Send(r) \/ Wake(r) \/ TakeUp(r) \/ Refuse(r) \/ Admit(r)
         \/ HandOverAgain(r) \/ DropLine(r) \/ BeginTurn(r)
         \/ (\E clean \in BOOLEAN : EndTurn(r, clean)) \/ StopQuestion(r)
         \/ Interrupt(r) \/ CarryOn(r) \/ EndCarried(r) \/ PostCard(r)
         \/ WithdrawCard(r) \/ AnswerCard(r) \/ HandOverAnswer(r)
         \/ BeginAnswer(r) \/ RefuseAnswer(r)
  PROVE  Calm
<1> USE DEF durable, calls, work, hearing, bounds
<1>1. req[r] \in Records
  BY DEF EInv, Sorts
<1>2. UNCHANGED <<tape, told, ran, unsettled, overtaken, sender>>
  <2>1. CASE Admit(r) \/ HandOverAgain(r)
    BY <2>1 DEF Admit, HandOverAgain, HandedOver, Bounded
  <2>2. CASE \/ Send(r) \/ Wake(r) \/ TakeUp(r) \/ Refuse(r) \/ DropLine(r)
             \/ BeginTurn(r)
             \/ (\E clean \in BOOLEAN : EndTurn(r, clean)) \/ StopQuestion(r)
    BY <2>2 DEF Send, Wake, TakeUp, Refuse, DropLine, BeginTurn, EndTurn,
                StopQuestion, Bounded
  <2>3. CASE \/ Interrupt(r) \/ CarryOn(r) \/ EndCarried(r) \/ PostCard(r)
             \/ WithdrawCard(r) \/ AnswerCard(r) \/ HandOverAnswer(r)
             \/ BeginAnswer(r) \/ RefuseAnswer(r)
    BY <2>3 DEF Interrupt, CarryOn, EndCarried, PostCard, WithdrawCard,
                AnswerCard, HandOverAnswer, BeginAnswer, RefuseAnswer, Bounded
  <2> QED BY <2>1, <2>2, <2>3
<1>3. SameJob
  <2>1. CASE Wake(r) \/ Refuse(r) \/ Admit(r)
    BY <2>1, AwakeJob DEF Wake, Refuse, Admit, EndTask
  <2>2. CASE worker' = worker
    BY <2>2 DEF SameJob
  <2> QED
    BY <2>1, <2>2
    DEF Send, TakeUp, HandOverAgain, DropLine, BeginTurn, EndTurn,
        StopQuestion, Interrupt, CarryOn, EndCarried, PostCard, WithdrawCard,
        AnswerCard, HandOverAnswer, BeginAnswer, RefuseAnswer
<1>4. \A q \in Requests : Moves(req[q], req'[q])
  <2>1. CASE Send(r)
    <3>1. PICK kind \in Kinds :
            req' = [req EXCEPT ![r] = [@ EXCEPT !.phase = "queued",
                                                !.intent = kind[1],
                                                !.replyThread = kind[2]]]
      BY <2>1, ZenonT(60) DEF Send
    <3>2. req[r].phase = "unsent"
      BY <2>1 DEF Send, Phase
    <3>3. Moves(req[r], [req[r] EXCEPT !.phase = "queued", !.intent = kind[1],
                                       !.replyThread = kind[2]])
      BY <1>1, <3>2, SentMoves
    <3> QED BY <3>1, <3>3, OneRow
  <2>2. CASE req' = req
    BY <2>2, NoRow
  <2>3. ASSUME Early(req[r]), req' = [req EXCEPT ![r] = Answered(@)]
        PROVE  \A q \in Requests : Moves(req[q], req'[q])
    BY <1>1, <2>3, RowMoves, OneRow
  <2>4. CASE Refuse(r) \/ RefuseAnswer(r) \/ EndCarried(r) \/ StopQuestion(r)
    <3>1. req' = req \/ (Early(req[r]) /\ req' = [req EXCEPT ![r] = Answered(@)])
      BY <2>4 DEF Refuse, RefuseAnswer, EndCarried, StopQuestion, Carried, Fail,
                  Answer, Open, Early, Phase, TaskInv, TakesAnswer
    <3> QED BY <2>2, <2>3, <3>1
  <2>5. CASE \E clean \in BOOLEAN : EndTurn(r, clean)
    <3>1. \/ req' = req
          \/ Early(req[r]) /\ req' = [req EXCEPT ![r] = Answered(@)]
          \/ Early(req[r]) /\ req' = [req EXCEPT ![r] = Waiting(@)]
      BY <2>5 DEF EndTurn, Early, Phase
    <3> QED BY <1>1, <2>2, <2>3, <3>1, RowMoves, OneRow
  <2>6. CASE Admit(r) \/ HandOverAgain(r)
    <3>1. \/ req' = req
          \/ Early(req[r]) /\ req' = [req EXCEPT ![r] = Admitted(@)]
          \/ Early(req[r]) /\ req' = [req EXCEPT ![r] = Answered(Admitted(@))]
          \/ Early(req[r]) /\ req' = [req EXCEPT ![r] = Answered(@)]
          \/ req' = [req EXCEPT ![r] = req[r]]
      BY <2>6 DEF Admit, HandOverAgain, HandedOver, Early, Phase
    <3> QED BY <1>1, <2>2, <2>3, <3>1, RowMoves, OneRow
  <2>7. CASE PostCard(r) \/ WithdrawCard(r) \/ AnswerCard(r)
    <3>1. PICK g \in {"none", "open", "answered", "consumed"} :
            req' = [req EXCEPT ![r] = [@ EXCEPT !.gate = g]]
      BY <2>7 DEF PostCard, WithdrawCard, AnswerCard
    <3> QED BY <1>1, <3>1, RowMoves, OneRow
  <2>8. CASE BeginTurn(r)
    <3>1. \/ req' = req
          \/ Early(req[r]) /\ req' = [req EXCEPT ![r] = Begun(@)]
      BY <2>8 DEF BeginTurn, Early, Phase
    <3> QED BY <1>1, <2>2, <3>1, RowMoves, OneRow
  <2>9. CASE BeginAnswer(r)
    <3>1. \/ req' = req
          \/ Early(req[r])
             /\ req' = [req EXCEPT ![r] = [Begun(@) EXCEPT !.gate = "consumed"]]
      BY <2>9 DEF BeginAnswer, TakesAnswer, Early, Phase
    <3>2. Early(req[r]) =>
            Moves(req[r], [Begun(req[r]) EXCEPT !.gate = "consumed"])
      BY <1>1 DEF Records, Phases, Moves, SameRow, Early, Sending, Begun
    <3> QED BY <2>2, <3>1, <3>2, OneRow
  <2> QED
    BY <2>1, <2>2, <2>4, <2>5, <2>6, <2>7, <2>8, <2>9
    DEF Wake, TakeUp, DropLine, Interrupt, CarryOn, HandOverAnswer
<1> QED BY <1>2, <1>3, <1>4 DEF Calm

LEMMA OtherCalm ==
  ASSUME EInv, RestTypes,
         \/ Retire \/ DropResults \/ ResumeExchange \/ Recover
         \/ \E who \in {"asker", "target"} : CloseEpoch(who)
         \/ \E r \in Requests : TakeResult(r) /\ ~ResultWaits(r)
         \/ HearResult /\ ~ResultWaits(sender.first)
         \/ UNCHANGED vars
  PROVE  Calm
<1> USE DEF durable, calls, work, hearing, bounds
<1>1. req' = req /\ UNCHANGED <<tape, told, ran, unsettled, overtaken>>
      /\ sender' \in {sender, Idle}
  BY DEF Retire, DropResults, ResumeExchange, Recover, CloseEpoch, TakeResult,
         HearResult, Bounded, vars
<1>2. SameJob
  <2>1. CASE Recover
    BY <2>1, AwakeJob DEF Recover
  <2>2. CASE ~Recover
    BY <2>2 DEF SameJob, Retire, DropResults, ResumeExchange, CloseEpoch,
                TakeResult, HearResult, vars
  <2> QED BY <2>1, <2>2
<1> QED BY <1>1, <1>2, NoRow DEF Calm
-----------------------------------------------------------------------------
OneId == \A r \in Requests : /\ On.id # r /\ Off.id # r
                             /\ Idle.behind = {} /\ On # Off
                             /\ On.pc \notin {"deliver", "landed"}
                             /\ Off.pc \notin {"deliver", "landed"}

LEMMA Ids == OneId
BY RequestsAssumption DEF OneId, On, Off, Idle

LEMMA ClaimRow ==
  ASSUME NEW s \in Records
  PROVE  /\ Claimed(s).phase = s.phase /\ Claimed(s).sending = TRUE
         /\ Claimed(s).answering = s.answering
BY DEF Claimed, Records, Phases

LEMMA ClaimSays ==
  ASSUME EInv, NEW r \in Requests, Claim(r), NEW q \in Requests \ unsettled,
         Says(q)
  PROVE  Says(q)'
<1> USE DEF work, hearing, bounds
<1>1. /\ worker = On /\ Phase(r) = "reply"
      /\ req' = [req EXCEPT ![r] = Claimed(@)]
      /\ worker' = [pc |-> "deliver", id |-> r]
      /\ UNCHANGED <<tape, told, ran, sender, overtaken>>
  BY DEF Claim, Looks
<1>2. worker.id # q /\ ~Landed(q) /\ ~Delivering(q)
  BY <1>1, Ids DEF OneId, Landed, Delivering
<1>3. worker'.pc = "deliver" /\ worker'.id = r /\ ~Landed(q)'
  BY <1>1 DEF Landed
<1>4. CASE q # r
  <2>1. req'[q] = req[q] /\ worker'.id # q /\ ~Delivering(q)'
    BY <1>1, <1>3, <1>4 DEF EInv, Sorts, Delivering
  <2> QED BY <1>1, <1>2, <1>3, <2>1 DEF Says, Phase
<1>5. CASE q = r
  <2>1. /\ req'[r].phase = "reply" /\ req'[r].sending = TRUE
        /\ req'[r].answering = req[r].answering
    BY <1>1, ClaimRow DEF EInv, Sorts, Phase
  <2>2. tape[q] = "none" /\ req[q].answering # TRUE /\ told[q] = {}
    BY <1>1, <1>2, <1>5 DEF Says
  <2> QED BY <1>1, <1>3, <1>5, <2>1, <2>2 DEF Says, Phase, Sending
<1> QED BY <1>4, <1>5

LEMMA LandSays ==
  ASSUME EInv, RestTypes, NEW r \in Requests, Land(r),
         NEW q \in Requests \ unsettled, Says(q)
  PROVE  Says(q)'
<1> USE DEF work, hearing, bounds
<1>1. /\ worker = [pc |-> "deliver", id |-> r] /\ req' = req
      /\ worker' = [pc |-> "landed", id |-> r]
      /\ tape' = [tape EXCEPT ![r] = IF @ = "none" THEN "sent" ELSE @]
      /\ UNCHANGED <<told, ran, sender, overtaken>>
  BY DEF Land, Dispatch
<1>2. worker.id = r /\ worker'.id = r /\ worker.pc = "deliver"
      /\ worker'.pc = "landed"
  BY <1>1
<1>3. CASE q # r
  <2>1. tape'[q] = tape[q] /\ worker.id # q /\ worker'.id # q
        /\ ~Landed(q) /\ ~Landed(q)' /\ ~Delivering(q)'
    BY <1>1, <1>2, <1>3 DEF RestTypes, Landed, Delivering
  <2> QED BY <1>1, <2>1 DEF Says, Phase
<1>4. CASE q = r
  <2>1. Landed(q)' /\ ~Delivering(q)' /\ worker'.id = q /\ worker.id = q
    BY <1>1, <1>2, <1>4 DEF Landed, Delivering
  <2> QED BY <1>1, <1>4, <2>1 DEF Says, Phase, Sending
<1> QED BY <1>3, <1>4

LEMMA DeliveredRow ==
  ASSUME NEW s \in Records
  PROVE  /\ s.phase = "reply" => /\ Delivered(s).phase = "done"
                                 /\ Delivered(s).answering = s.answering
         /\ s.phase # "reply" /\ s.answering = TRUE =>
              /\ Delivered(s).phase = s.phase
              /\ Delivered(s).answering = FALSE
              /\ Delivered(s).owed = "nobody"
BY DEF Delivered, Records, Phases

LEMMA SettleSays ==
  ASSUME EInv, LandInv, NEW r \in Requests, Settle(r),
         NEW q \in Requests \ unsettled, Says(q)
  PROVE  Says(q)'
<1> USE DEF work, hearing, bounds
<1>1. /\ worker = [pc |-> "landed", id |-> r]
      /\ req' = [req EXCEPT ![r] = Delivered(@)]
      /\ worker' = On
      /\ UNCHANGED <<tape, told, ran, sender>>
      /\ overtaken' = IF Phase(r) = "stopped" /\ ran[r] = 0
                      THEN overtaken \cup {r} ELSE overtaken
  BY DEF Settle
<1>2. worker'.id # q /\ ~Landed(q)' /\ ~Delivering(q)' /\ worker.id = r
  BY <1>1, Ids DEF OneId, Landed, Delivering
<1>3. CASE q # r
  <2>1. req'[q] = req[q] /\ worker.id # q /\ ~Landed(q)
    BY <1>1, <1>2, <1>3 DEF EInv, Sorts, Landed
  <2> QED BY <1>1, <1>2, <2>1 DEF Says, Phase
<1>4. CASE q = r
  <2>1. req'[r] = Delivered(req[r]) /\ req[r] \in Records
    BY <1>1 DEF EInv, Sorts
  <2>2. tape[q] # "none"
    BY <1>1, <1>4 DEF LandInv, Landed
  <2>3. CASE req[r].phase = "reply"
    <3>1. /\ req'[r].phase = "done" /\ req'[r].answering = req[r].answering
          /\ req[r].answering # TRUE /\ told[r] = {}
      BY <1>4, <2>1, <2>3, DeliveredRow DEF Says, Phase
    <3> QED BY <1>1, <1>2, <1>4, <2>2, <3>1 DEF Says, Phase, Sending
  <2>4. CASE req[r].phase = "stopped" /\ req[r].answering = TRUE
    <3>2. ran[r] > 0 \/ r \in overtaken'
      BY <1>1, <2>4 DEF EInv, Sorts, Phase
    <3>1. /\ req'[r].phase = "stopped" /\ req'[r].answering = FALSE
          /\ req'[r].owed = "nobody"
      BY <2>1, <2>4, DeliveredRow
    <3> QED BY <1>1, <1>2, <1>4, <2>2, <3>1, <3>2 DEF Says, Phase, Sending
  <2> QED BY <1>2, <1>4, <2>3, <2>4 DEF Says, Sending, Phase
<1> QED BY <1>3, <1>4

LEMMA UnansweringRow ==
  ASSUME NEW s \in Records, NEW t, t = [s EXCEPT !.answering = FALSE]
  PROVE  /\ t.phase = s.phase /\ t.owed = s.owed /\ t.answering = FALSE
         /\ t.sending = s.sending
BY DEF Records, Phases

LEMMA FailSays ==
  ASSUME EInv, RestTypes, LandInv, NEW r \in Requests, FailDelivery(r),
         NEW q \in Requests \ unsettled', q \notin unsettled, Says(q)
  PROVE  Says(q)'
<1> USE DEF work, hearing, bounds
<1>1. /\ worker = [pc |-> "deliver", id |-> r]
      /\ req' = [req EXCEPT ![r] = [@ EXCEPT !.answering = FALSE]]
      /\ worker' = On
      /\ UNCHANGED <<tape, ran, sender, overtaken>>
      /\ told' = IF Phase(r) = "stopped" /\ req[r].owed = "nobody"
                 THEN [told EXCEPT ![r] = @ \cup {"notice"}] ELSE told
  BY DEF FailDelivery
<1>2. worker'.id # q /\ ~Landed(q)' /\ ~Delivering(q)' /\ worker.id = r
      /\ ~Landed(q)
  BY <1>1, Ids DEF OneId, Landed, Delivering
<1>3. CASE q # r
  <2>1. req'[q] = req[q] /\ worker.id # q /\ told'[q] = told[q]
    BY <1>1, <1>2, <1>3 DEF EInv, Sorts, RestTypes
  <2> QED BY <1>1, <1>2, <2>1 DEF Says, Phase
<1>4. CASE q = r
  <2>1. Phase(r) # "reply"
    BY <1>4 DEF FailDelivery
  <2>2. Phase(r) = "stopped" /\ tape[r] = "none"
    BY <1>1, <1>2, <1>4, <2>1 DEF Says, Sending, Phase, Delivering
  <2>3. ~(ran[r] > 0) /\ r \notin sender.behind
    BY <2>2 DEF LandInv
  <2>4. ran[r] = 0
    BY <2>3 DEF EInv, Sorts
  <2>5. /\ req'[r].phase = "stopped" /\ req'[r].owed = req[r].owed
        /\ req'[r].answering = FALSE
    BY <1>1, <2>2, UnansweringRow DEF EInv, Sorts, Phase
  <2>6. req[r].owed = "nobody" => told'[r] # {}
    BY <1>1, <2>2 DEF RestTypes
  <2> QED BY <1>1, <1>2, <1>4, <2>2, <2>3, <2>4, <2>5, <2>6 DEF Says, Phase, Sending
<1> QED BY <1>3, <1>4

LEMMA NobodyRow ==
  ASSUME NEW s \in Records, NEW t, t = [s EXCEPT !.owed = "nobody"]
  PROVE  /\ t.phase = s.phase /\ t.owed = "nobody"
         /\ t.answering = s.answering /\ t.sending = s.sending
BY DEF Records, Phases

LEMMA TellSays ==
  ASSUME EInv, RestTypes, NEW r \in Requests, Tell(r),
         NEW q \in Requests \ unsettled, Says(q)
  PROVE  Says(q)'
<1> USE DEF calls, work, hearing, bounds
<1>1. /\ worker = On /\ Phase(r) = "stopped" /\ req[r].owed = "thread"
      /\ req' = [req EXCEPT ![r] = [@ EXCEPT !.owed = "nobody"]]
      /\ told' = [told EXCEPT ![r] = @ \cup {"failure"}]
      /\ UNCHANGED <<tape, ran, sender, worker, overtaken>>
  BY DEF Tell, Owing
<1>2. worker.id # q /\ ~Landed(q) /\ ~Delivering(q)
      /\ ~Landed(q)' /\ ~Delivering(q)' /\ worker'.id # q
  BY <1>1, Ids DEF OneId, Landed, Delivering
<1>3. CASE q # r
  <2>1. req'[q] = req[q] /\ told'[q] = told[q]
    BY <1>1, <1>3 DEF EInv, Sorts, RestTypes
  <2> QED BY <1>1, <1>2, <2>1 DEF Says, Phase
<1>4. CASE q = r
  <2>1. ~(ran[r] > 0) /\ r \notin sender.behind /\ req[r].answering # TRUE
        /\ ~Sending(req[r])
    BY <1>1, <1>2, <1>4 DEF Says, Sending, Phase
  <2>2. ran[r] = 0
    BY <2>1 DEF EInv, Sorts
  <2>3. /\ req'[r].phase = "stopped" /\ req'[r].owed = "nobody"
        /\ req'[r].answering = req[r].answering
    BY <1>1, NobodyRow DEF EInv, Sorts, Phase
  <2>4. told'[r] # {}
    BY <1>1 DEF RestTypes
  <2> QED BY <1>1, <1>2, <1>4, <2>1, <2>2, <2>3, <2>4 DEF Says, Phase, Sending
<1> QED BY <1>3, <1>4

StoppedAs(s, t, o, a) ==
  t = [s EXCEPT !.phase = "stopped", !.owed = o, !.answering = a,
                !.begun = FALSE, !.counted = FALSE,
                !.sending = FALSE, !.heard = FALSE]

LEMMA StoppedRow ==
  ASSUME NEW s \in Records, NEW o \in {"nobody", "thread"}, NEW a \in BOOLEAN,
         NEW t, StoppedAs(s, t, o, a)
  PROVE  /\ t \in Records /\ t.phase = "stopped" /\ t.owed = o
         /\ t.heard = FALSE /\ (t.answering = TRUE <=> a = TRUE)
<1> USE DEF Records, Phases, StoppedAs
<1>1. t \in Records /\ t.phase = "stopped" /\ t.owed = o
  BY ZenonT(60)
<1>2. t.heard = FALSE
  OBVIOUS
<1>3. t.answering = a
  OBVIOUS
<1> QED BY <1>1, <1>2, <1>3

LEMMA EndedRow ==
  ASSUME EInv, NEW r \in Requests, NEW revoked, NEW t, t = Ended(r, revoked)
  PROVE  /\ t \in Records
         /\ t.phase = "stopped" /\ t.heard = FALSE
         /\ (t.answering = TRUE <=> Sending(req[r]))
         /\ t.owed = IF OwesThread(r, revoked) THEN "thread" ELSE "nobody"
<1>2. PICK o \in {"nobody", "thread"} :
        o = IF OwesThread(r, revoked) THEN "thread" ELSE "nobody"
  OBVIOUS
<1>3. PICK a \in BOOLEAN : a = (Phase(r) = "reply" /\ req[r].sending)
  OBVIOUS
<1>4. PICK s \in Records : s = req[r]
  BY DEF EInv, Sorts
<1>5. StoppedAs(s, t, o, a)
  BY <1>2, <1>3, <1>4, ZenonT(60) DEF Ended, StoppedAs
<1>6. /\ t \in Records /\ t.phase = "stopped" /\ t.owed = o
      /\ t.heard = FALSE /\ (t.answering = TRUE <=> a = TRUE)
  BY <1>5, StoppedRow, ZenonT(60)
<1>7. a = TRUE <=> Sending(req[r])
  <2>1. req[r].sending \in BOOLEAN
    BY <1>4 DEF Records
  <2> QED BY <1>3, <2>1 DEF Sending, Phase
<1> QED BY <1>2, <1>6, <1>7
-----------------------------------------------------------------------------
(* Requests that were open, or done and not heard, are stopped together.   *)
LEMMA EndSays ==
  ASSUME EInv, RestTypes, LandInv, NEW S, NEW revoked, End(S, revoked),
         \A r \in S : r \in Requests /\ Pending(r),
         SameJob, UNCHANGED <<tape, ran, sender, overtaken>>,
         NEW q \in Requests \ unsettled, Says(q)
  PROVE  Says(q)'
<1>1. /\ worker'.id = q <=> worker.id = q
      /\ Landed(q)' <=> Landed(q)
      /\ Delivering(q)' <=> Delivering(q)
  BY Ids DEF OneId, SameJob, Landed, Delivering
<1>2. CASE q \notin S
  <2>1. req'[q] = req[q] /\ told'[q] = told[q]
    BY <1>2 DEF End
  <2> QED BY <1>1, <2>1 DEF Says, Phase
<1>3. CASE q \in S
  <2>1. PICK t : t = Ended(q, revoked)
    OBVIOUS
  <2>2. req'[q] = t
    BY <1>3, <2>1 DEF End
  <2>3. /\ t.phase = "stopped" /\ (t.answering = TRUE <=> Sending(req[q]))
        /\ t.owed = IF OwesThread(q, revoked) THEN "thread" ELSE "nobody"
    BY <2>1, EndedRow
  <2>4. Pending(q) /\ Phase(q) # "stopped"
    BY <1>3 DEF Pending, Open
  <2>5. told[q] = {}
    BY <2>4 DEF Says
  <2>6. CASE Sending(req[q])
    <3>1. worker.id = q /\ t.answering = TRUE
      BY <2>3, <2>6 DEF Says
    <3>2. told'[q] = told[q]
      BY <1>3, <2>2, <3>1 DEF End
    <3> QED BY <1>1, <2>2, <2>3, <2>5, <3>1, <3>2 DEF Says, Phase, Sending
  <2>7. CASE ~Sending(req[q])
    <3>1. worker.id # q /\ t.answering # TRUE
      BY <2>3, <2>4, <2>7 DEF Says
    <3>2. tape[q] = "none" \/ Phase(q) = "done"
      BY <2>4, <3>1 DEF Says, Landed
    <3>3. ~(ran[q] > 0) /\ q \notin sender.behind
      <4>1. CASE tape[q] = "none"
        BY <4>1 DEF LandInv
      <4>2. CASE Phase(q) = "done"
        <5>1. ~req[q].heard
          BY <2>4, <4>2 DEF Pending, Open
        <5>2. ~Spoken(req[q])
          BY <2>4, <5>1 DEF Spoken, Phase
        <5> QED BY <5>2 DEF EInv, Sorts, HearInv
      <4> QED BY <3>2, <4>1, <4>2
    <3>4. ran[q] = 0
      BY <3>3 DEF EInv, Sorts
    <3>5. t.owed = "nobody" => told'[q] # {}
      <4>1. ~t.answering
        <5>1. t.answering \in BOOLEAN
          BY <2>1, EndedRow DEF Records
        <5> QED BY <3>1, <5>1
      <4>2. t.owed = "nobody" => told'[q] = told[q] \cup {"notice"}
        BY <1>3, <2>2, <4>1 DEF End
      <4> QED BY <4>2
    <3>6. ~Landed(q) /\ ~Delivering(q)
      BY <3>1 DEF Landed, Delivering
    <3> QED BY <1>1, <2>2, <2>3, <3>1, <3>3, <3>4, <3>5, <3>6 DEF Says, Phase, Sending
  <2> QED BY <2>6, <2>7
<1> QED BY <1>2, <1>3

LEMMA StopSays ==
  ASSUME EInv, RestTypes, LandInv, NEW r \in Requests, StopHandoff(r),
         NEW q \in Requests \ unsettled, Says(q)
  PROVE  Says(q)'
<1> USE DEF calls, work, hearing, bounds
<1>1. /\ req' = [req EXCEPT ![r] = Ended(r, "none")]
      /\ told' = [told EXCEPT ![r] = @ \cup {"note"}]
      /\ UNCHANGED <<tape, ran, sender, worker, overtaken>>
      /\ Phase(r) \in {"running", "waiting"}
  BY DEF StopHandoff
<1>2. /\ worker'.id = q <=> worker.id = q
      /\ Landed(q)' <=> Landed(q)
      /\ Delivering(q)' <=> Delivering(q)
  BY <1>1 DEF Landed, Delivering
<1>3. CASE q # r
  <2>1. req'[q] = req[q] /\ told'[q] = told[q]
    BY <1>1, <1>3 DEF EInv, Sorts, RestTypes
  <2> QED BY <1>1, <1>2, <2>1 DEF Says, Phase
<1>4. CASE q = r
  <2>1. PICK t : t = Ended(q, "none")
    OBVIOUS
  <2>2. req'[q] = t
    BY <1>1, <1>4, <2>1 DEF EInv, Sorts
  <2>3. t.phase = "stopped" /\ (t.answering = TRUE <=> Sending(req[q]))
    BY <2>1, EndedRow
  <2>4. ~Sending(req[q]) /\ worker.id # q /\ tape[q] = "none"
    BY <1>1, <1>4 DEF Says, Sending, Phase
  <2>5. ~(ran[q] > 0) /\ q \notin sender.behind
    BY <2>4 DEF LandInv
  <2>6. ran[q] = 0
    BY <2>5 DEF EInv, Sorts
  <2>7. told'[q] # {}
    BY <1>1, <1>4 DEF RestTypes
  <2> QED BY <1>1, <1>2, <2>2, <2>3, <2>4, <2>5, <2>6, <2>7 DEF Says, Phase, Sending
<1> QED BY <1>3, <1>4

LEMMA HeardRow ==
  ASSUME NEW s \in Records
  PROVE  SameRow(s, Heard(s))
BY DEF SameRow, Heard, Records, Phases

LEMMA SameRowIs ==
  ASSUME NEW s \in Records
  PROVE  SameRow(s, s)
BY DEF SameRow

LEMMA TakeSays ==
  ASSUME EInv, RestTypes, NEW r \in Requests, TakeResult(r), ResultWaits(r),
         NEW q \in Requests \ unsettled, Says(q)
  PROVE  Says(q)'
<1> USE DEF calls, work, hearing, bounds
<1>1. PICK behind : behind = {p \in Together(r) : ResultWaits(p)}
  OBVIOUS
<1>2. /\ req' = [p \in Requests |-> IF p \in behind THEN Heard(req[p]) ELSE req[p]]
      /\ sender' = [first |-> r, behind |-> behind]
      /\ sender = Idle
      /\ UNCHANGED <<tape, ran, told, worker, overtaken>>
  BY <1>1 DEF TakeResult
<1>3. SameRow(req[q], req'[q])
  BY <1>2, HeardRow, SameRowIs DEF EInv, Sorts
<1>4. /\ worker'.id = q <=> worker.id = q
      /\ Landed(q)' <=> Landed(q)
      /\ Delivering(q)' <=> Delivering(q)
  BY <1>2 DEF Landed, Delivering
<1>5. sender'.behind = behind
  BY <1>2
<1>6. q \in behind => Phase(q) # "stopped"
  BY <1>1 DEF ResultWaits
<1>7. sender.behind = {}
  BY <1>2 DEF Idle
<1> QED BY <1>2, <1>3, <1>4, <1>5, <1>6, <1>7 DEF Says, SameRow, Phase, Sending

LEMMA HearSays ==
  ASSUME EInv, RestTypes, LandInv, HearResult, ResultWaits(sender.first),
         NEW q \in Requests \ unsettled, Says(q)
  PROVE  Says(q)'
<1> USE DEF calls, work, hearing, bounds
<1>1. PICK f \in Requests : f = sender.first
  BY DEF HearResult, EInv, Sorts
<1>2. PICK heard : heard = {f} \cup sender.behind
  OBVIOUS
<1>3. /\ req' = [req EXCEPT ![f] = Heard(@)]
      /\ tape' = [p \in Requests |-> IF p \in heard THEN "read" ELSE tape[p]]
      /\ ran' = [p \in Requests |-> IF p \in heard THEN ran[p] + 1 ELSE ran[p]]
      /\ sender' = Idle
      /\ UNCHANGED <<told, worker, overtaken>>
  BY <1>1, <1>2 DEF HearResult
<1>4. SameRow(req[q], req'[q])
  BY <1>3, HeardRow, SameRowIs DEF EInv, Sorts
<1>5. /\ worker'.id = q <=> worker.id = q
      /\ Landed(q)' <=> Landed(q)
      /\ Delivering(q)' <=> Delivering(q)
  BY <1>3 DEF Landed, Delivering
<1>6. sender'.behind = {}
  BY <1>3 DEF Idle
<1>7. Phase(f) \in {"reply", "done"}
  BY <1>1 DEF ResultWaits
<1>8. CASE q \notin heard
  <2>1. tape'[q] = tape[q] /\ ran'[q] = ran[q]
    BY <1>3, <1>8
  <2> QED BY <1>3, <1>4, <1>5, <1>6, <2>1 DEF Says, SameRow, Phase, Sending
<1>9. CASE q \in heard
  <2>1. tape'[q] = "read" /\ ran'[q] = ran[q] + 1
    BY <1>3, <1>9
  <2>2. told[q] = {}
    BY <1>2, <1>7, <1>9 DEF Says
  <2>3. /\ Phase(q) = "reply" => Landed(q)
        /\ Phase(q) \in {"reply", "done", "stopped"}
        /\ ~Delivering(q)
        /\ Phase(q) = "stopped" => req[q].owed = "nobody" \/ worker.id = q
    <3>1. tape[q] # "none"
      BY <1>1, <1>2, <1>9 DEF LandInv
    <3>2. Phase(q) = "stopped" => q \in sender.behind
      BY <1>2, <1>7, <1>9
    <3> QED BY <3>1, <3>2 DEF Says
  <2>4. told'[q] = {} /\ ran'[q] > 0 /\ ~Delivering(q)'
    BY <1>3, <1>5, <2>1, <2>2, <2>3 DEF EInv, Sorts
  <2>5. /\ Phase(q)' = Phase(q) /\ (Sending(req'[q]) <=> Sending(req[q]))
        /\ (req'[q].answering = TRUE <=> req[q].answering = TRUE)
        /\ req'[q].owed = req[q].owed
    BY <1>4 DEF SameRow, Phase, Sending
  <2>6. /\ worker.id = q => \/ Sending(req[q])
                            \/ Phase(q) = "stopped" /\ req[q].answering = TRUE
        /\ Sending(req[q]) => worker.id = q
        /\ req[q].answering = TRUE => worker.id = q /\ Phase(q) = "stopped"
    BY DEF Says
  <2> QED BY <1>5, <2>3, <2>4, <2>5, <2>6 DEF Says
<1> QED BY <1>8, <1>9
-----------------------------------------------------------------------------
LEMMA ReconciledMoves ==
  ASSUME NEW s \in Records, ~Sending(s), s.answering # TRUE
  PROVE  Moves(s, Reconciled(s))
<1>1. s.answering = FALSE
  BY DEF Records
<1>2. CASE s.phase = "running" /\ s.begun = TRUE
  <2>1. Reconciled(s) = Answered(s)
    BY <1>2 DEF Reconciled
  <2>2. Early(s)
    BY <1>2 DEF Early
  <2> QED BY <2>1, <2>2, RowMoves
<1>3. CASE s.phase = "running" /\ s.begun # TRUE
  <2>1. Reconciled(s) = [s EXCEPT !.phase = "queued"]
    <3>1. s.begun = FALSE
      BY <1>3 DEF Records
    <3> QED BY <1>3, <3>1 DEF Reconciled
  <2> QED BY <1>3, <2>1 DEF Moves, Early, Sending, Records, Phases
<1>4. CASE s.phase # "running"
  <2>1. Reconciled(s) = [s EXCEPT !.answering = FALSE]
    BY <1>4 DEF Reconciled
  <2>2. PICK t : t = [s EXCEPT !.answering = FALSE]
    OBVIOUS
  <2>3. t.phase = s.phase /\ t.owed = s.owed /\ t.answering = FALSE
        /\ t.sending = s.sending
    BY <2>2, UnansweringRow
  <2>4. SameRow(s, t)
    BY <1>1, <2>3 DEF SameRow
  <2> QED BY <2>1, <2>2, <2>4 DEF Moves
<1> QED BY <1>2, <1>3, <1>4

LEMMA RestartSays ==
  ASSUME EInv, RestTypes, Restart, NEW q \in Requests \ unsettled',
         q \notin unsettled, Says(q)
  PROVE  Says(q)'
<1>1. /\ req'[q] = Reconciled(req[q]) /\ worker' = Off /\ sender' = Idle
      /\ UNCHANGED <<tape, told, ran, overtaken>> /\ q \notin {worker.id} \ {None}
  BY DEF Restart
<1>2. worker.id # q /\ worker'.id # q /\ sender'.behind = {}
  BY <1>1, RequestsAssumption DEF Off, Idle
<1>3. ~Landed(q) /\ ~Delivering(q) /\ ~Landed(q)' /\ ~Delivering(q)'
  BY <1>2 DEF Landed, Delivering
<1>4. ~Sending(req[q]) /\ req[q].answering # TRUE
  BY <1>2 DEF Says
<1>5. Moves(req[q], req'[q])
  BY <1>1, <1>4, ReconciledMoves DEF EInv, Sorts
<1> QED
  BY <1>1, <1>2, <1>3, <1>4, <1>5
  DEF Says, Moves, SameRow, Early, Sending, Phase

(* Every step keeps what is known of each settled request.                 *)
ToldInv == RestTypes /\ TaskInv /\ LandInv /\ SaysInv

LEMMA AlwaysUnsettled ==
  ASSUME RestTypes, [Next]_vars
  PROVE  unsettled \subseteq unsettled'
<1> USE DEF bounds
<1>1. ASSUME NEW r \in Requests, Desk(r) \/ Send(r)
      PROVE  unsettled' = unsettled
  <2>1. CASE Admit(r) \/ HandOverAgain(r)
    BY <2>1 DEF Admit, HandOverAgain, HandedOver, Bounded
  <2>2. CASE ~(Admit(r) \/ HandOverAgain(r))
    BY <1>1, <2>2
    DEF Desk, Send, Wake, FindRevoked, TakeUp, AdmitRevoked,
        HandOverAnswer, Claim, Land, Settle, Tell, BeginTurn, BeginAnswer,
        TakeResult
  <2> QED BY <2>1, <2>2
<1>2. ASSUME NEW r \in Requests, Faults(r) \/ Agent(r) \/ Person(r)
      PROVE  unsettled \subseteq unsettled'
  BY <1>2
  DEF Faults, Agent, Person, Refuse, FailDelivery, DropLine, RefuseAnswer,
      EndTurn, PostCard, WithdrawCard, StopHandoff, StopQuestion, Interrupt,
      CarryOn, EndCarried, AnswerCard, Bounded
<1>3. ASSUME NEW who \in {"asker", "target"},
             CloseEpoch(who) \/ RevokeExchanges(who)
      PROVE  unsettled' = unsettled
  BY <1>3 DEF CloseEpoch, RevokeExchanges, Bounded
<1>4. ASSUME \/ Retire \/ HearResult \/ DropResults \/ ResumeExchange
             \/ StopExchange
      PROVE  unsettled' = unsettled
  BY <1>4
  DEF Retire, HearResult, DropResults, ResumeExchange, StopExchange, Bounded
<1>5. ASSUME Restart \/ Recover \/ UNCHANGED vars
      PROVE  unsettled \subseteq unsettled'
  BY <1>5 DEF Restart, Recover, vars
<1> QED BY <1>1, <1>2, <1>3, <1>4, <1>5 DEF Next

LEMMA EndStep ==
  ASSUME RestTypes, EInv,
         \/ \E r \in Requests : FindRevoked(r) \/ AdmitRevoked(r)
         \/ StopExchange
         \/ \E who \in {"asker", "target"} : RevokeExchanges(who)
  PROVE  /\ \E S, revoked : /\ End(S, revoked)
                            /\ \A r \in S : r \in Requests /\ Pending(r)
         /\ SameJob /\ UNCHANGED <<tape, ran, sender, overtaken>>
<1> USE DEF durable, calls, work, hearing, bounds
<1>1. \E S, revoked : /\ End(S, revoked)
                      /\ \A r \in S : r \in Requests /\ Pending(r)
  <2>1. CASE \E r \in Requests : FindRevoked(r) \/ AdmitRevoked(r)
    BY <2>1 DEF FindRevoked, AdmitRevoked, Sweep
  <2>2. CASE \/ StopExchange
             \/ \E who \in {"asker", "target"} : RevokeExchanges(who)
    BY <2>2 DEF StopExchange, RevokeExchanges
  <2> QED BY <2>1, <2>2
<1>2. UNCHANGED <<tape, ran, sender, overtaken>>
  BY DEF FindRevoked, AdmitRevoked, StopExchange, RevokeExchanges, Bounded
<1>3. worker' = worker \/ worker' = Awake
  BY DEF FindRevoked, AdmitRevoked, StopExchange, RevokeExchanges, EndTask,
         WakeOwed
<1>4. SameJob
  BY <1>3, AwakeJob DEF SameJob
<1> QED BY <1>1, <1>2, <1>4

LEMMA SaysHolds ==
  ASSUME EInv, ToldInv, [Next]_vars
  PROVE  SaysInv'
<1> USE DEF ToldInv
<1>1. SUFFICES ASSUME NEW q \in Requests \ unsettled' PROVE Says(q)'
  BY DEF SaysInv
<1>2. q \in Requests \ unsettled /\ q \notin unsettled /\ Says(q)
  BY AlwaysUnsettled DEF SaysInv
<1>3. CASE Calm
  BY <1>2, <1>3, CalmSays
<1>4. ASSUME NEW r \in Requests, Desk(r) PROVE Says(q)'
  <2>1. CASE TakeResult(r)
    BY <1>2, <1>3, <2>1, TakeSays, OtherCalm
  <2>2. CASE FindRevoked(r) \/ AdmitRevoked(r)
    BY <1>2, <2>2, EndStep, EndSays
  <2>3. CASE Claim(r) \/ Land(r) \/ Settle(r) \/ Tell(r)
    BY <1>2, <2>3, ClaimSays, LandSays, SettleSays, TellSays
  <2>4. CASE \/ Wake(r) \/ TakeUp(r) \/ Admit(r) \/ HandOverAgain(r)
             \/ HandOverAnswer(r) \/ BeginTurn(r) \/ BeginAnswer(r)
    BY <1>3, <2>4, CalmSteps
  <2> QED BY <1>4, <2>1, <2>2, <2>3, <2>4 DEF Desk
<1>5. ASSUME NEW r \in Requests, Faults(r) \/ Agent(r) \/ Person(r) \/ Send(r)
      PROVE  Says(q)'
  <2>1. CASE FailDelivery(r)
    BY <1>2, <2>1, FailSays
  <2>2. CASE StopHandoff(r)
    BY <1>2, <2>2, StopSays
  <2> QED BY <1>3, <1>5, <2>1, <2>2, CalmSteps DEF Faults, Agent, Person
<1>6. CASE HearResult
  BY <1>2, <1>3, <1>6, HearSays, OtherCalm
<1>7. CASE StopExchange \/ \E who \in {"asker", "target"} : RevokeExchanges(who)
  BY <1>2, <1>7, EndStep, EndSays
<1>8. CASE Restart
  BY <1>2, <1>8, RestartSays
<1>9. CASE \/ Retire \/ DropResults \/ ResumeExchange \/ Recover
           \/ \E who \in {"asker", "target"} : CloseEpoch(who)
           \/ UNCHANGED vars
  BY <1>3, <1>9, OtherCalm
<1> QED BY <1>4, <1>5, <1>6, <1>7, <1>8, <1>9 DEF Next
-----------------------------------------------------------------------------
(* What the tape owes to the conversation.                                 *)
LandStays ==
  /\ \A q \in Requests : tape[q] # "none" => tape'[q] # "none"
  /\ \A q \in Requests :
       \/ q \in queue' \cup dispatched' \/ Landed(q)'
       \/ q = sender'.first \/ q \in sender'.behind \/ ran'[q] > 0
       => \/ q \in queue \cup dispatched \/ Landed(q)
          \/ q = sender.first \/ q \in sender.behind \/ ran[q] > 0
          \/ tape'[q] # "none"

LEMMA LandKept ==
  ASSUME LandInv, LandStays
  PROVE  LandInv'
BY DEF LandInv, LandStays

LEMMA CalmLand ==
  ASSUME Calm, queue' \cup dispatched' \subseteq queue \cup dispatched
  PROVE  LandStays
<1>1. \A q \in Requests : Landed(q)' => Landed(q)
  BY Ids DEF Calm, SameJob, OneId, Landed
<1>2. \A q \in Requests : q # Idle.first /\ Idle.behind = {}
  BY RequestsAssumption DEF Idle
<1> QED BY <1>1, <1>2 DEF Calm, LandStays

LEMMA LandHolds ==
  ASSUME EInv, ToldInv, [Next]_vars
  PROVE  LandInv'
<1> USE DEF ToldInv, durable, calls, work, hearing, bounds
<1>1. ASSUME NEW r \in Requests, Desk(r) PROVE LandStays
  <2>1. CASE TakeResult(r)
    <3>1. CASE ~ResultWaits(r)
      <4>1. queue' \cup dispatched' \subseteq queue \cup dispatched
        BY <2>1, <3>1 DEF TakeResult
      <4> QED BY <2>1, <3>1, <4>1, OtherCalm, CalmLand
    <3>2. CASE ResultWaits(r)
      <4>1. PICK behind :
              /\ behind \subseteq queue /\ r \in queue
              /\ sender' = [first |-> r, behind |-> behind]
              /\ queue' \subseteq queue
              /\ UNCHANGED <<tape, dispatched, ran, worker>>
        BY <2>1, <3>2 DEF TakeResult, Together
      <4> QED BY <4>1 DEF LandStays, Landed
    <3> QED BY <3>1, <3>2
  <2>2. CASE FindRevoked(r) \/ AdmitRevoked(r)
    <3>1. SameJob /\ UNCHANGED <<tape, ran, sender, queue, dispatched>>
      BY <2>2, EndStep DEF FindRevoked, AdmitRevoked
    <3>2. \A q \in Requests : Landed(q)' => Landed(q)
      BY <3>1, Ids DEF SameJob, OneId, Landed
    <3> QED BY <3>1, <3>2 DEF LandStays
  <2>3. CASE Claim(r)
    <3>1. worker'.pc = "deliver"
      BY <2>3 DEF Claim
    <3> QED BY <2>3, <3>1 DEF Claim, LandStays, Landed
  <2>4. CASE Land(r)
    <3>1. /\ worker' = [pc |-> "landed", id |-> r]
          /\ tape' = [tape EXCEPT ![r] = IF @ = "none" THEN "sent" ELSE @]
          /\ queue' \subseteq queue \cup {r}
          /\ dispatched' \subseteq dispatched \cup {r}
          /\ UNCHANGED <<ran, sender>>
      BY <2>4 DEF Land, Dispatch
    <3>2. tape'[r] # "none" /\ \A q \in Requests : q # r => tape'[q] = tape[q]
      BY <3>1 DEF RestTypes
    <3>3. worker'.id = r
      BY <3>1
    <3>4. \A q \in Requests : Landed(q)' => q = r
      BY <3>3 DEF Landed
    <3> QED BY <3>1, <3>2, <3>4 DEF LandStays
  <2>5. CASE Settle(r) \/ Tell(r)
    <3>1. worker' = On /\ UNCHANGED <<tape, ran, sender, queue, dispatched>>
      BY <2>5 DEF Settle, Tell
    <3> QED BY <3>1, Ids DEF LandStays, Landed, OneId
  <2>6. CASE \/ Wake(r) \/ TakeUp(r) \/ Admit(r) \/ HandOverAgain(r)
             \/ HandOverAnswer(r) \/ BeginTurn(r) \/ BeginAnswer(r)
    <3>1. UNCHANGED <<queue, dispatched>>
      BY <2>6 DEF Wake, TakeUp, Admit, HandOverAgain, HandOverAnswer,
                  BeginTurn, BeginAnswer
    <3> QED BY <2>6, <3>1, CalmSteps, CalmLand
  <2> QED BY <1>1, <2>1, <2>2, <2>3, <2>4, <2>5, <2>6 DEF Desk
<1>2. ASSUME NEW r \in Requests, Faults(r) \/ Agent(r) \/ Person(r) \/ Send(r)
      PROVE  LandStays
  <2>1. CASE FailDelivery(r) \/ StopHandoff(r)
    <3>1. (worker' = On \/ worker' = worker)
          /\ UNCHANGED <<tape, ran, sender, queue, dispatched>>
      BY <2>1 DEF FailDelivery, StopHandoff
    <3> QED BY <3>1, Ids DEF LandStays, Landed, OneId
  <2>2. CASE ~(FailDelivery(r) \/ StopHandoff(r))
    <3>1. UNCHANGED <<queue, dispatched>>
      BY <1>2, <2>2
      DEF Faults, Agent, Person, Send, Refuse, DropLine, RefuseAnswer, EndTurn,
          PostCard, WithdrawCard, StopQuestion, Interrupt, CarryOn,
          EndCarried, AnswerCard
    <3>2. Calm
      BY <1>2, <2>2, CalmSteps DEF Faults, Agent, Person
    <3> QED BY <3>1, <3>2, CalmLand
  <2> QED BY <2>1, <2>2
<1>3. ASSUME HearResult PROVE LandStays
  <2>1. CASE ~ResultWaits(sender.first)
    <3>1. UNCHANGED <<queue, dispatched>>
      BY <1>3 DEF HearResult
    <3> QED BY <1>3, <2>1, <3>1, OtherCalm, CalmLand
  <2>2. CASE ResultWaits(sender.first)
    <3>1. PICK heard :
            /\ tape' = [p \in Requests |-> IF p \in heard THEN "read" ELSE tape[p]]
            /\ ran' = [p \in Requests |-> IF p \in heard THEN ran[p] + 1 ELSE ran[p]]
            /\ sender' = Idle
            /\ UNCHANGED <<worker, queue, dispatched>>
      BY <1>3, <2>2 DEF HearResult
    <3>2. \A q \in Requests : q # sender'.first /\ q \notin sender'.behind
      BY <3>1, RequestsAssumption DEF Idle
    <3> QED BY <3>1, <3>2 DEF LandStays, Landed
  <2> QED BY <2>1, <2>2
<1>4. ASSUME StopExchange \/ \E who \in {"asker", "target"} : RevokeExchanges(who)
      PROVE  LandStays
  <2>1. SameJob /\ UNCHANGED <<tape, ran, sender, queue, dispatched>>
    BY <1>4, EndStep DEF StopExchange, RevokeExchanges
  <2>2. \A q \in Requests : Landed(q)' => Landed(q)
    BY <2>1, Ids DEF SameJob, OneId, Landed
  <2> QED BY <2>1, <2>2 DEF LandStays
<1>5. ASSUME Restart PROVE LandStays
  <2>1. /\ worker' = Off /\ sender' = Idle /\ queue' = {} /\ dispatched' = {}
        /\ UNCHANGED <<tape, ran>>
    BY <1>5 DEF Restart
  <2>2. \A q \in Requests : q # sender'.first /\ q \notin sender'.behind
                            /\ ~Landed(q)'
    BY <2>1, Ids, RequestsAssumption DEF Idle, Landed, OneId
  <2> QED BY <2>1, <2>2 DEF LandStays
<1>6. ASSUME Recover PROVE LandStays
  <2> DEFINE unheard == {q \in Requests : tape[q] = "sent" /\ ~req[q].replyThread}
  <2>1. /\ \A q \in unheard : tape[q] = "sent"
        /\ queue' = queue \cup (unheard \ dispatched)
        /\ dispatched' = dispatched \cup unheard
        /\ UNCHANGED <<tape, ran, sender>>
    BY <1>6 DEF Recover
  <2> HIDE DEF unheard
  <2>2. Calm
    BY <1>6, OtherCalm
  <2>3. \A q \in Requests : Landed(q)' => Landed(q)
    BY <2>2, Ids DEF Calm, SameJob, OneId, Landed
  <2> QED BY <2>1, <2>3 DEF LandStays
<1>7. ASSUME \/ Retire \/ DropResults \/ ResumeExchange
             \/ \E who \in {"asker", "target"} : CloseEpoch(who)
             \/ UNCHANGED vars
      PROVE  LandStays
  <2>1. queue' \cup dispatched' \subseteq queue \cup dispatched
    BY <1>7 DEF Retire, DropResults, ResumeExchange, CloseEpoch, vars
  <2> QED BY <1>7, <2>1, OtherCalm, CalmLand
<1>8. LandStays
  BY <1>1, <1>2, <1>3, <1>4, <1>5, <1>6, <1>7 DEF Next
<1> QED BY <1>8, LandKept
-----------------------------------------------------------------------------
(* A request for whose sake the pair's worker is kept.                     *)
Alive(s) == \/ s.phase \in {"queued", "running", "waiting", "reply"}
            \/ s.phase = "stopped" /\ s.owed = "thread"

AtTheDoor == {"queued", "stopped"}

(* What a move keeps of a request that a task holds or a worker watches.   *)
Keeps(s, t) == /\ s.phase \in AtTheDoor => t.phase \in AtTheDoor
               /\ Alive(t) => Alive(s)

TaskStays == \A q \in Requests :
  task'[q] # "none" => \/ Phase(q)' \in AtTheDoor
                       \/ task[q] # "none" /\ Keeps(req[q], req'[q])

WatchStays ==
  \/ recovered' = FALSE \/ worker'.pc # "off"
  \/ \E q \in Requests : task'[q] # "none"
  \/ (\A q \in Requests : ~Alive(req'[q]))
  \/ /\ \A q \in Requests : Keeps(req[q], req'[q])
     /\ UNCHANGED <<task, worker, recovered>>

TasksStay == TaskStays /\ WatchStays

LEMMA TaskKept == TaskInv /\ TaskStays => TaskInv'
  BY DEF TaskInv, TaskStays, Keeps, Phase, AtTheDoor

LEMMA AliveIs ==
  /\ Open \cup Owing = {r \in Requests : Alive(req[r])}
  /\ (Open \cup Owing = {r \in Requests : Alive(req[r])})'
  BY DEF Open, Owing, Alive, Phase

LEMMA WatchKept == WorkerWatches /\ WatchStays => WorkerWatches'
<1> SUFFICES ASSUME WorkerWatches, WatchStays, recovered',
                    NEW q \in Requests, Alive(req'[q])
             PROVE  worker'.pc # "off" \/ \E r \in Requests : task'[r] # "none"
  BY AliveIs DEF WorkerWatches
<1>1. CASE /\ \A r \in Requests : Keeps(req[r], req'[r])
           /\ UNCHANGED <<task, worker, recovered>>
  <2>1. Alive(req[q])
    BY <1>1 DEF Keeps
  <2> QED BY <1>1, <2>1, AliveIs DEF WorkerWatches
<1> QED BY <1>1 DEF WatchStays

LEMMA RowKeeps ==
  ASSUME NEW s \in Records
  PROVE  /\ Keeps(s, s) /\ Keeps(s, Heard(s)) /\ Keeps(s, Delivered(s))
         /\ Keeps(s, [s EXCEPT !.answering = FALSE])
         /\ Keeps(s, [s EXCEPT !.owed = "nobody"])
         /\ \A g \in {"none", "open", "answered", "consumed"} :
              Keeps(s, [s EXCEPT !.gate = g])
         /\ s.phase = "reply" => Keeps(s, Claimed(s))
         /\ s.phase \in {"running", "waiting"} =>
              /\ Keeps(s, Answered(s)) /\ Keeps(s, Waiting(s))
              /\ Keeps(s, Begun(s))
              /\ Keeps(s, [Begun(s) EXCEPT !.gate = "consumed"])
<1> USE DEF Records, Phases, Keeps, Alive, AtTheDoor
<1>1. Keeps(s, s) /\ Keeps(s, Heard(s))
  BY DEF Heard
<1>2. Keeps(s, Delivered(s))
  BY DEF Delivered
<1>3. Keeps(s, [s EXCEPT !.answering = FALSE])
      /\ Keeps(s, [s EXCEPT !.owed = "nobody"])
  OBVIOUS
<1>4. \A g \in {"none", "open", "answered", "consumed"} :
        Keeps(s, [s EXCEPT !.gate = g])
  OBVIOUS
<1>5. s.phase = "reply" => Keeps(s, Claimed(s))
  BY DEF Claimed
<1>6. s.phase \in {"running", "waiting"} =>
        /\ Keeps(s, Answered(s)) /\ Keeps(s, Waiting(s))
  BY DEF Answered, Waiting
<1>7. s.phase \in {"running", "waiting"} =>
        /\ Keeps(s, Begun(s)) /\ Keeps(s, [Begun(s) EXCEPT !.gate = "consumed"])
  BY DEF Begun
<1> QED BY <1>1, <1>2, <1>3, <1>4, <1>5, <1>6, <1>7, ZenonT(60)

LEMMA OneKeeps ==
  ASSUME EInv, NEW r \in Requests, NEW t, Keeps(req[r], t),
         req' = [req EXCEPT ![r] = t]
  PROVE  \A q \in Requests : Keeps(req[q], req'[q])
BY RowKeeps DEF EInv, Sorts

LEMMA NoneKeeps ==
  ASSUME EInv, req' = req
  PROVE  \A q \in Requests : Keeps(req[q], req'[q])
BY RowKeeps DEF EInv, Sorts

LEMMA EndKeepsTasks ==
  ASSUME EInv, NEW S, NEW revoked, End(S, revoked),
         \A r \in S : r \in Requests /\ Pending(r)
  PROVE  \A q \in Requests : Keeps(req[q], req'[q])
<1> SUFFICES ASSUME NEW q \in Requests PROVE Keeps(req[q], req'[q])
  OBVIOUS
<1>1. req[q] \in Records
  BY DEF EInv, Sorts
<1>2. CASE q \notin S
  BY <1>1, <1>2, RowKeeps DEF End
<1>3. CASE q \in S
  <2>1. PICK t : t = Ended(q, revoked)
    OBVIOUS
  <2>2. /\ t.phase = "stopped"
        /\ t.owed = IF OwesThread(q, revoked) THEN "thread" ELSE "nobody"
    BY <1>1, <2>1 DEF Ended, Records
  <2>3. t.owed = "thread" => Phase(q) # "done"
    BY <2>2 DEF OwesThread
  <2>4. Alive(t) => Alive(req[q])
    BY <1>3, <2>2, <2>3 DEF Alive, Pending, Open, Phase
  <2>5. req'[q] = t
    BY <1>3, <2>1 DEF End
  <2> QED BY <2>2, <2>4, <2>5 DEF Keeps, AtTheDoor
<1> QED BY <1>2, <1>3

(* The worker and the tasks left as they are.                              *)
LEMMA CalmTasks ==
  ASSUME \A q \in Requests : Keeps(req[q], req'[q]),
         UNCHANGED <<task, worker, recovered>>
  PROVE  TasksStay
BY DEF TasksStay, TaskStays, WatchStays

(* The worker runs after the step.                                         *)
LEMMA WokenTasks ==
  ASSUME \A q \in Requests : Keeps(req[q], req'[q]) \/ task'[q] = "none",
         \A q \in Requests : task'[q] # "none" => task[q] # "none",
         worker'.pc # "off"
  PROVE  TasksStay
BY DEF TasksStay, TaskStays, WatchStays

LEMMA AwakeRuns == Awake.pc # "off" /\ On.pc # "off"
BY DEF Awake, On

LEMMA TurnTasks ==
  ASSUME EInv, NEW r \in Requests,
         \/ HandOverAgain(r) \/ HandOverAnswer(r) \/ BeginTurn(r)
         \/ BeginAnswer(r) \/ TakeResult(r) \/ Tell(r) \/ DropLine(r)
         \/ RefuseAnswer(r) \/ (\E clean \in BOOLEAN : EndTurn(r, clean))
         \/ PostCard(r) \/ WithdrawCard(r) \/ AnswerCard(r)
         \/ StopQuestion(r) \/ Interrupt(r) \/ CarryOn(r) \/ EndCarried(r)
  PROVE  TasksStay
<1> USE DEF calls, durable
<1>1. req[r] \in Records
  BY DEF EInv, Sorts
<1>2. UNCHANGED <<task, worker, recovered>>
  BY DEF HandOverAgain, HandOverAnswer, BeginTurn, BeginAnswer, TakeResult,
         Tell, DropLine, RefuseAnswer, EndTurn, PostCard, WithdrawCard,
         AnswerCard, StopQuestion, Interrupt, CarryOn, EndCarried
<1>3. \A q \in Requests : Keeps(req[q], req'[q])
  <2>1. CASE req' = req
    BY <2>1, NoneKeeps
  <2>2. ASSUME req[r].phase \in {"running", "waiting"},
               req' = [req EXCEPT ![r] = Answered(@)]
        PROVE  \A q \in Requests : Keeps(req[q], req'[q])
    <3>1. Keeps(req[r], Answered(req[r]))
      BY <1>1, <2>2, RowKeeps
    <3> QED BY <2>2, <3>1, OneKeeps
  <2>3. CASE RefuseAnswer(r) \/ EndCarried(r) \/ StopQuestion(r)
    <3>1. \/ req' = req
          \/ /\ req[r].phase \in {"running", "waiting"}
             /\ req' = [req EXCEPT ![r] = Answered(@)]
      BY <2>3 DEF RefuseAnswer, EndCarried, StopQuestion, Carried, Fail,
                  Answer, Open, Phase, TakesAnswer
    <3> QED BY <2>1, <2>2, <3>1
  <2>4. CASE \E clean \in BOOLEAN : EndTurn(r, clean)
    <3>1. \/ req' = req
          \/ /\ req[r].phase \in {"running", "waiting"}
             /\ \/ req' = [req EXCEPT ![r] = Answered(@)]
                \/ req' = [req EXCEPT ![r] = Waiting(@)]
      BY <2>4 DEF EndTurn, Phase
    <3>2. ASSUME req[r].phase \in {"running", "waiting"},
                 req' = [req EXCEPT ![r] = Waiting(@)]
          PROVE  \A q \in Requests : Keeps(req[q], req'[q])
      <4>1. Keeps(req[r], Waiting(req[r]))
        BY <1>1, <3>2, RowKeeps
      <4> QED BY <3>2, <4>1, OneKeeps
    <3> QED BY <2>1, <2>2, <3>1, <3>2
  <2>5. CASE HandOverAgain(r)
    <3>1. \/ req' = [req EXCEPT ![r] = req[r]]
          \/ /\ req[r].phase \in {"running", "waiting"}
             /\ req' = [req EXCEPT ![r] = Answered(@)]
      BY <2>5 DEF HandOverAgain, HandedOver, Phase
    <3>2. Keeps(req[r], req[r])
      BY <1>1, RowKeeps
    <3>3. CASE req' = [req EXCEPT ![r] = req[r]]
      BY <3>2, <3>3, OneKeeps
    <3> QED BY <2>2, <3>1, <3>3
  <2>6. CASE PostCard(r) \/ WithdrawCard(r) \/ AnswerCard(r)
    <3>1. PICK g \in {"none", "open", "answered", "consumed"} :
            req' = [req EXCEPT ![r] = [@ EXCEPT !.gate = g]]
      BY <2>6 DEF PostCard, WithdrawCard, AnswerCard
    <3>2. Keeps(req[r], [req[r] EXCEPT !.gate = g])
      BY <1>1, RowKeeps
    <3> QED BY <3>1, <3>2, OneKeeps
  <2>7. CASE BeginTurn(r) \/ BeginAnswer(r)
    <3>1. \/ req' = req
          \/ /\ req[r].phase \in {"running", "waiting"}
             /\ \/ req' = [req EXCEPT ![r] = Begun(@)]
                \/ req' = [req EXCEPT ![r] = [Begun(@) EXCEPT !.gate = "consumed"]]
      BY <2>7 DEF BeginTurn, BeginAnswer, TakesAnswer, Phase
    <3>2. ASSUME req[r].phase \in {"running", "waiting"}
          PROVE  /\ Keeps(req[r], Begun(req[r]))
                 /\ Keeps(req[r], [Begun(req[r]) EXCEPT !.gate = "consumed"])
      BY <1>1, <3>2, RowKeeps
    <3>3. ASSUME req[r].phase \in {"running", "waiting"},
                 req' = [req EXCEPT ![r] = Begun(@)]
          PROVE  \A q \in Requests : Keeps(req[q], req'[q])
      BY <3>2, <3>3, OneKeeps
    <3>4. ASSUME req[r].phase \in {"running", "waiting"},
                 req' = [req EXCEPT ![r] = [Begun(@) EXCEPT !.gate = "consumed"]]
          PROVE  \A q \in Requests : Keeps(req[q], req'[q])
      BY <3>2, <3>4, OneKeeps
    <3> QED BY <2>1, <3>1, <3>3, <3>4
  <2>8. CASE Tell(r)
    <3>1. req' = [req EXCEPT ![r] = [@ EXCEPT !.owed = "nobody"]]
      BY <2>8 DEF Tell
    <3>2. Keeps(req[r], [req[r] EXCEPT !.owed = "nobody"])
      BY <1>1, RowKeeps
    <3> QED BY <3>1, <3>2, OneKeeps
  <2>9. CASE TakeResult(r)
    <3>1. \A q \in Requests : req'[q] = req[q] \/ req'[q] = Heard(req[q])
      BY <2>9 DEF TakeResult, EInv, Sorts
    <3> QED BY <3>1, RowKeeps DEF EInv, Sorts
  <2> QED
    BY <2>1, <2>3, <2>4, <2>5, <2>6, <2>7, <2>8, <2>9
    DEF HandOverAnswer, DropLine, Interrupt, CarryOn
<1> QED BY <1>2, <1>3, CalmTasks

LEMMA StopHandoffTasks ==
  ASSUME EInv, NEW r \in Requests, StopHandoff(r)
  PROVE  TasksStay
<1>1. PICK t : t = Ended(r, "none")
  OBVIOUS
<1>2. t.phase = "stopped"
  BY <1>1 DEF Ended, EInv, Sorts, Records
<1>3. Alive(req[r]) /\ req' = [req EXCEPT ![r] = t]
  BY <1>1 DEF StopHandoff, Alive, Phase
<1>4. Keeps(req[r], t)
  BY <1>2, <1>3 DEF Keeps, AtTheDoor
<1>5. UNCHANGED <<task, worker, recovered>>
  BY DEF StopHandoff, calls
<1> QED BY <1>3, <1>4, <1>5, OneKeeps, CalmTasks

LEMMA DoorTasks ==
  ASSUME EInv, RestTypes, NEW r \in Requests,
         Send(r) \/ Wake(r) \/ TakeUp(r) \/ Refuse(r) \/ Admit(r)
  PROVE  TasksStay
<1> USE DEF durable
<1>1. CASE Send(r)
  <2>1. PICK kind \in Kinds :
          req' = [req EXCEPT ![r] = [@ EXCEPT !.phase = "queued",
                                              !.intent = kind[1],
                                              !.replyThread = kind[2]]]
    BY <1>1, ZenonT(60) DEF Send
  <2>2. req'[r].phase = "queued" /\ \A q \in Requests : q # r => req'[q] = req[q]
    BY <2>1 DEF EInv, Sorts, Records
  <2>3. task'[r] = "wake" /\ \A q \in Requests : q # r => task'[q] = task[q]
    BY <1>1 DEF Send, RestTypes
  <2>4. \A q \in Requests : Keeps(req[q], req[q])
    BY RowKeeps DEF EInv, Sorts
  <2> QED BY <2>2, <2>3, <2>4 DEF TasksStay, TaskStays, WatchStays, Phase, AtTheDoor
<1>2. CASE TakeUp(r)
  <2>1. /\ req' = req /\ worker' = worker /\ worker = On
        /\ task' = [task EXCEPT ![r] = "auth"] /\ Phase(r) = "queued"
    BY <1>2 DEF TakeUp, Looks
  <2>2. \A q \in Requests : q # r => task'[q] = task[q]
    BY <2>1
  <2>3. \A q \in Requests : Keeps(req[q], req'[q])
    BY <2>1, NoneKeeps
  <2>4. Phase(r)' \in AtTheDoor
    BY <2>1 DEF Phase, AtTheDoor
  <2>5. worker'.pc # "off"
    BY <2>1, AwakeRuns
  <2> QED BY <2>2, <2>3, <2>4, <2>5 DEF TasksStay, TaskStays, WatchStays
<1>3. CASE Wake(r) \/ Refuse(r) \/ Admit(r)
  <2>1. worker' = Awake /\ task' = [task EXCEPT ![r] = "none"]
    BY <1>3 DEF Wake, Refuse, Admit, EndTask
  <2>2. worker'.pc # "off"
    BY <2>1, AwakeRuns
  <2>3. task'[r] = "none" /\ \A q \in Requests : q # r => task'[q] = task[q]
    BY <2>1 DEF RestTypes
  <2>4. \A q \in Requests : q # r => req'[q] = req[q]
    BY <1>3 DEF Wake, Refuse, Admit, HandedOver, Fail, Answer, EInv, Sorts
  <2>5. \A q \in Requests : Keeps(req[q], req[q])
    BY RowKeeps DEF EInv, Sorts
  <2> QED BY <2>2, <2>3, <2>4, <2>5, WokenTasks
<1> QED BY <1>1, <1>2, <1>3

LEMMA DeliveryTasks ==
  ASSUME EInv, NEW r \in Requests,
         Claim(r) \/ Land(r) \/ Settle(r) \/ FailDelivery(r)
  PROVE  TasksStay
<1>1. task' = task
  BY DEF Claim, Land, Settle, FailDelivery
<1>2. worker'.pc # "off"
  <2>1. CASE Claim(r)
    BY <2>1 DEF Claim
  <2>2. CASE Land(r)
    <3>1. worker' = [pc |-> "landed", id |-> r]
      BY <2>2 DEF Land
    <3> QED BY <3>1
  <2>3. CASE Settle(r) \/ FailDelivery(r)
    BY <2>3, AwakeRuns DEF Settle, FailDelivery
  <2> QED BY <2>1, <2>2, <2>3
<1>3. \A q \in Requests : Keeps(req[q], req'[q])
  <2>1. req[r] \in Records
    BY DEF EInv, Sorts
  <2>2. CASE Land(r)
    BY <2>2, NoneKeeps DEF Land
  <2>3. CASE Claim(r)
    BY <2>1, <2>3, RowKeeps, OneKeeps DEF Claim, Phase
  <2>4. CASE Settle(r)
    BY <2>1, <2>4, RowKeeps, OneKeeps DEF Settle
  <2>5. CASE FailDelivery(r)
    <3>1. req' = [req EXCEPT ![r] = [@ EXCEPT !.answering = FALSE]]
      BY <2>5 DEF FailDelivery
    <3> QED BY <2>1, <3>1, RowKeeps, OneKeeps
  <2> QED BY <2>2, <2>3, <2>4, <2>5
<1> QED BY <1>1, <1>2, <1>3, WokenTasks

LEMMA EndTasks ==
  ASSUME RestTypes, EInv,
         \/ \E r \in Requests : FindRevoked(r) \/ AdmitRevoked(r)
         \/ StopExchange
         \/ \E who \in {"asker", "target"} : RevokeExchanges(who)
  PROVE  TasksStay
<1>1. \A q \in Requests : Keeps(req[q], req'[q])
  BY EndStep, EndKeepsTasks
<1>2. \A q \in Requests : task'[q] # "none" => task[q] # "none"
  <2>1. task' = task \/ \E r \in Requests : task' = [task EXCEPT ![r] = "none"]
    BY DEF FindRevoked, AdmitRevoked, EndTask, StopExchange, RevokeExchanges,
           calls
  <2> QED BY <2>1 DEF RestTypes
<1>3. CASE \E r \in Requests : FindRevoked(r)
  BY <1>1, <1>3, CalmTasks DEF FindRevoked, calls
<1>4. CASE \E r \in Requests : AdmitRevoked(r)
  BY <1>1, <1>2, <1>4, WokenTasks, AwakeRuns DEF AdmitRevoked, EndTask
<1>5. CASE StopExchange \/ \E who \in {"asker", "target"} : RevokeExchanges(who)
  <2>1. UNCHANGED <<task, recovered>> /\ (worker' = worker \/ worker' = Awake)
    BY <1>5 DEF StopExchange, RevokeExchanges, WakeOwed
  <2> QED BY <1>1, <1>2, <2>1, CalmTasks, WokenTasks, AwakeRuns
<1> QED BY <1>3, <1>4, <1>5

LEMMA OtherTasks ==
  ASSUME EInv,
         \/ Retire \/ HearResult \/ DropResults \/ ResumeExchange
         \/ Restart \/ Recover
         \/ \E who \in {"asker", "target"} : CloseEpoch(who)
         \/ UNCHANGED vars
  PROVE  TasksStay
<1> USE DEF durable, calls
<1>1. CASE Retire
  <2>1. req' = req /\ task' = task
    BY <1>1 DEF Retire
  <2>2. \A q \in Requests : Keeps(req[q], req'[q]) /\ ~Alive(req'[q])
    BY <1>1, <2>1, NoneKeeps, AliveIs DEF Retire
  <2> QED BY <2>1, <2>2 DEF TasksStay, TaskStays, WatchStays
<1>2. CASE HearResult
  <2>1. \A q \in Requests : req'[q] = req[q] \/ req'[q] = Heard(req[q])
    BY <1>2 DEF HearResult, EInv, Sorts
  <2>2. \A q \in Requests : Keeps(req[q], req'[q])
    BY <2>1, RowKeeps DEF EInv, Sorts
  <2> QED BY <1>2, <2>2, CalmTasks DEF HearResult
<1>3. CASE \/ DropResults \/ ResumeExchange
           \/ (\E who \in {"asker", "target"} : CloseEpoch(who)) \/ UNCHANGED vars
  <2>1. req' = req /\ UNCHANGED <<task, worker, recovered>>
    BY <1>3 DEF DropResults, ResumeExchange, CloseEpoch, vars
  <2> QED BY <2>1, NoneKeeps, CalmTasks
<1>4. CASE Restart
  BY <1>4 DEF Restart, TasksStay, TaskStays, WatchStays
<1>5. CASE Recover
  <2>1. req' = req /\ task' = task /\ worker' = Awake
    BY <1>5 DEF Recover
  <2> QED BY <2>1, NoneKeeps, WokenTasks, AwakeRuns
<1> QED BY <1>1, <1>2, <1>3, <1>4, <1>5

LEMMA TasksHold ==
  ASSUME EInv, RestTypes, [Next]_vars
  PROVE  TasksStay
<1>1. ASSUME NEW r \in Requests,
             Desk(r) \/ Faults(r) \/ Agent(r) \/ Person(r) \/ Send(r)
      PROVE  TasksStay
  BY <1>1, TurnTasks, StopHandoffTasks, DoorTasks, DeliveryTasks, EndTasks
     DEF Desk, Faults, Agent, Person
<1> QED BY <1>1, EndTasks, OtherTasks DEF Next
-----------------------------------------------------------------------------
LEMMA HeardStays ==
  ASSUME EInv, RestTypes, HeardIsRun, [Next]_vars
  PROVE  HeardIsRun'
<1> USE DEF durable, calls, work, hearing, bounds
<1>1. \A q \in Requests : ran[q] \in Nat
  BY DEF EInv, Sorts
<1>2. CASE UNCHANGED <<sender, ran, taken, skipped>>
  BY <1>2 DEF HeardIsRun
<1>3. ASSUME NEW r \in Requests, TakeResult(r) PROVE HeardIsRun'
  <2>1. CASE ResultWaits(r)
    <3>1. PICK behind :
            /\ sender = Idle /\ sender' = [first |-> r, behind |-> behind]
            /\ taken' = taken \cup behind
            /\ UNCHANGED <<ran, skipped>>
      BY <1>3, <2>1 DEF TakeResult
    <3> QED BY <3>1 DEF HeardIsRun, Idle
  <2>2. CASE ~ResultWaits(r)
    BY <1>2, <1>3, <2>2 DEF TakeResult
  <2> QED BY <2>1, <2>2
<1>4. CASE HearResult
  <2>1. CASE ResultWaits(sender.first)
    <3>1. PICK heard :
            /\ heard = {sender.first} \cup sender.behind
            /\ ran' = [q \in Requests |-> IF q \in heard THEN ran[q] + 1 ELSE ran[q]]
            /\ taken' = taken \cup heard /\ skipped' = skipped
      BY <1>4, <2>1 DEF HearResult
    <3>2. heard \subseteq Requests /\ taken \subseteq Requests
      BY <1>4, <3>1 DEF HearResult, RestTypes
    <3>3. \A q \in heard : ran'[q] > 0
      BY <1>1, <3>1, <3>2
    <3>4. \A q \in Requests : ran[q] > 0 => ran'[q] > 0
      BY <1>1, <3>1
    <3> QED BY <3>1, <3>2, <3>3, <3>4 DEF HeardIsRun
  <2>2. CASE ~ResultWaits(sender.first)
    <3>1. skipped' = skipped \cup sender.behind /\ UNCHANGED <<ran, taken>>
      BY <1>4, <2>2 DEF HearResult
    <3> QED BY <3>1 DEF HeardIsRun
  <2> QED BY <2>1, <2>2
<1>5. CASE Restart
  BY <1>5 DEF Restart, HeardIsRun
<1>6. ASSUME NEW r \in Requests, Desk(r) \/ Send(r) PROVE HeardIsRun'
  <2>1. CASE Admit(r) \/ HandOverAgain(r)
    BY <1>2, <2>1 DEF Admit, HandOverAgain
  <2>2. CASE ~(Admit(r) \/ HandOverAgain(r) \/ TakeResult(r))
    BY <1>2, <1>6, <2>2
    DEF Desk, Send, Wake, FindRevoked, TakeUp, AdmitRevoked,
        HandOverAnswer, Claim, Land, Settle, Tell, BeginTurn, BeginAnswer
  <2> QED BY <1>3, <2>1, <2>2
<1>7. ASSUME NEW r \in Requests, Faults(r) \/ Agent(r) \/ Person(r)
      PROVE  HeardIsRun'
  BY <1>2, <1>7
  DEF Faults, Agent, Person, Refuse, FailDelivery, DropLine, RefuseAnswer,
      EndTurn, PostCard, WithdrawCard, StopHandoff, StopQuestion, Interrupt,
      CarryOn, EndCarried, AnswerCard
<1>8. CASE \/ \E who \in {"asker", "target"} :
                CloseEpoch(who) \/ RevokeExchanges(who)
           \/ Retire \/ DropResults \/ ResumeExchange \/ StopExchange
           \/ Recover \/ UNCHANGED vars
  BY <1>2, <1>8
  DEF CloseEpoch, RevokeExchanges, Retire, DropResults, ResumeExchange,
      StopExchange, Recover, vars
<1> QED BY <1>4, <1>5, <1>6, <1>7, <1>8 DEF Next
-----------------------------------------------------------------------------
LEMMA ToldNext == EInv /\ ToldInv /\ [Next]_vars => ToldInv'
<1> SUFFICES ASSUME EInv, ToldInv, [Next]_vars PROVE ToldInv'
  OBVIOUS
<1>1. RestTypes'
  BY TypesStep DEF ToldInv
<1>2. TaskInv'
  BY TasksHold, TaskKept DEF ToldInv, TasksStay
<1>3. LandInv'
  BY LandHolds
<1>4. SaysInv'
  BY SaysHolds
<1> QED BY <1>1, <1>2, <1>3, <1>4 DEF ToldInv

LEMMA ToldInit == Init => ToldInv
<1> SUFFICES ASSUME Init PROVE ToldInv
  OBVIOUS
<1>1. RestTypes
  BY BoundsAssumption DEF Init, RestTypes, Jobs
<1>2. TaskInv
  BY DEF Init, TaskInv
<1>3. LandInv
  BY RequestsAssumption DEF Init, LandInv, Landed, Idle, Off
<1>4. SaysInv
  BY RequestsAssumption
     DEF Init, SaysInv, Says, Sending, Landed, Delivering, Phase, Unsent, Idle, Off
<1> QED BY <1>1, <1>2, <1>3, <1>4 DEF ToldInv

LEMMA ToldHolds == EInv /\ ToldInv => ToldOneThing
<1> SUFFICES ASSUME EInv, ToldInv, NEW r \in Requests \ unsettled
             PROVE  /\ ran[r] > 0 => told[r] = {}
                    /\ Phase(r) = "stopped" /\ req[r].owed = "nobody" /\ worker.id # r
                         => \/ told[r] # {} \/ ran[r] > 0
                            \/ r \in overtaken /\ tape[r] # "none"
  BY DEF ToldOneThing
<1>1. Says(r)
  BY DEF ToldInv, SaysInv
<1>2. ran[r] > 0 => ran[r] # 0
  BY DEF EInv, Sorts
<1> QED BY <1>1, <1>2 DEF Says

(* The sender of a request that was stopped hears its result or is told of *)
(* the stop, never both, whatever of delivery, stop and revocation comes   *)
(* first; but for a delivery that was cut or failed after its claim        *)
(* (unsettled), and for a request stopped behind a delivery that landed    *)
(* and that no turn had heard yet (overtaken), which is told nothing       *)
(* (exchange_request, deliver_reply, end_request, tell_thread_stopped).    *)
THEOREM SenderToldOneThing == Spec => []ToldOneThing
  BY EInit, ENext, ToldInit, ToldNext, ToldHolds, PTL DEF Spec
-----------------------------------------------------------------------------
LEMMA WholeTypes == EInv /\ PairInv /\ ToldInv => TypeOK
<1> SUFFICES ASSUME EInv, PairInv, ToldInv PROVE TypeOK
  OBVIOUS
<1>1. \/ worker \in {Off, On}
      \/ worker.pc \in {"deliver", "landed"} /\ worker.id \in Requests
  BY DEF ToldInv, RestTypes, Jobs
<1>2. {taken, skipped, unsettled, overtaken} \subseteq SUBSET Requests
  BY DEF ToldInv, RestTypes
<1>3. req \in [Requests -> Records] /\ line \in [Requests -> {"none", "queued", "turn"}]
  BY DEF EInv, Sorts
<1> QED
  BY <1>1, <1>2, <1>3
  DEF TypeOK, ToldInv, RestTypes, PairInv, Records, Phases

LEMMA WatchNext ==
  EInv /\ ToldInv /\ WorkerWatches /\ HeardIsRun /\ [Next]_vars
    => WorkerWatches' /\ HeardIsRun'
  BY TasksHold, WatchKept, HeardStays DEF ToldInv, TasksStay

LEMMA WatchInit == Init => WorkerWatches /\ HeardIsRun
<1> SUFFICES ASSUME Init PROVE WorkerWatches /\ HeardIsRun
  OBVIOUS
<1>1. \A r \in Requests : ~Alive(req[r])
  BY DEF Init, Alive, Unsent
<1>2. Open \cup Owing = {}
  BY <1>1, AliveIs
<1> QED BY <1>2 DEF Init, WorkerWatches, HeardIsRun

(* A request that is open, or a failure owed to a thread, has a worker or  *)
(* one about to be woken in every state past the first sweep, and a result *)
(* marked heard is heard (wake_exchange, exchange_step, recover_exchanges, *)
(* begin_exchange_result).                                                 *)
THEOREM NothingStaysForgotten == Spec => []NothingIsForgotten
<1>1. EInv /\ PairInv /\ ToldInv /\ WorkerWatches /\ HeardIsRun
        => NothingIsForgotten
  BY WholeTypes DEF NothingIsForgotten
<1>2. Init => PairInv
  BY BoundsAssumption DEF Init, PairInv, PausedAtCap
<1> QED
  BY <1>1, <1>2, EInit, ENext, ToldInit, ToldNext, PairNext, WatchInit,
     WatchNext, PTL DEF Spec
=============================================================================
