---------------------------- MODULE LinkedDesks ----------------------------
(***************************************************************************)
(* Requests a teammate of one desk sends a teammate of another over the    *)
(* link of LinkChannel (session/exchanges/across.rs, session/links.rs,     *)
(* session/exchanges.rs as far as it meets a link).                        *)
(*                                                                         *)
(* Each desk keeps its own record of a request and resolves in it what     *)
(* crosses.  The pair has one worker on each desk, which waits for one     *)
(* call at a time; the other desk's frames are handled beside it.  What a  *)
(* request goes through on its own desk, its turn, its delivery, the       *)
(* brake, is Exchanges': here a turn begins and ends, a reply is taken.    *)
(***************************************************************************)
EXTENDS LinkChannel

CONSTANTS Asker, Answerer,  \* the two desks
          Requests          \* what the asker's teammate may send

ASSUME AskerAssumption == Asker # Answerer /\ Desks = {Asker, Answerer}
ASSUME RequestsAssumption == Nothing \notin Requests

(* A call that a desk's worker waits for.                                  *)
PendingCalls ==
  [f : [is : {"request", "note", "result", "stop"}, of : Requests,
        awaited : BOOLEAN],
   old : BOOLEAN, answer : {"none", "offline"} \cup Answers]
ASSUME NothingAssumption == Nothing \notin PendingCalls

VARIABLES asked,   \* the asker's desk's record of each request
          work,    \* the answerer's
          note,    \* a note its work thread leaves the sender
          tried,   \* the answerer's worker has tried the notes in this step
          begins,  \* history: turns a request began
          keeps,   \* history: times its note was kept
          unkept,  \* history: an answer was refused that could not be saved
          turned   \* history: a copy was turned away by a desk that could not
                   \* take it then

requestVars == <<asked, work, note, tried, begins, keeps, unkept, turned>>
deskVars == <<linkVars, faults, requestVars>>

Unsent == [phase |-> "unsent", handoff |-> FALSE, by |-> "nobody",
           lease |-> TRUE]
Absent == [phase |-> "absent", handoff |-> FALSE, begun |-> FALSE,
           failed |-> FALSE, byPerson |-> FALSE, owed |-> "no",
           lease |-> TRUE, link |-> 0]

DesksInit == /\ LinkInit
             /\ asked = [r \in Requests |-> Unsent]
             /\ work = [r \in Requests |-> Absent]
             /\ note = [r \in Requests |-> "none"]
             /\ tried = FALSE
             /\ begins = [r \in Requests |-> 0]
             /\ keeps = [r \in Requests |-> 0]
             /\ unkept = {} /\ turned = {}
-----------------------------------------------------------------------------
(* `reply` with its delivery under way is "sending".  A result is never    *)
(* heard in a turn of the desk that worked it, so it can still be stopped. *)
Open(phase) == phase \in {"queued", "running", "reply", "sending"}
Pending(x) == Open(x.phase) \/ x.phase = "done"
HandoffStands(x) == x.handoff /\ x.phase # "stopped"

(* set_exchange_reply, with an error: Event::Answered, of what is open.    *)
Failed(x) == IF ~Open(x.phase) THEN x
             ELSE [x EXCEPT !.phase = "reply", !.by = "failure"]

(* end_request: of the answerer's record, telling the asker's desk or not. *)
Ended(x, byPerson, owed) ==
  [x EXCEPT !.phase = "stopped", !.byPerson = byPerson, !.owed = owed]

EndedAll(f) ==
  [r \in Requests |-> IF ~Pending(f[r]) THEN f[r]
                      ELSE [f[r] EXCEPT !.phase = "stopped"]]

StopsWork(r, byPerson, owed) ==
  /\ work' = [work EXCEPT ![r] = Ended(@, byPerson, owed)]
  /\ note' = [note EXCEPT ![r] = IF @ = "kept" THEN "dropped" ELSE @]
-----------------------------------------------------------------------------
(* The asker's desk.  send_message: the other desk is linked.              *)
Sends(r) ==
  /\ asked[r].phase = "unsent"
  /\ record[Asker]
  /\ \E handoff \in BOOLEAN :
       asked' = [asked EXCEPT ![r] = [Unsent EXCEPT !.phase = "queued",
                                                    !.handoff = handoff]]
  /\ UNCHANGED <<linkVars, faults, work, note, tried, begins, keeps, unkept,
                 turned>>

(* exchange_request: a side no longer linked, or a lease that has ended,   *)
(* ends what is here.                                                      *)
Orphaned(d, x) == Open(x.phase) /\ (~record[d] \/ ~x.lease)

AskerSweeps(r) ==
  /\ call[Asker] = Nothing
  /\ Orphaned(Asker, asked[r])
  /\ asked' = [asked EXCEPT ![r].phase = "stopped"]
  /\ UNCHANGED <<linkVars, faults, work, note, tried, begins, keeps, unkept,
                 turned>>

(* forward_queued, up to the call it waits for.                            *)
Forwards(r) ==
  /\ asked[r].phase = "queued"
  /\ ~Orphaned(Asker, asked[r])
  /\ Calls(Asker, Frame("request", r))
  /\ UNCHANGED <<faults, requestVars>>

(* forward_queued, with the call's answer, and what happened meanwhile.    *)
Forwarded(r) ==
  /\ Returned(Asker, "request") /\ call[Asker].f.of = r
  /\ Returns(Asker)
  /\ \E saved \in BOOLEAN :
       /\ Written(saved)
       /\ asked' = IF ~saved \/ Answered(Asker, "offline") THEN asked
                   ELSE IF Answered(Asker, "refused")
                   THEN [asked EXCEPT ![r] = Failed(@)]
                   ELSE [asked EXCEPT ![r].phase =
                           IF @ = "queued" THEN "running" ELSE @]
  /\ UNCHANGED <<work, note, tried, begins, keeps, unkept, turned>>

(* deliver_reply, to a conversation of this desk.                          *)
Delivers(r) ==
  /\ call[Asker] = Nothing
  /\ asked[r].phase = "reply"
  /\ ~Orphaned(Asker, asked[r])
  /\ asked' = [asked EXCEPT ![r].phase = "done"]
  /\ UNCHANGED <<linkVars, faults, work, note, tried, begins, keeps, unkept,
                 turned>>

(* settle_linked_request and stop_linked_request.  A stop of a handoff     *)
(* leaves its sender a note; one said of an ask is its failure.            *)
SettledBy(r, f, said) ==
  LET x == asked[r] IN
  IF x.phase \notin {"queued", "running"} THEN asked
  ELSE IF f = "stop" /\ x.handoff
  THEN [asked EXCEPT ![r].phase = "stopped", ![r].by = "person"]
  ELSE [asked EXCEPT ![r].phase = "reply",
                     ![r].by = IF said THEN "answer" ELSE "failure"]

TakesResult(r) ==
  \E old, awaited, saved \in BOOLEAN, is \in {"result", "stop"} :
    LET f == [Frame(is, r) EXCEPT !.awaited = awaited]
        heard == SettledBy(r, is, is = "result" /\ ~work[r].failed
                                    /\ work[r].phase # "stopped") IN
    /\ Comes(Asker, old, f)
    /\ ~saved => record[Asker] /\ heard # asked
    /\ Written(saved)
    /\ asked' = IF record[Asker] /\ saved THEN heard ELSE asked
    /\ unkept' = IF saved THEN unkept ELSE unkept \cup {r}
    /\ Replies(Asker, old, f,
               IF record[Asker] /\ saved THEN "ok" ELSE "refused")
    /\ UNCHANGED <<record, ending, shown, work, note, tried, begins, keeps,
                   turned>>

(* receive_linked_note: a note is kept while its handoff stands, once.     *)
NoteKept(r) == /\ record[Asker] /\ HandoffStands(asked[r]) /\ asked[r].lease
               /\ keeps[r] = 0

TakesNote(r) ==
  \E old, awaited \in BOOLEAN :
    LET f == [Frame("note", r) EXCEPT !.awaited = awaited] IN
    /\ Comes(Asker, old, f)
    /\ keeps' = [keeps EXCEPT ![r] = @ + (IF NoteKept(r) THEN 1 ELSE 0)]
    /\ Replies(Asker, old, f, IF record[Asker] THEN "ok" ELSE "refused")
    /\ UNCHANGED <<record, ending, shown, faults, asked, work, note, tried,
                   begins, unkept, turned>>

(* The person stops the exchange on the asker's desk, which tells nobody.  *)
AskerStops(r) ==
  /\ Fault
  /\ Pending(asked[r])
  /\ asked' = [asked EXCEPT ![r].phase = "stopped", ![r].by = "asker"]
  /\ UNCHANGED <<linkVars, work, note, tried, begins, keeps, unkept, turned>>
-----------------------------------------------------------------------------
(* The answerer's desk.  accept_linked_request, of a request it has.       *)
(* Mutant: only what is still pending counts as the one already here.      *)
KnownOpen(r) == Open(work[r].phase)

Known(r) == work[r].phase # "absent"

(* Mutant: one whose answer is on its way is over.                         *)
OverOnceSent(r) == work[r].phase \in {"sending", "done"}

(* Settled here: it is over and says so, but for one the person stopped    *)
(* while that has still to cross.                                          *)
Over(r) == \/ work[r].phase = "done"
           \/ /\ work[r].phase = "stopped"
              /\ ~(work[r].byPerson /\ work[r].owed = "yes")

Accepted(r) == [Absent EXCEPT !.phase = "queued", !.handoff = asked[r].handoff,
                              !.link = links]

(* receive_linked_request: nothing is taken without the link's record, by  *)
(* a desk that is being restarted or, if it is new, without its being      *)
(* saved.                                                                  *)
TakesRequest(r) ==
  \E old, awaited, open, saved \in BOOLEAN :
    LET f == [Frame("request", r) EXCEPT !.awaited = awaited]
        new == ~Known(r) /\ record[Answerer] /\ open
    IN
    /\ Comes(Answerer, old, f)
    /\ ~saved => new
    /\ Written(open /\ saved)
    /\ work' = IF new /\ saved THEN [work EXCEPT ![r] = Accepted(r)] ELSE work
    /\ turned' = IF open /\ saved THEN turned ELSE turned \cup {r}
    /\ Replies(Answerer, old, f,
               IF /\ record[Answerer] /\ open /\ saved
                  /\ Known(r) => ~Over(r)
               THEN "ok" ELSE "refused")
    /\ UNCHANGED <<record, ending, shown, asked, note, tried, begins, keeps,
                   unkept>>

(* admit_request: let in, or turned away by its recipient.                 *)
Admits(r) ==
  /\ work[r].phase = "queued"
  /\ ~Orphaned(Answerer, work[r])
  /\ \E refused \in BOOLEAN :
       work' = [work EXCEPT ![r].phase =
                              IF refused THEN "reply" ELSE "running",
                            ![r].failed = refused]
  /\ UNCHANGED <<linkVars, faults, asked, note, tried, begins, keeps, unkept,
                 turned>>

Begins(r) ==
  /\ work[r].phase = "running" /\ ~work[r].begun
  /\ work[r].lease
  /\ work' = [work EXCEPT ![r].begun = TRUE]
  /\ begins' = [begins EXCEPT ![r] = @ + 1]
  /\ UNCHANGED <<linkVars, faults, asked, note, tried, keeps, unkept, turned>>

(* keep_for_link: its thread leaves the sender a note, once.               *)
LeavesNote(r) ==
  /\ HandoffStands(work[r]) /\ work[r].begun
  /\ note[r] = "none"
  /\ note' = [note EXCEPT ![r] = "kept"]
  /\ UNCHANGED <<linkVars, faults, asked, work, tried, begins, keeps, unkept,
                 turned>>

Finishes(r) ==
  /\ work[r].phase = "running" /\ work[r].begun
  /\ \E failed \in BOOLEAN :
       work' = [work EXCEPT ![r].phase = "reply", ![r].failed = failed]
  /\ UNCHANGED <<linkVars, faults, asked, note, tried, begins, keeps, unkept,
                 turned>>

(* stop_handoff_for_the_person, person_ended: a handoff not come back.     *)
PersonStops(r) ==
  /\ Fault
  /\ work[r].handoff /\ work[r].phase \in {"queued", "running"}
  /\ StopsWork(r, TRUE, "yes")
  /\ UNCHANGED <<linkVars, asked, tried, begins, keeps, unkept, turned>>

(* stop_exchange: whatever is pending; a result on its way may yet arrive. *)
ExchangeStops(r) ==
  /\ Fault
  /\ Pending(work[r])
  /\ StopsWork(r, FALSE, "yes")
  /\ UNCHANGED <<linkVars, asked, tried, begins, keeps, unkept, turned>>

AnswererSweeps(r) ==
  /\ call[Answerer] = Nothing
  /\ Orphaned(Answerer, work[r])
  /\ StopsWork(r, FALSE, IF record[Answerer] THEN "yes" ELSE "no")
  /\ UNCHANGED <<linkVars, faults, asked, tried, begins, keeps, unkept,
                 turned>>

(* exchange_step: notes go first, while the other desk is known to take    *)
(* them; then one who is owed a stop, then the results.                    *)
SendsNote(r) ==
  /\ note[r] = "kept" /\ ~tried
  /\ live[Answerer] /\ shown[Answerer]
  /\ Calls(Answerer, Frame("note", r))
  /\ UNCHANGED <<faults, requestVars>>

NoteSent(r) ==
  /\ Returned(Answerer, "note") /\ call[Answerer].f.of = r
  /\ Returns(Answerer)
  /\ \E saved \in BOOLEAN :
       /\ Written(saved)
       /\ note' = [note EXCEPT ![r] =
            IF @ = "kept" /\ saved /\ ~Answered(Answerer, "offline")
            THEN "sent" ELSE @]
  /\ tried' = TRUE
  /\ UNCHANGED <<asked, work, begins, keeps, unkept, turned>>

NotesTried == \/ tried \/ ~live[Answerer] \/ ~shown[Answerer]
              \/ \A r \in Requests : note[r] # "kept"

Owing == {r \in Requests : work[r].owed = "yes"}

(* return_linked, of a stop: one the person made is marked as theirs.  A   *)
(* desk no longer linked has nobody waiting.                               *)
ReturnsStop(r) ==
  /\ r \in Owing /\ NotesTried
  /\ IF record[Answerer]
     THEN /\ Calls(Answerer,
                   Frame(IF work[r].byPerson THEN "stop" ELSE "result", r))
          /\ UNCHANGED work
     ELSE /\ call[Answerer] = Nothing
          /\ work' = [work EXCEPT ![r].owed = "no"]
          /\ UNCHANGED linkVars
  /\ UNCHANGED <<faults, asked, note, tried, begins, keeps, unkept, turned>>

(* exchange_request: the delivery is claimed before the call goes out.     *)
Claims(r) ==
  /\ Owing = {} /\ NotesTried
  /\ work[r].phase \in {"reply", "sending"}
  /\ ~Orphaned(Answerer, work[r])
  /\ Calls(Answerer, Frame("result", r))
  /\ work' = [work EXCEPT ![r].phase = "sending"]
  /\ UNCHANGED <<faults, asked, note, tried, begins, keeps, unkept, turned>>

(* return_linked: a refusal means that nobody waits there.                 *)
Told == Answered(Answerer, "ok") \/ Answered(Answerer, "refused")

(* mark_returned, and the end of a delivery: an answer that arrived is     *)
(* done, one that did not leaves a stop that came meanwhile to be told.    *)
ResultSent(r) ==
  LET x == work[r] IN
  /\ Returned(Answerer, "result") \/ Returned(Answerer, "stop")
  /\ call[Answerer].f.of = r
  /\ Returns(Answerer)
  /\ \E saved \in BOOLEAN :
       /\ Written(saved)
       /\ work' = [work EXCEPT ![r] =
            IF ~saved THEN @
            ELSE IF x.phase = "sending"
            THEN [x EXCEPT !.phase = IF Told THEN "done" ELSE @]
            ELSE IF x.phase = "stopped"
            THEN [x EXCEPT !.owed = IF Told /\ @ = "yes" THEN "told" ELSE @]
            ELSE x]
  /\ tried' = FALSE
  /\ UNCHANGED <<asked, note, begins, keeps, unkept, turned>>
-----------------------------------------------------------------------------
(* Room::unlinked on either desk: stop_linked_exchanges, and then the      *)
(* record, the channel and every lease the other desk's teammates held.    *)
Sweeps(d) ==
  /\ ending[d] = "sweep"
  /\ ending' = [ending EXCEPT ![d] = "remove"]
  /\ IF d = Asker THEN asked' = EndedAll(asked) /\ UNCHANGED <<work, note>>
     ELSE /\ work' = [r \in Requests |-> IF Pending(work[r])
                      THEN Ended(work[r], FALSE, "no") ELSE work[r]]
          /\ note' = [r \in Requests |->
                       IF note[r] = "kept" THEN "dropped" ELSE note[r]]
          /\ UNCHANGED asked
  /\ UNCHANGED <<record, dials, live, wire, unread, call, shown, links,
                 faults, tried, begins, keeps, unkept, turned>>

(* Mutant: the leases of the other desk's teammates go on.                 *)
LeasesGoOn(f, none) == f

(* CapabilityEpoch::invalidate, of each teammate of that desk.             *)
LeasesEnd(f, none) ==
  [r \in Requests |-> [f[r] EXCEPT !.lease = f[r].phase = none]]

Unlinked(d) ==
  /\ ending[d] = "remove"
  /\ ending' = [ending EXCEPT ![d] = "no"]
  /\ record' = [record EXCEPT ![d] = FALSE]
  /\ Forget(d)
  /\ IF d = Asker
     THEN asked' = LeasesEnd(asked, "unsent")
          /\ UNCHANGED work
     ELSE work' = LeasesEnd(work, "absent")
          /\ UNCHANGED asked
  /\ UNCHANGED <<dials, links, faults, note, tried, begins, keeps, unkept,
                 turned>>

(* linked::remove is refused by the disk: the link stands, and a goodbye   *)
(* that asked for it has been answered.                                    *)
Refusing(s) == IF s # <<>> /\ Head(s) = Goodbye THEN Tail(s) ELSE s

UnlinkFails(d) ==
  /\ ending[d] = "remove"
  /\ Fault
  /\ ending' = [ending EXCEPT ![d] = "no"]
  /\ wire' = [wire EXCEPT ![d] = Refusing(@)]
  /\ unread' = [unread EXCEPT ![d] = Refusing(@)]
  /\ UNCHANGED <<record, dials, live, call, shown, links, requestVars>>

(* Its leases are new: they are of no link in particular.                  *)
Restarted(x) ==
  [x EXCEPT !.lease = TRUE, !.link = 0,
            !.phase =
              CASE @ = "running" /\ ~x.begun -> "queued"
                [] @ = "sending" \/ (@ = "running" /\ x.begun) -> "reply"
                [] OTHER -> @,
            !.failed = @ \/ (x.phase = "running" /\ x.begun)]

(* reconcile_exchanges: work begun is not begun again; what was forwarded  *)
(* is the other desk's to finish.                                          *)
Restarts(d) ==
  /\ Fault
  /\ LinkRestarts(d)
  /\ IF d = Asker
     THEN asked' = [r \in Requests |-> [asked[r] EXCEPT !.lease = TRUE]]
          /\ UNCHANGED <<work, tried>>
     ELSE work' = [r \in Requests |-> Restarted(work[r])] /\ tried' = FALSE
          /\ UNCHANGED asked
  /\ UNCHANGED <<note, begins, keeps, unkept, turned>>

AskerStep(r) == \/ AskerSweeps(r) \/ Forwards(r) \/ Forwarded(r)
                \/ Delivers(r) \/ TakesResult(r) \/ TakesNote(r)
AnswererStep(r) == \/ TakesRequest(r) \/ Admits(r) \/ Begins(r) \/ Finishes(r)
                   \/ AnswererSweeps(r) \/ SendsNote(r) \/ NoteSent(r)
                   \/ ReturnsStop(r) \/ Claims(r) \/ ResultSent(r)

DesksNext ==
  /\ \/ ChannelStep /\ UNCHANGED requestVars
     \/ \E r \in Requests : \/ Sends(r) \/ AskerStep(r) \/ AskerStops(r)
                            \/ AnswererStep(r) \/ LeavesNote(r)
                            \/ PersonStops(r) \/ ExchangeStops(r)
     \/ \E d \in Desks : \/ Sweeps(d) \/ Unlinked(d) \/ UnlinkFails(d)
                         \/ Restarts(d)
                         \/ Unlink(d) /\ Fault /\ UNCHANGED requestVars
  /\ faults' <= MaxFaults

DesksSpec == DesksInit /\ [][DesksNext]_deskVars
-----------------------------------------------------------------------------
DesksTypeOK ==
  /\ LinkTypeOK
  /\ asked \in [Requests -> [phase : {"unsent", "queued", "running", "reply",
                                      "done", "stopped"},
                             handoff : BOOLEAN,
                             by : {"nobody", "answer", "failure",
                                   "person", "asker"},
                             lease : BOOLEAN]]
  /\ work \in [Requests -> [phase : {"absent", "queued", "running", "reply",
                                     "sending", "done", "stopped"},
                            handoff : BOOLEAN, begun : BOOLEAN,
                            failed : BOOLEAN,
                            byPerson : BOOLEAN, owed : {"no", "yes", "told"},
                            lease : BOOLEAN,
                            link : 0..MaxFaults + 1]]
  /\ note \in [Requests -> {"none", "kept", "sent", "dropped"}]

(* However often a request is sent again, and whatever the channel, the    *)
(* processes and the link went through meanwhile, it is worked once        *)
(* (accept_linked_request, reconcile_exchanges).                           *)
WorkedOnce == \A r \in Requests : begins[r] <= 1

(* A note sent again is kept once (receive_linked_note, aside_kept).       *)
NoteKeptOnce == \A r \in Requests : keeps[r] <= 1

(* A request the answerer's desk believes its sender has been told of is   *)
(* not waited for any more (return_linked, settle_linked_request), unless  *)
(* the asker's desk could not save what it was told.                       *)
NothingIsDropped ==
  \A r \in Requests \ unkept :
    work[r].phase = "done" \/ work[r].owed = "told"
    => asked[r].phase \notin {"queued", "running"}

(* A handoff the person of the answerer's desk stopped ends as their stop  *)
(* on the asker's, or not at all: never as a failure its sender would try  *)
(* again (accept_linked_request, stop_linked_request).  Not so of a stop   *)
(* that its own desk had nobody to tell of, the link having ended first.   *)
StopIsHeardAsStop ==
  \A r \in Requests \ (turned \cup unkept) :
    work[r].phase = "stopped" /\ work[r].byPerson /\ work[r].owed # "no"
    => asked[r].by # "failure"

(* An answer is not turned into a failure by the request's being sent      *)
(* again, over any channel, before or behind it (forward_queued,           *)
(* set_exchange_reply), unless a desk turned one or the other away because *)
(* it was being restarted or could not save it.                            *)
AnswerStaysAnswer ==
  \A r \in Requests \ (turned \cup unkept) :
    work[r].phase \in {"done", "sending"} /\ ~work[r].failed
    => asked[r].by # "failure"

(* A request accepted over a link that has ended, even between what that   *)
(* end stops and the record's going, is not begun over the one made after  *)
(* it (unlinked: "a link made again later starts from nothing"), unless    *)
(* the desk was restarted and gave it leases again.                        *)
LinkStartsFromNothing ==
  [][\A r \in Requests :
       begins'[r] > begins[r] => work[r].link \in {0, links}]_deskVars

(* What crosses a link takes effect once: a request is worked once and a   *)
(* note kept once, however often either is sent.                           *)
OnceOverTheLink == WorkedOnce /\ NoteKeptOnce

(* How a request ended on the answerer's desk is how it ends on the        *)
(* asker's: a stop as a stop, an answer as an answer, and nobody is left   *)
(* waiting for one that was sent (across.rs, exchanges.rs).                *)
EndsAgree == DesksTypeOK /\ NothingIsDropped /\ StopIsHeardAsStop
                    /\ AnswerStaysAnswer
=============================================================================
