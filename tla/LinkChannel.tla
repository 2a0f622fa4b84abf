---------------------------- MODULE LinkChannel ----------------------------
(***************************************************************************)
(* The link between two desks: its record on each, the channel that one of *)
(* them dials, and the calls that cross it (hotline-room/src/linked.rs,    *)
(* hotline-core/src/remote/link.rs).                                       *)
(*                                                                         *)
(* A channel is one task at each end, and each end finds out for itself    *)
(* that it is over.  Frames arrive in order while both ends read.  The     *)
(* dialed end may be given a new channel while its task of the old one has *)
(* still something to read: `unread`.  A call waits for an answer over its *)
(* own channel, for that channel's end or for 30 seconds, and is then      *)
(* Offline, wherever the frame got to.                                     *)
(***************************************************************************)
EXTENDS Sequences, SequencesExt, Integers

CONSTANTS Desks,      \* the two desks
          Nothing,    \* no call under way
          MaxFaults   \* bound: breaks, timeouts, refused writes, restarts,
                      \* and what the two persons stop, unlink and link

ASSUME DesksAssumption == \E d, e \in Desks : d # e /\ Desks = {d, e}
ASSUME LinkAssumption == MaxFaults \in Nat

VARIABLES record,  \* each desk has the link's record
          dials,   \* the desk that dials
          ending,  \* where `unlinked` is on each desk
          live,    \* Peer.live: calls for the other desk have a channel
          wire,    \* what is on its way to each desk, over the channel
          unread,  \* what its task of the channel before has still to read
          call,    \* the call each desk's worker waits for
          shown,   \* the other desk's roster has come over this channel
          links,   \* times linked
          faults   \* faults so far

linkVars == <<record, dials, ending, live, wire, unread, call, shown, links>>

Other(d) == CHOOSE e \in Desks : e # d

(* A frame: a command, with the request it is about, or a command's answer.*)
(* `awaited`: its caller still waits.                                      *)
Frame(is, of) == [is |-> is, of |-> of, awaited |-> TRUE]
Answers == {"ok", "refused"}
Roster == [is |-> "roster", of |-> Nothing, awaited |-> FALSE]
Goodbye == [is |-> "unlink", of |-> Nothing, awaited |-> FALSE]

LinkInit == /\ record = [d \in Desks |-> TRUE]
            /\ dials \in Desks
            /\ ending = [d \in Desks |-> "no"]
            /\ live = [d \in Desks |-> FALSE]
            /\ wire = [d \in Desks |-> <<>>]
            /\ unread = [d \in Desks |-> <<>>]
            /\ call = [d \in Desks |-> Nothing]
            /\ shown = [d \in Desks |-> FALSE]
            /\ links = 1
            /\ faults = 0
-----------------------------------------------------------------------------
Fault == /\ faults < MaxFaults
         /\ faults' = faults + 1

(* A write to the disk that may be refused.                                *)
Written(saved) == faults' = faults + (IF saved THEN 0 ELSE 1)

Put(w, d, f) == IF live[d] THEN [w EXCEPT ![d] = Append(@, f)] ELSE w

(* Links::call: with no channel it is Offline at once.                     *)
Calls(d, f) ==
  /\ call[d] = Nothing
  /\ call' = [call EXCEPT ![d] = [f |-> f, old |-> FALSE,
                                  answer |-> IF live[d] THEN "none"
                                             ELSE "offline"]]
  /\ wire' = IF live[d] THEN Put(wire, Other(d), f) ELSE wire
  /\ UNCHANGED <<record, dials, ending, live, unread, shown, links>>

Answered(d, a) == call[d] # Nothing /\ call[d].answer = a
Returned(d, is) == /\ call[d] # Nothing
                   /\ call[d].answer # "none" /\ call[d].f.is = is

Returns(d) == /\ call' = [call EXCEPT ![d] = Nothing]
              /\ UNCHANGED <<record, dials, ending, live, wire, unread, shown,
                             links>>

(* What becomes of a call when the channel it is on is over.               *)
Offline(d, old) == IF Answered(d, "none") /\ call[d].old = old
                   THEN [call[d] EXCEPT !.answer = "offline"] ELSE call[d]

(* dial and answer: a channel opens, over a link both desks have.  At the  *)
(* dialed end it takes the place of one that has not noticed its end, of   *)
(* which some of what had arrived is still being read.                     *)
Opens ==
  LET e == Other(dials) IN
  /\ record[dials] /\ record[e]
  /\ ~live[dials]
  /\ unread[e] = <<>> /\ (call[e] # Nothing => ~call[e].old)
  /\ live' = [d \in Desks |-> TRUE]
  /\ \E k \in 0..Len(wire[e]) :
       unread' = [unread EXCEPT ![e] = SubSeq(wire[e], 1, k)]
  /\ call' = [call EXCEPT ![e] = IF live[e] /\ @ # Nothing
                                 THEN [@ EXCEPT !.old = TRUE] ELSE @]
  /\ wire' = [d \in Desks |-> <<Roster>>]
  /\ shown' = [d \in Desks |-> FALSE]
  /\ UNCHANGED <<record, dials, ending, links, faults>>

(* An end of the channel finds it over: the channel breaks, or the other   *)
(* end has gone.  Links::closed, and every call on it is Offline.          *)
Closes(d) ==
  /\ live[d]
  /\ IF live[Other(d)] THEN Fault ELSE UNCHANGED faults
  /\ live' = [live EXCEPT ![d] = FALSE]
  /\ wire' = [wire EXCEPT ![d] = <<>>]
  /\ shown' = [shown EXCEPT ![d] = FALSE]
  /\ call' = [call EXCEPT ![d] = Offline(d, FALSE)]
  /\ UNCHANGED <<record, dials, ending, unread, links>>

(* The task of the channel before reads to its end.                        *)
OldCloses(d) ==
  /\ unread[d] # <<>> \/ (call[d] # Nothing /\ call[d].old)
  /\ unread' = [unread EXCEPT ![d] = <<>>]
  /\ call' = [call EXCEPT ![d] = Offline(d, TRUE)]
  /\ UNCHANGED <<record, dials, ending, live, wire, shown, links, faults>>

(* Links::call: 30 seconds without an answer.  Its frame is read all the   *)
(* same, and an answer that comes is nobody's.                             *)
Unawaited(s, kinds) ==
  [i \in 1..Len(s) |-> [s[i] EXCEPT !.awaited = @ /\ s[i].is \notin kinds]]

TimesOut(d) ==
  LET e == Other(d)
      is == call[d].f.is IN
  /\ Answered(d, "none")
  /\ Fault
  /\ call' = [call EXCEPT ![d].answer = "offline"]
  /\ wire' = [wire EXCEPT ![d] = Unawaited(@, Answers),
                           ![e] = Unawaited(@, {is})]
  /\ unread' = [unread EXCEPT ![d] = Unawaited(@, Answers),
                               ![e] = Unawaited(@, {is})]
  /\ UNCHANGED <<record, dials, ending, live, shown, links>>

(* session: the next frame of one of a desk's channels, and its answer.    *)
Comes(d, old, f) == IF old THEN unread[d] # <<>> /\ f = Head(unread[d])
                    ELSE wire[d] # <<>> /\ f = Head(wire[d])

Read(d, old) == IF old THEN <<wire, [unread EXCEPT ![d] = Tail(@)]>>
                ELSE <<[wire EXCEPT ![d] = Tail(@)], unread>>

(* An answer reaches nobody over a channel whose other end is gone, or     *)
(* once its caller waits no more.                                          *)
Replies(d, old, f, answer) ==
  /\ wire' = IF old \/ ~f.awaited THEN Read(d, old)[1]
             ELSE Put(Read(d, old)[1], Other(d), [f EXCEPT !.is = answer])
  /\ unread' = Read(d, old)[2]
  /\ UNCHANGED <<dials, live, call, links>>

TakesRoster(d) ==
  \E old \in BOOLEAN :
    /\ Comes(d, old, Roster)
    /\ wire' = Read(d, old)[1] /\ unread' = Read(d, old)[2]
    /\ shown' = [shown EXCEPT ![d] = TRUE]
    /\ UNCHANGED <<record, dials, ending, live, call, links, faults>>

TakesAnswer(d) ==
  \E old \in BOOLEAN :
    LET queue == IF old THEN unread[d] ELSE wire[d] IN
    /\ queue # <<>> /\ Head(queue).is \in Answers
    /\ wire' = Read(d, old)[1] /\ unread' = Read(d, old)[2]
    /\ call' = IF Head(queue).awaited
                 THEN [call EXCEPT ![d].answer = Head(queue).is] ELSE call
    /\ UNCHANGED <<record, dials, ending, live, shown, links, faults>>
-----------------------------------------------------------------------------
(* Links::forget: the link's channels and the calls on them end.           *)
Forget(d) ==
  /\ live' = [live EXCEPT ![d] = FALSE]
  /\ wire' = [wire EXCEPT ![d] = <<>>]
  /\ unread' = [unread EXCEPT ![d] = <<>>]
  /\ shown' = [shown EXCEPT ![d] = FALSE]
  /\ call' = [call EXCEPT ![d] =
                IF @ # Nothing /\ @.answer = "none"
                THEN [@ EXCEPT !.answer = "offline"] ELSE @]

(* unlink: the other desk is told if it can be, by a last dial if need be. *)
Unlink(d) ==
  LET e == Other(d) IN
  /\ record[d] /\ ending[d] = "no"
  /\ \E heard \in BOOLEAN :
       /\ heard => ~live[d] /\ dials = d /\ record[e] /\ ending[e] = "no"
       /\ ending' = IF heard THEN [x \in Desks |-> "sweep"]
                    ELSE [ending EXCEPT ![d] = "sweep"]
  /\ wire' = IF live[d] THEN Put(wire, e, Goodbye) ELSE wire
  /\ UNCHANGED <<record, dials, live, unread, call, shown, links>>

(* federation.unlink came: `unlinked` runs, and its channel reads no more. *)
TakesGoodbye(d) ==
  /\ \E old \in BOOLEAN : Comes(d, old, Goodbye)
  /\ ending[d] = "no"
  /\ ending' = [ending EXCEPT ![d] = "sweep"]
  /\ UNCHANGED <<record, dials, live, wire, unread, call, shown, links,
                 faults>>

(* dial: only a desk that has ended the link refuses the key.  accept_link *)
(* ends what is left of a link whose dialer is asking for a new one.       *)
Refused(d) ==
  /\ record[d] /\ ~record[Other(d)]
  /\ ending[d] = "no"
  /\ dials = d => ~live[d]
  /\ ending' = [ending EXCEPT ![d] = "sweep"]
  /\ UNCHANGED <<record, dials, live, wire, unread, call, shown, links,
                 faults>>

(* link and accept_link: both desks record the link anew.                  *)
Links(d) ==
  /\ Fault
  /\ \A x \in Desks : ~record[x] /\ ending[x] = "no"
  /\ record' = [x \in Desks |-> TRUE]
  /\ dials' = d
  /\ links' = links + 1
  /\ UNCHANGED <<ending, live, wire, unread, call, shown>>

(* The process of a desk ends: its record of the link stays.               *)
LinkRestarts(d) ==
  /\ live' = [live EXCEPT ![d] = FALSE]
  /\ wire' = [wire EXCEPT ![d] = <<>>]
  /\ unread' = [unread EXCEPT ![d] = <<>>]
  /\ shown' = [shown EXCEPT ![d] = FALSE]
  /\ call' = [call EXCEPT ![d] = Nothing]
  /\ ending' = [ending EXCEPT ![d] = "no"]
  /\ UNCHANGED <<record, dials, links>>

(* What goes on whatever the desks have to say to each other.              *)
ChannelStep ==
  \/ Opens
  \/ \E d \in Desks : \/ Closes(d) \/ OldCloses(d) \/ TimesOut(d)
                       \/ TakesRoster(d) \/ TakesAnswer(d)
                       \/ TakesGoodbye(d) \/ Refused(d) \/ Links(d)
-----------------------------------------------------------------------------
Frames == [is : {"roster", "request", "note", "result", "stop", "unlink"}
                \cup Answers]
LinkTypeOK ==
  /\ record \in [Desks -> BOOLEAN] /\ live \in [Desks -> BOOLEAN]
  /\ shown \in [Desks -> BOOLEAN]
  /\ dials \in Desks
  /\ ending \in [Desks -> {"no", "sweep", "remove"}]
  /\ \A d \in Desks :
       /\ \A f \in Range(wire[d] \o unread[d]) : [is |-> f.is] \in Frames
       /\ call[d] # Nothing =>
            /\ call[d].answer \in {"none", "offline"} \cup Answers
            /\ call[d].f.is \in {"request", "note", "result", "stop"}
       /\ ~live[d] => wire[d] = <<>>
  /\ links \in 1..MaxFaults + 1
  /\ faults \in 0..MaxFaults
=============================================================================
