------------------------------- MODULE Outbox -------------------------------
(***************************************************************************)
(* The frames a socket still has to write (wire/queue.rs, and Outbox of    *)
(* wire/socket.rs).  A remote seat's queue is bounded: it merges a roster  *)
(* row into a pending one, sheds tool chatter, and gives the seat up       *)
(* rather than lose a required frame.  The desk's own is unbounded.        *)
(*                                                                         *)
(* A frame is [kind, what, sub, of, row, rows, n].  `kind` is how the      *)
(* queue treats it, `what` what its reader makes of it; `n` numbers the    *)
(* required ones.  That a frame may be too long for its seat is left out.  *)
(***************************************************************************)
EXTENDS Integers, Sequences, SequencesExt

CONSTANTS Teammates,
          Keys,      \* the lists a row may leave out: models, slashCommands
          Omitted,   \* what stands for a list a row left out
          Capacity   \* frames a remote seat may have waiting

ASSUME OutboxAssumption == Capacity \in Nat \ {0} /\ Omitted \notin Nat

VARIABLES remote,  \* whether the seat is a phone's
          outq,    \* frames waiting to be written
          sent,    \* required frames queued so far
          cut      \* Outbox.cancel

outVars == <<remote, outq, sent, cut>>

Without == [k \in Keys |-> Omitted]
NoRow == [name |-> 0, said |-> 0, lists |-> Without]
NoRows == [t \in Teammates |-> NoRow]

FrameOf(kind, what, sub) ==
  [kind |-> kind, what |-> what, sub |-> sub, of |-> "", row |-> NoRow,
   rows |-> NoRows, n |-> IF kind = "required" THEN sent + 1 ELSE 0]

Reply == FrameOf("required", "reply", 0)
Words == FrameOf("droppable", "words", 0)
Removal(s, t) == [FrameOf("required", "removed", s) EXCEPT !.of = t]
Snapshot(s, rows) ==
  [FrameOf("required", "snapshot", s) EXCEPT !.rows = rows]
RosterRow(s, t, row) ==
  [FrameOf("roster", "row", s) EXCEPT !.of = t, !.row = row]
-----------------------------------------------------------------------------
(* The rows f may replace: those of its teammate and subscription with no  *)
(* required frame behind them.                                             *)
Pending(q, f) ==
  {i \in DOMAIN q : /\ q[i].kind = "roster" /\ f.kind = "roster"
                    /\ q[i].sub = f.sub /\ q[i].of = f.of
                    /\ \A j \in i + 1 .. Len(q) : q[j].kind # "required"}

(* Omission means unchanged since a row the phone will now never get.      *)
\* Mutant: what the replaced row carried goes with it.
NotCarried(f, old) == f
Carried(f, old) ==
  [f EXCEPT !.row.lists =
     [k \in Keys |-> IF @[k] = Omitted THEN old.row.lists[k] ELSE @[k]]]

Sheddable(q) == {i \in DOMAIN q : q[i].kind = "droppable"}

\* Mutant: the queue has no bound.
NeverFull(q, f) == FALSE
Full(q, f) == Len(q) >= Capacity /\ Pending(q, f) = {}

\* Mutant: at capacity the oldest frame of any kind makes way.
ShedsAnything(q, f) ==
  IF Pending(q, f) # {}
    THEN LET at == Max(Pending(q, f))
         IN Append(RemoveAt(q, at), Carried(f, q[at]))
    ELSE IF Full(q, f) THEN Append(Tail(q), f) ELSE Append(q, f)
Offered(q, f) ==
  IF Pending(q, f) # {}
    THEN LET at == Max(Pending(q, f))
         IN Append(RemoveAt(q, at), Carried(f, q[at]))
    ELSE IF ~Full(q, f) THEN Append(q, f)
    ELSE IF Sheddable(q) # {} THEN Append(RemoveAt(q, Min(Sheddable(q))), f)
    ELSE q

Refused(q, f) ==
  Full(q, f) /\ Sheddable(q) = {} /\ f.kind # "droppable"

(* Outbox::send and its like: a frame that cannot be queued cuts the seat. *)
Sends(f) ==
  /\ outq' = IF cut THEN outq
             ELSE IF remote THEN Offered(outq, f) ELSE Append(outq, f)
  /\ sent' = IF cut \/ f.kind # "required" \/ (remote /\ Refused(outq, f))
               THEN sent ELSE sent + 1
  /\ cut' = (cut \/ (remote /\ Refused(outq, f)))
  /\ UNCHANGED remote

OutboxInit == outq = <<>> /\ sent = 0 /\ cut = FALSE
=============================================================================
