----------------------------- MODULE Authority -----------------------------
(***************************************************************************)
(* What the capability module promises whoever holds a handle to a         *)
(* teammate: authority is granted once and only ever lost.  A handle is    *)
(* `live` or `spent`; a spent one never comes back, no handle granted      *)
(* while the teammate is quarantined is ever live, and closing the         *)
(* teammate ends every handle at once.  Capability implements this         *)
(* module.                                                                 *)
(***************************************************************************)
CONSTANT Leases

VARIABLES open,    \* whether the teammate's authority may be captured
          live,    \* the handles that still authorise their tools
          spent    \* the handles that never will again

vars == <<open, live, spent>>

TypeOK == /\ open \in BOOLEAN
          /\ live \in SUBSET Leases
          /\ spent \in SUBSET Leases
          /\ live \cap spent = {}

Init == open = TRUE /\ live = {} /\ spent = {}

(* A handle is made: live when what it is made from is.                    *)
Grant == /\ \E l \in Leases \ (live \cup spent) :
              \/ live' = live \cup {l} /\ open /\ UNCHANGED spent
              \/ spent' = spent \cup {l} /\ UNCHANGED live
         /\ UNCHANGED open

(* Some handles end: a revocation, a session's replacement, a stop.        *)
End == /\ live' \subseteq live
       /\ spent' = spent \cup (live \ live')
       /\ UNCHANGED open

(* A policy change quarantines the teammate and ends every handle.         *)
Close == /\ open' = FALSE
         /\ live' = {}
         /\ spent' = spent \cup live

(* Reopening grants nothing to any handle made so far.                     *)
Reopen == open' = TRUE /\ UNCHANGED <<live, spent>>

Next == Grant \/ End \/ Close \/ Reopen

Spec == Init /\ [][Next]_vars
=============================================================================
