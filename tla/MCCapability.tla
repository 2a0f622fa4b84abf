--------------------------- MODULE MCCapability ---------------------------
(* Three leases (a session's, one scoped from it, one lasting), one tool   *)
(* call and enough advances of the epoch for an update behind a stop.      *)
EXTENDS Capability, TLC

CONSTANTS l1, l2, l3, c1

Symmetry == Permutations(Leases)
=============================================================================
