--------------------------- MODULE MCLinkedDesks ---------------------------
(* One request between two desks, either of which may be the one that      *)
(* dials.                                                                  *)
EXTENDS LinkedDesks

CONSTANTS r1
=============================================================================
