----------------------------- MODULE MCDmTurns -----------------------------
(* Two connections, and as many tasks as can be in run_queue at once: one  *)
(* that holds the claim and one that has let go of it.                     *)
EXTENDS DmTurns

CONSTANTS c1, c2, r1, r2

Symmetry == Permutations(Callers) \cup Permutations(Runners)
=============================================================================
