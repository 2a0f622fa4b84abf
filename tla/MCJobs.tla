------------------------------- MODULE MCJobs -------------------------------
(* One job, two tasks that can be in its queue at once, one call at a time *)
(* beside the clock.                                                       *)
EXTENDS Jobs, TLC

CONSTANTS r1, r2, t1, t2

Symmetry == Permutations(Runners) \cup Permutations(Tasks)
=============================================================================
