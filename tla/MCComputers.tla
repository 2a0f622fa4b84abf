---------------------------- MODULE MCComputers ----------------------------
(* The teammate's session and a work thread, two calls, the person, and    *)
(* one failure of the container runtime.                                   *)
EXTENDS Computers, TLC

CONSTANTS dm, side, c1, c2

Symmetry == Permutations(Calls)
=============================================================================
