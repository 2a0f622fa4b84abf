------------------------------- MODULE MCLog -------------------------------
(* A tape with one event in a closed segment.                              *)
EXTENDS Log, TLC

CONSTANTS a, b, c, s1

OneOlder == <<[id |-> a, n |-> 0, card |-> FALSE]>>
Symmetry == Permutations({b, c})
=============================================================================
