---------------------------- MODULE MCExchanges ----------------------------
(* Two requests between two teammates.                                     *)
EXTENDS Exchanges, TLC

CONSTANTS r1, r2

MCKinds == {<<"handoff", FALSE>>, <<"ask", TRUE>>}
Symmetry == Permutations(Requests)
=============================================================================
