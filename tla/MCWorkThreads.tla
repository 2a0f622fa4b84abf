--------------------------- MODULE MCWorkThreads ---------------------------
(* Two threads that want the one place, or have one each, and two tasks    *)
(* that say something; what else happens is a little at a time.            *)
EXTENDS WorkThreads

CONSTANTS t1, t2, k1, k2, r1, r2, l1, l2, b

Limits(p, ls, e, m) == [places |-> p, lines |-> ls, epochs |-> e, marks |-> m]

MCScenes == {Limits(1, {l1, l2}, 0, 1), Limits(1, {l1, b}, 2, 0),
             Limits(2, {l1, b}, 0, 0)}
=============================================================================
