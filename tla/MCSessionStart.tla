--------------------------- MODULE MCSessionStart ---------------------------
(* Two callers, each making any one call.  What holds with more of them is *)
(* proved for any number in SessionProofs.                                 *)
EXTENDS SessionStart, TLC

CONSTANTS t1, t2
=============================================================================
