---------------------------- MODULE MCServedDesk ----------------------------
(* A few sockets at a time, so that each crowd brings one of the races     *)
(* out: a desk replaced while it is visited and called back, a budget over *)
(* two registrations, a visitor let in beside a replacement, a pool filled *)
(* from three addresses, and a direct and two relayed sockets of three     *)
(* devices, or of two, for two seats.                                      *)
EXTENDS ServedDesk

CONSTANTS h1, h2, v1, v2, v3, a1, w1, w2, x1, x2, d1, d2, d3

MCConns == {h1, h2, v1, v2, v3, a1, w1, w2, x1, x2}
MCIp == [c \in MCConns |-> IF c \in {v3, w2} THEN 2
                           ELSE IF c = w1 THEN 3 ELSE 1]
MCDevice == [c \in MCConns \ {v1, v2, v3} |->
               IF c \in {h2, x1} THEN d2 ELSE IF c = x2 THEN d3 ELSE d1]
MCCrowds == {{h1, h2, v1, a1}, {h1, h2, v1, v2}, {h1, h2, v3},
             {v1, w1, w2}, {w1, w2, x1}, {w1, x1, x2}}
=============================================================================
