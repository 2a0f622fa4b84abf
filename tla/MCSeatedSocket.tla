--------------------------- MODULE MCSeatedSocket ---------------------------
(* Scenes that each bring one difficulty out: a slow phone and lists left  *)
(* out, teammates made and deleted under a view, and a socket that goes    *)
(* while its lanes are busy, a phone's and the desk's own. A phone may     *)
(* have one subscription open, and asks for more.                          *)
EXTENDS SeatedSocket

CONSTANTS a, b

MCHello == [kind |-> "hello"]
MCSub(s) == [kind |-> "sub", sub |-> s]
MCUnsub(s) == [kind |-> "unsub", sub |-> s]
MCCmd(lane, does, t, x) ==
  [kind |-> "cmd", lane |-> lane, does |-> does, of |-> t, to |-> x]
MCScene(remoteSeat, script, rooms, sessions, lines, words, cuts) ==
  [remote |-> remoteSeat, script |-> script,
   changes |-> [rooms |-> rooms, sessions |-> sessions, lines |-> lines,
                words |-> words, cuts |-> cuts]]

MCBusy == <<MCCmd("ordered", "write", a, 2), MCSub(1),
            MCCmd(a, "lists", a, 1), MCCmd("alone", "reads", a, 0)>>
MCLasting == <<MCSub(1), MCCmd(a, "lists", a, 1),
               MCCmd("ordered", "write", b, 2)>>
MCAgain == <<MCSub(1), MCCmd("ordered", "write", b, 0), MCUnsub(1), MCSub(2)>>
MCTwice == <<MCSub(1), MCSub(1), MCSub(2), MCUnsub(1)>>

MCScenes ==
  {MCScene(TRUE, <<MCHello, MCSub(1)>>, 0, 3, 0, 1, 0),
   MCScene(TRUE, <<MCSub(1), MCHello>>, 2, 1, 0, 0, 0),
   MCScene(TRUE, <<MCHello, MCSub(1)>>, 1, 1, 1, 0, 0),
   MCScene(TRUE, MCBusy, 0, 0, 0, 0, 1),
   MCScene(TRUE, MCAgain, 0, 0, 0, 0, 0),
   MCScene(TRUE, MCTwice, 0, 0, 0, 0, 0),
   MCScene(FALSE, MCLasting, 0, 0, 0, 0, 1)}
=============================================================================
