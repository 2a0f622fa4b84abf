CONSTANTS
  r1 = r1
  r2 = r2
  None = None
  Requests = {r1, r2}
  Kinds <- MCKinds
  Cap = 3
  MaxEvents = 2
SPECIFICATION Spec
SYMMETRY Symmetry
CHECK_DEADLOCK FALSE
INVARIANTS OnceEach PausedAtCap ToldOneThing NothingIsForgotten
