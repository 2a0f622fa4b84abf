CONSTANTS
  c1 = c1
  c2 = c2
  r1 = r1
  r2 = r2
  None = None
  Callers = {c1, c2}
  Runners = {r1, r2}
  MaxLines = 3
  Spoken = {2}
  MaxOthers = 1
  MaxStarts = 1
SPECIFICATION Spec
SYMMETRY Symmetry
INVARIANTS QueueIsDriven HeardInOrder
