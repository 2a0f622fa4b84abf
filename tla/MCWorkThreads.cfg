CONSTANTS
  t1 = t1
  t2 = t2
  k1 = k1
  k2 = k2
  r1 = r1
  r2 = r2
  l1 = l1
  l2 = l2
  b = b
  None = None
  Threads = {t1, t2}
  Callers = {k1, k2}
  Runners = {r1, r2}
  Lines = {l1, l2, b}
  Blanks = {b}
  MaxSides = 3
  Scenes <- MCScenes
SPECIFICATION Spec
CHECK_DEADLOCK FALSE
INVARIANTS ThreadsAgree LinesSurvive EndHolds
PROPERTY Settles
