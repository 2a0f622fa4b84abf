CONSTANTS
  r1 = r1
  r2 = r2
  t1 = t1
  t2 = t2
  Runners = {r1, r2}
  Tasks = {t1, t2}
  Unbounded = Unbounded
  MaxLives = 2
  Times = 2
  MaxFirings = 2
  MaxActs = 2
  MaxCrashes = 1
SPECIFICATION Spec
SYMMETRY Symmetry
CHECK_DEADLOCK FALSE
INVARIANTS CountIsKept LastFiringEnds ThreadIsTrue
