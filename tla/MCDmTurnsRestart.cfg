CONSTANTS
  c1 = c1
  c2 = c2
  r1 = r1
  r2 = r2
  None = None
  Callers = {c1}
  Runners = {r1, r2}
  MaxLines = 2
  Spoken = {2}
  MaxOthers = 0
  MaxStarts = 2
SPECIFICATION FairSpec
INVARIANT NoLineLost
PROPERTIES LinesAreTaken StopEnds
