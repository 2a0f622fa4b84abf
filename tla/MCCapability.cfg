CONSTANTS
  l1 = l1
  l2 = l2
  l3 = l3
  c1 = c1
  NoHandle = NoHandle
  Leases = {l1, l2, l3}
  Checkers = {c1}
  MaxGeneration = 2
SPECIFICATION EpochSpec
SYMMETRY Symmetry
INVARIANTS LeasesAreTied CheckSound
PROPERTIES LeaseLife Implements
CHECK_DEADLOCK FALSE
