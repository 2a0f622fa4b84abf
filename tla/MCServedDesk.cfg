SPECIFICATION Spec
CONSTANTS
  h1 = h1
  h2 = h2
  v1 = v1
  v2 = v2
  v3 = v3
  a1 = a1
  w1 = w1
  w2 = w2
  x1 = x1
  x2 = x2
  d1 = d1
  d2 = d2
  d3 = d3
  Nobody = Nobody
  None = Nobody
  Conns <- MCConns
  Ip <- MCIp
  Device <- MCDevice
  Crowds <- MCCrowds
  Devices = {d1, d2, d3}
  Hosts = {h1, h2}
  Visitors = {v1, v2, v3}
  Wires = {w1, w2}
  Callbacks = {a1}
  Dialed = {x1, x2}
  PendingMax = 2
  PendingPerIp = 1
  AuthenticatedMax = 2
  AuthenticatedPerDevice = 1
  HostsMax = 2
  VisitsPerDesk = 1
  OthersMax = 1
  RevokesMax = 1
CHECK_DEADLOCK FALSE
INVARIANTS Bounded SeatsAreTrue
PROPERTIES OnlyStandingReplaces Settles
