CONSTANTS
  h1 = h1
  h2 = h2
  v1 = v1
  None = None
  p1 = p1
  p2 = p2
  Pools = {p1, p2}
  Hosts = {h1, h2}
  Vms = {v1}
  MaxPending = 2
  MaxRequests = 3
  MaxPolls = 1
  MaxEvents = 3
SPECIFICATION MCSpec
INVARIANT TypeOK
INVARIANT AppearsOnce
INVARIANT StaleIsKnown
PROPERTY Converges
CHECK_DEADLOCK FALSE
