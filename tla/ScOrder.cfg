CONSTANTS
  a = a
  b = b
  c = c
  Services = {a, b, c}
SPECIFICATION FairSpec
INVARIANT IInv
INVARIANT RespectsDependencies
INVARIANT ReturnsAll
INVARIANT RaisesOnlyOnCycle
PROPERTY SortEnds
CHECK_DEADLOCK FALSE
