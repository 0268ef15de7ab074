CONSTANTS
  n1 = n1
  n2 = n2
  n3 = n3
  None = None
  Nodes = {n1,n2,n3}
  MaxWorkers = 2
  NodeLimit = 2
  MaxParents = 1
  MaxChildren = 5
  MaxHung = 1
  MaxFailures = 1
  MaxCrashes = 1
SPECIFICATION FairSpec
INVARIANT WInv
INVARIANT NodesAreFreedBySomebody
INVARIANT OneChildPerNode
PROPERTY RoundsEnd
PROPERTY NodesAreFreedUnlessFailed
CHECK_DEADLOCK FALSE
