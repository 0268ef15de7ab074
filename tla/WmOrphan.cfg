CONSTANTS
  n1 = n1
  n2 = n2
  n3 = n3
  None = None
  Nodes = {n1,n2}
  MaxWorkers = 1
  NodeLimit = 2
  MaxParents = 1
  MaxChildren = 3
  MaxHung = 1
  MaxFailures = 0
  MaxCrashes = 1
SPECIFICATION FairSpec
PROPERTY NodesAreFreed
CHECK_DEADLOCK FALSE
