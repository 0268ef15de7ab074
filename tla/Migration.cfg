CONSTANTS
  n1 = n1
  n2 = n2
  v1 = v1
  v2 = v2
  None = None
  Nodes = {n1, n2}
  Vms = {v1, v2}
  MaxTasks = 2
  MaxEvents = 2
SPECIFICATION MCSpec
INVARIANT FollowsTheVm
INVARIANT MarkHasOwner
INVARIANT IInv
PROPERTY RecordedWhereItIs
PROPERTY ShownConverges
CHECK_DEADLOCK FALSE
