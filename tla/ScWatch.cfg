CONSTANTS
  task = task
  exec = exec
  None = None
  Services = {task, exec}
  Order <- MCOrder
  DependsOn <- MCDependsOn
  MaxThreads = 6
  MaxDeaths = 3
  MaxFailures = 1
SPECIFICATION FairSpec
INVARIANT SInv
INVARIANT OneThreadPerService
INVARIANT DependenciesFirst
PROPERTY ImplementsSupervisor
PROPERTY DeadAreRestarted
CHECK_DEADLOCK FALSE
