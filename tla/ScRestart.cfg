CONSTANTS
  task = task
  exec = exec
  None = None
  Services = {task, exec}
  Order <- MCOrder
  DependsOn <- MCDependsOn
  MaxThreads = 4
  MaxDeaths = 1
  MaxFailures = 0
SPECIFICATION Spec
PROPERTY StoppedStayStopped
CHECK_DEADLOCK FALSE
