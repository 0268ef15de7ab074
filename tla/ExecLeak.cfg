CONSTANTS
  NumThreads = 1
  c1 = c1
  c2 = c2
  j1 = j1
  j2 = j2
  j3 = j3
  None = None
  Callers <- MCCallers
  Jobs <- MCJobs
  TaskIds <- MCTaskIds
  TaskId <- MCTaskId
  Quiet <- MCNoQuiet

SPECIFICATION ServeSpec
INVARIANT IdleWorkersAreFree
CHECK_DEADLOCK FALSE
