CONSTANTS
  NumThreads = 2
  c1 = c1
  c2 = c2
  j1 = j1
  j2 = j2
  j3 = j3
  None = None
  Callers <- MCCallers
  Jobs <- MCJobs
  TaskIds <- MCTaskIds
  TaskId <- MCTaskId
  Quiet <- MCOneQuiet

SPECIFICATION InOrderFairSpec
INVARIANT NewWorkNeverWaitsForWork
INVARIANT RunningIsRegistered
INVARIANT IInv
INVARIANT OneWorkerPerWork
PROPERTY BegunOnce
PROPERTY ImplementsPool
PROPERTY AcceptedWorkRuns
PROPERTY NewWorkReturns
CHECK_DEADLOCK FALSE
