CONSTANTS
  r = r
  o = o
  p = p
  s = s
  k = k
  None = None
  Repeating = {r}
  Scheduled = {o}
  Immediate = {s}
  Calendar = {k}
  Quiet = {}
  NumThreads = 2
  MaxJobs = 3
  MaxCrashes = 1
  MaxDeaths = 0
SPECIFICATION Spec
INVARIANT IInv
INVARIANT RecordedTasksDoNotOverlap
INVARIANT RunningIsRecorded
INVARIANT NeverForgotten
INVARIANT OnceMeansOnce
PROPERTY ResultsAreFinal
PROPERTY ImplementsLog
CHECK_DEADLOCK FALSE
