CONSTANTS
  r = r
  o = o
  p = p
  s = s
  k = k
  None = None
  Repeating = {r}
  Scheduled = {}
  Immediate = {}
  Calendar = {}
  Quiet = {r}
  NumThreads = 2
  MaxJobs = 3
  MaxCrashes = 0
  MaxDeaths = 0
SPECIFICATION Spec
INVARIANT RepeatingTasksDoNotOverlap
CHECK_DEADLOCK FALSE
