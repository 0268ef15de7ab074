CONSTANTS
  r = r
  o = o
  p = p
  s = s
  k = k
  None = None
  Repeating = {}
  Scheduled = {o}
  Immediate = {s}
  Calendar = {}
  Quiet = {}
  NumThreads = 1
  MaxJobs = 9
  MaxCrashes = 0
  MaxDeaths = 2
SPECIFICATION FairSpec
PROPERTY RequestsAreAnswered
CHECK_DEADLOCK FALSE
