SPECIFICATION FairSpec
CONSTANTS
  None = None
  w1 = w1
  w2 = w2
  p1 = p1
  p2 = p2
  Owners = {o1}
  Inputs = {c1, c2}
  CoverageInputs = {c1, c2}
  Ids = {j1, j2}
  Workers = {w1}
  Procs = {p1}
  Requests = {r1}
  Home <- ProgressHome
  WorkerClass <- ProgressClass
  Stale <- ProgressTime
  Keep = 0
  AgeCap = 1
  MaxAttempts = 2
  Limit <- ProgressLimit
  MaxQueued = 2
  DbFaults = TRUE
PROPERTIES EventuallySettled
