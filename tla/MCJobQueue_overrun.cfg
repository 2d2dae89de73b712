SPECIFICATION FairSpec
CONSTANTS
  None = None
  w1 = w1
  w2 = w2
  p1 = p1
  p2 = p2
  Owners = {o1}
  Inputs = {hf}
  CoverageInputs = {}
  Ids = {j1}
  Workers = {w1, w2}
  Procs = {p1}
  Requests = {r1, r2}
  Home <- ProgressHome
  WorkerClass <- TakeoverClass
  Stale <- ProgressTime
  Keep = 0
  AgeCap = 1
  MaxAttempts = 3
  Limit <- ProgressLimit
  MaxQueued = 1
  DbFaults = TRUE
PROPERTIES EventuallySettled OutcomeStable
