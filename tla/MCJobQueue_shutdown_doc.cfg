SPECIFICATION Spec
CONSTANTS
  None = None
  w1 = w1
  w2 = w2
  p1 = p1
  p2 = p2
  Owners = {o1}
  Inputs = {c1}
  CoverageInputs = {c1}
  Ids = {j1}
  Workers = {w1}
  Procs = {p1}
  Requests = {r1}
  Home <- ProgressHome
  WorkerClass <- ProgressClass
  Stale <- ProgressTime
  Keep = 0
  AgeCap = 1
  MaxAttempts = 2
  Limit <- QuotaLimit
  MaxQueued = 3
  DbFaults = FALSE
PROPERTIES ShutdownRequeues
