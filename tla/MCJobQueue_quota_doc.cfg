SPECIFICATION Spec
CONSTANTS
  None = None
  w1 = w1
  w2 = w2
  p1 = p1
  p2 = p2
  Owners = {o1}
  Inputs = {c1, c2, c3}
  CoverageInputs = {c1, c2, c3}
  Ids = {j1, j2, j3, j4}
  Workers = {w1}
  Procs = {p1}
  Requests = {r1, r2}
  Home <- ProgressHome
  WorkerClass <- ProgressClass
  Stale <- ProgressTime
  Keep = 0
  AgeCap = 1
  MaxAttempts = 2
  Limit <- ProgressLimit
  MaxQueued = 4
  DbFaults = FALSE
SYMMETRY QuotaSymmetry
INVARIANTS QuotaHeld
