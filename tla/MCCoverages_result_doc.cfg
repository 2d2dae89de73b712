SPECIFICATION CovSpec
CONSTANTS
  None = None
  w1 = w1
  w2 = w2
  p1 = p1
  o1 = o1
  Owners = {o1}
  Inputs = {c1}
  CoverageInputs = {c1}
  Ids = {j1, j2}
  Workers = {w1, w2}
  Procs = {p1}
  Requests = {r1}
  Editors = {e1, e2}
  Home <- AllHome
  WorkerClass <- AllClass
  Stale <- NoStale
  Keep = 0
  AgeCap = 1
  MaxAttempts = 3
  Limit <- OneJob
  MaxQueued = 1
  DbFaults = TRUE
  CovOwner <- OneOwner
  MaxCoverages = 1
  MaxVersion = 3
SYMMETRY Symmetry
INVARIANTS ResultCurrent
