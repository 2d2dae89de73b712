SPECIFICATION Spec
CONSTANTS
  None = None
  w1 = w1
  w2 = w2
  p1 = p1
  p2 = p2
  Owners = {o1}
  Inputs = {link}
  CoverageInputs = {}
  Ids = {j1, j2}
  Workers = {w1, w2}
  Procs = {p1, p2}
  Requests = {r1}
  Home <- TakeoverHome
  WorkerClass <- TakeoverClass
  Stale <- TakeoverStale
  Keep = 1
  AgeCap = 2
  MaxAttempts = 3
  Limit <- TakeoverLimit
  MaxQueued = 2
  DbFaults = TRUE
SYMMETRY Symmetry
INVARIANTS SingleRunner HoldsClaim RunsBounded
PROPERTIES ImplementsLifecycle
