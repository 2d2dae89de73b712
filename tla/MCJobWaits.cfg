SPECIFICATION Spec
CONSTANTS
  None = None
  Requests = {r1, r2}
  Streams = {s1}
  ShortIds = {j1}
  CoverageIds = {k1, k2}
  MaxStreams = 1
INVARIANTS TypeOK NoPanic
PROPERTIES NoneLeftWaiting
