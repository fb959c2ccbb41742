CONSTANTS
  j1 = j1
  j2 = j2
  j3 = j3
  w1 = w1
  w2 = w2
  c1 = c1
  c2 = c2
  Jobs = {j1, j2}
  Members = {j1, j2}
  Calls = {c1, c2}
  Handlers = {w1, w2}
  PageSize = 2
  MaxRetry = 1
  MaxFailures = 2
  MaxStops = 1
  None = None
  NoJob = NoJob
SPECIFICATION Spec
SYMMETRY MCSymmetry
CHECK_DEADLOCK FALSE
INVARIANTS
  TypeOK
  HandlingsNeedRetries
  RewriteExact
  FailuresNamed
  EarlyOnlyByRetries
PROPERTIES
  ResultsOnlyGrow
