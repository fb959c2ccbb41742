CONSTANTS
  j1 = j1
  j2 = j2
  g1 = g1
  g2 = g2
  w1 = w1
  w2 = w2
  Jobs = {j1, j2}
  GroupOf <- MCGroupOf
  Workers = {w1, w2}
  MaxRetry = 1
  MaxRecoveries = 1
  RecoveryBatch = 2
  MaxCrashes = 2
  MaxThrows = 0
  MaxStalls = 1
  NoJob = NoJob
  NoGroup = NoGroup
SPECIFICATION Spec
CHECK_DEADLOCK FALSE
SYMMETRY Symmetry
INVARIANTS
  LeasesDescribeJobs
  DuplicatesNeedStalls
  RetriesBounded
PROPERTIES
  AstrayNeedsRace
  LossOnlyAfterRelease
