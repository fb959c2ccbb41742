CONSTANTS
  j1 = j1
  j2 = j2
  g1 = g1
  g2 = g2
  w1 = w1
  w2 = w2
  Jobs = {j1, j2}
  GroupOf <- MCGroupOf
  Workers = {w1, w2}
  MaxRetry = 0
  MaxRecoveries = 1
  RecoveryBatch = 2
  MaxCrashes = 1
  MaxThrows = 1
  MaxStalls = 1
  NoJob = NoJob
  NoGroup = NoGroup
SPECIFICATION Spec
CHECK_DEADLOCK FALSE
PROPERTIES
  DebtsSettled
  Delivered
