CONSTANTS
  j1 = j1
  j2 = j2
  j3 = j3
  g1 = g1
  g2 = g2
  Jobs = {j1, j2, j3}
  Groups = {g1, g2}
  GroupOf <- MCGroupOf
  Fetchers = {f1, f2}
  Dispatchers = {d1, d2}
  ReadyMax = 1
  Batch = 2
  GlobalRps = 2
  BaseBackoff = 1
  MaxBackoff = 2
  MaxRetry = 1
  NoJob = NoJob
SPECIFICATION Spec
INVARIANTS
  ReserveForArmed
  JobInOnePlace
  CounterNeverOver
PROPERTIES
  LossOnlyInHands
  BackoffEnds
