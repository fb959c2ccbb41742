CONSTANTS
  j1 = j1
  j2 = j2
  j3 = j3
  g1 = g1
  g2 = g2
  f1 = f1
  f2 = f2
  w1 = w1
  w2 = w2
  Jobs = {j1, j2, j3}
  Calls = {j1, j2, j3}
  Groups = {g1, g2}
  CallGroup <- MCCallGroup
  Fetchers = {f1, f2}
  Workers = {w1, w2}
  GlobalRps <- MCGlobalRps
  Window <- MCWindow
  Ttl <- MCTtl
  MaxNow = 2
  BaseBackoff <- MCBaseBackoff
  MaxBackoff <- MCMaxBackoff
  MaxRetry <- MCMaxRetry
  MaxLost = 1
  NoJob = NoJob
SPECIFICATION Spec
SYMMETRY ActorSymmetry
CHECK_DEADLOCK FALSE
INVARIANTS
  RateKept
  CountersAgree
  StatsAgree
  CopiesNeedLostAnswers
  DriftNeedsLostAnswers
