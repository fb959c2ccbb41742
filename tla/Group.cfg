CONSTANTS
  d1 = d1
  d2 = d2
  d3 = d3
  NumJobs = 2
  Deliveries <- MCThree
  JobOf <- MCWithForeign
  KindOf <- MCMixed
  Watchers = {w1, w2}
  SubmitBeforeWork = TRUE
  ExpireLive = FALSE
  MaxFailures = 1
  OtherJob = OtherJob
  None = None
SPECIFICATION Spec
CHECK_DEADLOCK FALSE
INVARIANTS
  AggregationExclusive
  CompletedCoversJobs
PROPERTIES
  NoFailureDuringAggregation
  OnlyAckBreaksRules
  GroupEnds
