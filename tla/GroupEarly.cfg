CONSTANTS
  d1 = d1
  d2 = d2
  d3 = d3
  NumJobs = 2
  Deliveries <- MCTwo
  JobOf <- MCTwoJobs
  KindOf <- MCComplete
  Watchers = {w1}
  SubmitBeforeWork = FALSE
  ExpireLive = FALSE
  MaxFailures = 0
  OtherJob = OtherJob
  None = None
SPECIFICATION Spec
CHECK_DEADLOCK FALSE
INVARIANTS
  CompletedCoversJobs
