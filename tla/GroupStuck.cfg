CONSTANTS
  d1 = d1
  d2 = d2
  d3 = d3
  NumJobs = 2
  Deliveries <- MCTwo
  JobOf <- MCTwoJobs
  KindOf <- MCComplete
  Watchers = {w1}
  SubmitBeforeWork = TRUE
  ExpireLive = FALSE
  MaxFailures = 1
  OtherJob = OtherJob
  None = None
SPECIFICATION Spec
CHECK_DEADLOCK FALSE
PROPERTIES
  AggregationResumes
