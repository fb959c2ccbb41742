CONSTANTS
  j = j
  w1 = w1
  w2 = w2
  Jobs = {j}
  Workers = {w1, w2}
  TypeOf <- MCTypeOf
  DefaultTypes = {"EMAIL", "PUSH_NOTIFICATION"}
  CustomTypes = {"CUSTOM"}
  BatchSize = 2
  MaxThrows = 1
  SlowJobs = {j}
  NoJob = NoJob
SPECIFICATION Spec
CHECK_DEADLOCK FALSE
INVARIANTS
  ExitWaitsForLoops
PROPERTIES
  ShutdownEnds
