CONSTANTS
  j1 = j1
  j2 = j2
  j3 = j3
  j4 = j4
  Jobs <- MCJobs
  Groups <- MCGroups
  GroupOf <- MCGroupOf
  BasePriority <- MCUnequalBase
  Alpha = 1
  Scale <- MCScale
  RequestLevels = {1, 3}
  MaxNow = 3
SPECIFICATION Spec
INVARIANTS
  NoStrandedGroup
  GroupCounters
PROPERTIES
  ActsAsSet
  OvertakingBounded
  EveryJobServed
