SPECIFICATION RequestsSpec
CONSTANTS
  c1 = c1
  c2 = c2
  k1 = k1
  k2 = k2
  NoCall = NoCall
  Calls = {c1, c2}
  Clients = {k1, k2}
  KindOf <- MCKind
  Uses <- MCUses
  EventsOf <- MCEvents
  GetCalls = {c1}
  RetriedCalls = {c1}
  MaxRetries = 1
  GotLimit = 1
  RetryCount = 2
  MaxFaults = 2
INVARIANTS
  RequestsBounded
  RequestsAreOwn
  EventsMatchOutcome
  RepeatsNeedDoubt
PROPERTIES
  CallsEnd
CHECK_DEADLOCK FALSE
