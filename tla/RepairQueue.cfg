SPECIFICATION Spec
CONSTANTS
  p = p
  q = q
  None = None
  MaxId = 3
  BatchSize = 1
  MaxRepairQueue = 2
  Policies = {p, q}
  Entry = 3
  Exit = 1
  Evidence <- MCEvidence
  TTL = 1
  MaxQueueDepth = 2
  MaxClock = 1
  MaxChanges = 1
INVARIANTS
  HysteresisHasCause
  StableSlabsScanned
  PagewiseCutIsExact
  ExpiryDropsOnlyTheStale
CHECK_DEADLOCK FALSE
