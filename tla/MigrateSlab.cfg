SPECIFICATION Spec
CONSTANTS
  Contracts = {1, 2, 3, 4, 5}
  HostOf <- MCHostOf
  NumShards = 2
  MinShards = 1
  None = None
INVARIANTS
  DistinctHosts
  RiskMoveHasRoom
  AvoidedStayDownloadable
CHECK_DEADLOCK FALSE
