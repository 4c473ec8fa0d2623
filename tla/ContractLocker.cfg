SPECIFICATION FairSpec
CONSTANTS
  a = a
  b = b
  d = d
  e = e
  Calls = {a, b, d, e}
  None = None
  Priority <- MCPriority
  Leased = {a, b, e}
INVARIANTS
  MutualExclusion
PROPERTIES
  PriorityHandOver
  ImplementsLease
  QueuedCallEnds
CHECK_DEADLOCK FALSE
