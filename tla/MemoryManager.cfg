SPECIFICATION MemoryFairSpec
CONSTANTS
  a = a
  b = b
  c = c
  d = d
  Acquirers = {a, b, c, d}
  Limited = {a, b}
  Total = 3
  Limit = 2
  Amt <- MCAmt
INVARIANTS
  NoStall
PROPERTY CallsEnd
CHECK_DEADLOCK FALSE
