SPECIFICATION MigratorFairSpec
CONSTANTS
  a = a
  b = b
  c = c
  d = d
  w1 = w1
  w2 = w2
  NoSlab = NoSlab
  Health <- MCHealth
  Slabs = {a, b, c}
  Threads = {w1, w2}
  BatchSize = 2
  MaxRuns = 2
  MaxChanges = 2
INVARIANTS
  NoStuckDispatch
PROPERTIES
  MergeOldFirst
  RunEnds
CHECK_DEADLOCK FALSE
