SPECIFICATION ObjectFairSpec
CONSTANTS
  Limit = 2
  BufferSize = 1
  Objects <- MCObjects
INVARIANTS
  RangeDelivered
  HeldWhileNeeded
PROPERTY DownloadEnds
CHECK_DEADLOCK FALSE
