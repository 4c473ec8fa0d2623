SPECIFICATION FairSpec
CONSTANTS
  NumSectors = 2
  NumHosts = 5
  MaxOverdrive = 1
  MaxStops = 1
  None = None
INVARIANTS
  DistinctHosts
  NoSectorForgotten
PROPERTY UploadEnds
CHECK_DEADLOCK FALSE
