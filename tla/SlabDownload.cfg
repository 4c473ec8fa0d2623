SPECIFICATION FairSpec
CONSTANTS
  s1 = s1
  s2 = s2
  s3 = s3
  a1 = a1
  a2 = a2
  b1 = b1
  c1 = c1
  None = None
  Sectors = {s1, s2, s3}
  Hosts = {a1, a2, b1, c1}
  On <- MCOn
  Usable = {a1, a2, b1}
  MinShards = 2
  MaxOverdrive = 0
  MaxRefresh = 1
INVARIANTS
  InflightIsExact
  OverdriveBounded
  FailureExplained
PROPERTY SlabDownloadEnds
CHECK_DEADLOCK FALSE
