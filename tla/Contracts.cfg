SPECIFICATION FairSpec
CONSTANTS
  None = None
  Period = 1
  RenewWindow = 0
  Buffer = 0
  Deadline = 1
  ProofWindow = 0
  PruneWindow = 1
  Batch = 2
  MaxContracts = 2
  MaxHeight = 3
  MaxReorg = 2
  MaxDisturbances = 2
INVARIANTS
  StatesFollowChain
  Lineage
  OneContract
  ElementsKept
PROPERTY
  CatchesUp
CHECK_DEADLOCK FALSE
