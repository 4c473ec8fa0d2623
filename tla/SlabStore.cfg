SPECIFICATION FairSpec
CONSTANTS
  u1 = u1
  u2 = u2
  k1 = k1
  k2 = k2
  j1 = j1
  None = None
  Uploads = {u1, u2}
  Length <- MCLength
  Key <- MCKey
  Part <- MCPart
  Keys = {k1, k2}
  MaxSize = 3
  Threshold = 0
  Slots = {j1}
  MaxOps = 2
  MaxFailures = 1
  MaxRestarts = 1
INVARIANTS
  ObjectsIntact
  FullBufferIsHandedOn
PROPERTY
  FullBuffersUploaded
CHECK_DEADLOCK FALSE
