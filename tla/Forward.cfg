SPECIFICATION MCSpec
CONSTANTS
  Blocks = {b1, b2, b3}
  BlockSize = 2
  Hashes = {}
  Externalized = Externalized
  None = None
  MaxSessions = 3
  MaxSlots = 2
  MaxFilled = 4
  MaxHandles = 1
  Values = {v1, v2}
  Blank = Blank
  MaxBatch = 2
  MaxFed = 3
ACTION_CONSTRAINT SharingOrEviction
SYMMETRY Symmetry
INVARIANTS BatchNeverStarved
PROPERTIES LogicalKvSpec SharedReadOnly
CHECK_DEADLOCK FALSE
