SPECIFICATION AnyRestoreSpec
CONSTANTS
  Blocks = {b1, b2, b3}
  BlockSize = 2
  Hashes = {h1}
  Externalized = Externalized
  None = None
  MaxSessions = 2
  MaxSlots = 2
  MaxFilled = 4
  MaxHandles = 1
SYMMETRY Symmetry
INVARIANT RefcountExact
CHECK_DEADLOCK FALSE
