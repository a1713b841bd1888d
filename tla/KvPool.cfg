SPECIFICATION Spec
CONSTANTS
  Blocks = {b1, b2, b3}
  BlockSize = 2
  Hashes = {h1, h2}
  Externalized = Externalized
  None = None
  MaxSessions = 3
  MaxSlots = 2
  MaxFilled = 4
  MaxHandles = 2
ACTION_CONSTRAINT SharingOrEviction
SYMMETRY Symmetry
INVARIANTS TypeOK RefcountExact FreeIffUnreferenced PrefixWhole FillFitsBlocks IndexInverse
PROPERTY SlotMoves
CHECK_DEADLOCK FALSE
