SPECIFICATION FairSpec
CONSTANTS
  Blocks = {b1, b2, b3}
  BlockSize = 2
  Hashes = {}
  Externalized = Externalized
  None = None
  MaxSessions = 2
  MaxSlots = 2
  MaxFilled = 4
  MaxHandles = 1
  v1 = v1
  v2 = v2
  Values = {v1, v2}
  Eos = {v2}
  Blank = Blank
  NoHandle = NoHandle
  MaxBatch = 2
  MaxFed = 4
  Prompts <- ShortPrompts
  Budgets = {1, 3}
PROPERTY Completes
CHECK_DEADLOCK FALSE
