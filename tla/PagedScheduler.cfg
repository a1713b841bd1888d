SPECIFICATION SchedulerSpec
CONSTANTS
  Blocks = {b1, b2, b3}
  BlockSize = 2
  Hashes = {}
  Externalized = Externalized
  None = None
  MaxSessions = 3
  MaxSlots = 3
  MaxFilled = 5
  MaxHandles = 2
  v1 = v1
  v2 = v2
  Values = {v1, v2}
  Eos = {v2}
  Blank = Blank
  NoHandle = NoHandle
  MaxBatch = 2
  MaxFed = 5
  Prompts <- LongPrompts
  Budgets = {3}
SYMMETRY Symmetry
INVARIANTS KvMatchesText DecodeInStep WithinCap FrontierExclusive SuspensionCurrent
PROPERTY ImplementsForward
CHECK_DEADLOCK FALSE
