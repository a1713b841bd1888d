SPECIFICATION Spec
CONSTANTS
  MaxNodes = 5
  MaxConsts = 2
  MaxRoots = 2
  MaxEvictions = 2
  Entries = {"default", "optimized"}
INVARIANTS ReadsMeant OutputsMeant DirectConflictsPlanned CopiesNeeded
CHECK_DEADLOCK FALSE
CONSTRAINT Canonical
