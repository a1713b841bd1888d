SPECIFICATION Spec
CONSTANTS
    Buffers = {1, 2, 3, 4, 5}
    BatchLimit = 3
    PoolCap = 5
    BucketDepth = 5
    Workloads <- MixedWorkloads
    MaxAhead = 1
    EvictSubmitMin = 2
    Shapes = {}
INVARIANTS
    OrderedPlansReadTheirInputs
    ResultComplete
PROPERTY
    EvictedBehindItsReaders
CHECK_DEADLOCK FALSE
