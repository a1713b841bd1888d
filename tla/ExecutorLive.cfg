SPECIFICATION Spec
CONSTANTS
    Buffers = {1, 2, 3, 4, 5}
    BatchLimit = 3
    PoolCap = 5
    BucketDepth = 5
    Workloads <- ShortWorkloads
    MaxAhead = 2
    EvictSubmitMin = 2
    Shapes = {}
PROPERTIES
    RealizeReturns
CHECK_DEADLOCK FALSE
