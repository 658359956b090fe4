SPECIFICATION Spec
CONSTANTS
    w1 = w1
    w2 = w2
    Workers <- TwoWorkers
    NSegs = 2
    MaxAttempts = 2
    Parallel = 2
    BatchLimit = 2
    Overload = FALSE
    SlowCalls = FALSE
    FaultSites = {}
    MaxFaults = 0
    MaxRestarts = 0
    MaxExpiries = 0
CHECK_DEADLOCK FALSE
SYMMETRY WorkerSymmetry
PROPERTIES
    BatchOrder
