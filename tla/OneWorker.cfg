SPECIFICATION FairSpec
CONSTANTS
    w1 = w1
    w2 = w2
    Workers <- OneWorker
    NSegs = 2
    MaxAttempts = 2
    Parallel = 1
    BatchLimit = 2
    Overload = TRUE
    SlowCalls = TRUE
    FaultSites = {"mark", "apply"}
    MaxFaults = 1
    MaxRestarts = 1
    MaxExpiries = 1
CHECK_DEADLOCK FALSE
INVARIANTS
    SuccessIsCommitted
    NothingLostSilently
PROPERTIES
    WindowOrder
    EventuallyDone
