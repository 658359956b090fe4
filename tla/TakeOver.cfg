SPECIFICATION Spec
CONSTANTS
    w1 = w1
    w2 = w2
    Workers <- TwoWorkers
    NSegs = 1
    MaxAttempts = 2
    Parallel = 1
    BatchLimit = 2
    Overload = FALSE
    SlowCalls = FALSE
    FaultSites = {"claim", "mark", "apply"}
    MaxFaults = 1
    MaxRestarts = 1
    MaxExpiries = 1
CHECK_DEADLOCK FALSE
SYMMETRY WorkerSymmetry
INVARIANTS
    TypeOK
    EffectOnce
    LocksHaveJobs
PROPERTIES
    SettledIsFinal
    ImplementsContract
