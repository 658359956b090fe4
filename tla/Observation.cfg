SPECIFICATION TimelineSpec
CONSTANTS
    w1 = w1
    w2 = w2
    None = None
    Workers <- TwoWorkers
    Window = 2
    Lookback = 1
    Restarts <- TwoRestarts
    Edits <- ThreeEdits
    PdtTolerance = 1
    DurationTolerance = 1
    MaxSequence = 3
    MaxResets = 1
    MaxTrouble = 1
INVARIANTS
    SequenceAccounted
PROPERTIES
    ResetSeparates
    NamesFollow
SYMMETRY WorkerSymmetry
CHECK_DEADLOCK FALSE
