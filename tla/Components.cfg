SPECIFICATION ComponentsSpec
CONSTANTS
    Parts = {"cycle", "gates", "heartbeat", "status", "variants", "request", "feed"}
    s1 = s1
    s2 = s2
    w1 = w1
    w2 = w2
    a1 = a1
    b1 = b1
    k1 = k1
    r1 = r1
    r2 = r2
    r3 = r3
    Work <- ThreeSegments
    Generation <- TwoGenerations
    MaxItems = 2
    MaxAge = 9
    BatchLimit = 1
    Retained = 1
    TransitionCycles = 2
    RecoveryLag = 1
    SoftLag = 2
    HardLag = 4
    Tick = 3
    Listed = 1
    MaxSetbacks = 1
    Streams = {s1, s2}
    Service = Service
    Threads <- FourThreads
    StreamOf <- TwoExecutors
    StreamLimit = 2
    ServiceLimit = 2
    Pending = 0
    MaxBatches <- OneEach
    NoBeat = NoBeat
    MaxSilences = 2
    MaxFlaps = 2
    MaxDeaths = 1
    StreamIds = {s1}
    WorkerIds = {w1, w2}
    None = None
    MaxChanges = 1
    MaxTrouble = 1
    MaxCrashes = 1
    Nothing = Nothing
    Masters <- SomeMasters
    Policies <- SomePolicies
    MaxServed = 1
    MaxUnloaded = 1
    MaxRefusals = 1
    Requests = {r1, r2, r3}
    KeyOf <- SharedKey
    PrintOf <- TwoPrints
    NoKey = NoKey
    NoReceipt = NoReceipt
    MaxPosts = 2
    MaxRefused = 1
    AlertIds = {a1, b1}
    StreamOfAlert <- AlertStreams
    Poison = Poison
    NoStream = NoStream
    Published <- SomeAlerts
    MaxSessions = 2
    MaxConnections = 2
CHECK_DEADLOCK FALSE
INVARIANTS
    WorkAccounted
    SlotsServed
    LastWordStopping
    StatusTold
    MonitoredAsPromised
    OneCommandPerKey
    AlertsShown
PROPERTIES
    ModeJustified
    Drains
    IdentityKept
    AnswersAdvance
