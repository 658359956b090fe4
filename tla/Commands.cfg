SPECIFICATION FairSpec
CONSTANTS
    id1 = id1
    id2 = id2
    id3 = id3
    name1 = name1
    name2 = name2
    cfg1 = cfg1
    cfg2 = cfg2
    Ids <- TwoIds
    Names <- TwoNames
    Payloads <- Lifecycle
    BatchSize = 2
    MaxEntries = 3
    MaxFaults = 1
    MaxCrashes = 1
    MaxFailures = 1
INVARIANTS
    OneResult
    AckedIsAnswered
    ReportedIsRecorded
PROPERTIES
    NoOvertaking
    AllAcked
CHECK_DEADLOCK FALSE
