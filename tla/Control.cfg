SPECIFICATION FairSpec
CONSTANTS
    c1 = c1
    c2 = c2
    off = off
    Configs <- MCConfigs
    Enabled <- MCEnabled
    MaxSessions = 3
INVARIANTS
    OneLiveSession
    RunningIsOwned
    RunsReportedConfig
PROPERTIES
    AppliedStopIsQuiet
    ClosedThenQuiet
CHECK_DEADLOCK FALSE
