SPECIFICATION Spec
CONSTANTS
    None = None
    SegmentLength = 3
    AlertDuration = 5
    MaxGeneration = 1
    RepeatedCount = 2
    RepeatedWindow = 9
    UpdateEvery = 2
    RecoveryHealthy = 2
    Checks <- AllChecks
    Pictures <- MCPictures
    MaxSegments = 6
    MaxUpsets = 2
INVARIANTS AlertsHeld RecoveryEnds LongEventReported IncidentHeld NeverRaises
PROPERTY NoFalseRecovery
CHECK_DEADLOCK FALSE
