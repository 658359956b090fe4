SPECIFICATION Spec
CONSTANTS
    None = None
    SegmentLength = 3
    AlertDuration = 5
    MaxGeneration = 0
    RepeatedCount = 2
    RepeatedWindow = 9
    UpdateEvery = 2
    RecoveryHealthy = 1
    Checks <- FreezeOnly
    Pictures <- MCPictures
    MaxSegments = 6
    MaxUpsets = 0
INVARIANT EveryAlertHeld
CHECK_DEADLOCK FALSE
