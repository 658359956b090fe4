SPECIFICATION Spec
CONSTANTS
    c1 = c1
    c2 = c2
    off = off
    Configs <- MCConfigs
    Enabled <- MCEnabled
    MaxSessions = 3
PROPERTIES
    AppliedStartIsRunning
SYMMETRY ConfigSymmetry
CHECK_DEADLOCK FALSE
