SPECIFICATION Spec
CONSTANTS
    Total = 4
    Required = 1
    Trigger = 1
    MaxRequired = 2
    MaxConcurrent = 1
    PendingMax = 1
    PartialModes <- PartialOnly
    TestFreq = 1
    SaveFreq = 1
    EsiSignals <- Never
    MaxFailures = 0
    MaxCrashes = 0
PROPERTY
    StreamEnds
CHECK_DEADLOCK FALSE
