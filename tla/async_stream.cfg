SPECIFICATION Spec
CONSTANTS
    Total = 5
    Required = 1
    Trigger = 2
    MaxRequired = 2
    MaxConcurrent = 2
    PendingMax = 1
    PartialModes <- Both
    TestFreq = 2
    SaveFreq = 2
    EsiSignals <- Both
    MaxFailures = 1
    MaxCrashes = 1
INVARIANTS
    TypeOK
    Conserved
    InFlightBound
PROPERTIES
    ImplementsStream
    StreamEnds
