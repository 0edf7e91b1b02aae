SPECIFICATION Spec
CONSTANTS
    r1 = r1
    r2 = r2
    r3 = r3
    Requests = {r1, r2, r3}
    NumWorkers = 2
    MaxAttempts = 3
    MaxBatches = 2
    MaxDown = 1
    MaxHung = 1
    MaxFaults = 2
INVARIANTS
    TypeOK
    CountsCover
    NothingInherited
PROPERTIES
    LeastLoaded
    BatchEnds
