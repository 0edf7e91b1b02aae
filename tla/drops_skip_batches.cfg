\* Drops change the epoch length the resume arithmetic divides by.
SPECIFICATION Spec
CONSTANTS
    BatchesPerEpoch = 3
    TotalEpochs = 3
    StepLimit = 0
    SaveEvery = 2
    SaveAtEpoch = FALSE
    KeepCkpts = 0
    Schedule = "epoch"
    UseCache = TRUE
    MayDrop = TRUE
    EsiSignals <- Never
    Configs <- OneConfig
    Tearable <- LargeFiles
    MaxCrashes = 1
INVARIANTS
    TrainedInOrder
