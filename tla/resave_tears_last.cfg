\* The last step is not a multiple of save_freq and a job started again after its last save saves it once more in place.
SPECIFICATION Spec
CONSTANTS
    BatchesPerEpoch = 3
    TotalEpochs = 2
    StepLimit = 0
    SaveEvery = 4
    SaveAtEpoch = FALSE
    KeepCkpts = 2
    Schedule = "epoch"
    UseCache = TRUE
    MayDrop = FALSE
    EsiSignals <- Never
    Configs <- OneConfig
    Tearable <- LargeFiles
    MaxCrashes = 2
INVARIANTS
    TrackerNamesCheckpoint
