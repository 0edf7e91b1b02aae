\* Epoch schedule with the epoch cache; saves fall in the middle and at the end of epochs.
SPECIFICATION FairSpec
CONSTANTS
    BatchesPerEpoch = 3
    TotalEpochs = 4
    StepLimit = 0
    SaveEvery = 2
    SaveAtEpoch = FALSE
    KeepCkpts = 2
    Schedule = "epoch"
    UseCache = TRUE
    MayDrop = FALSE
    EsiSignals <- Never
    Configs <- OneConfig
    Tearable <- LargeFiles
    MaxCrashes = 3
INVARIANTS
    TypeOK
    EpochViewStable
    StepsCounted
    TrackerNamesCheckpoint
    BoundedLoss
PROPERTIES
    TrackerMovesForward
    ImplementsCurriculum
    CompletesTraining
