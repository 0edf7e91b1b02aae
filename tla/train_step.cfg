\* Step schedule, no cache, saves also at epoch ends and forced by ESI, training stopped by total_training_steps.
SPECIFICATION Spec
CONSTANTS
    BatchesPerEpoch = 3
    TotalEpochs = 2
    StepLimit = 5
    SaveEvery = 2
    SaveAtEpoch = TRUE
    KeepCkpts = 2
    Schedule = "step"
    UseCache = FALSE
    MayDrop = FALSE
    EsiSignals <- AnyTime
    Configs <- OneConfig
    Tearable <- LargeFiles
    MaxCrashes = 3
INVARIANTS
    TrainedInOrder
    OnePassPerEpoch
