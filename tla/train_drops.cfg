\* Generator passes may shrink the dataset, a restart may bring another configuration of the generator, one checkpoint is kept.
SPECIFICATION Spec
CONSTANTS
    BatchesPerEpoch = 3
    TotalEpochs = 4
    StepLimit = 0
    SaveEvery = 2
    SaveAtEpoch = FALSE
    KeepCkpts = 1
    Schedule = "epoch"
    UseCache = TRUE
    MayDrop = TRUE
    EsiSignals <- Never
    Configs <- SignedConfigs
    Tearable <- LargeFiles
    MaxCrashes = 2
INVARIANTS
    OneResumeRepeatsNothing
    FinalWeightsSaved
    NoStaleEpoch
