\* Epoch schedule; every mode that does not evolve prompts.
SPECIFICATION Spec
CONSTANTS
    Rows <- TwoRows
    Modes <- OfflineSeeded
    MaySwitch = FALSE
    Schedule = "epoch"
    Batches <- Whole
    MaxLen = 3
    TextLens <- ShortAndLong
    RandomPercent = 50
    EvaTopPercent = 50
    EvaMixPercent = 80
    Evolutions = 1
    MaxVisits = 4
INVARIANTS
    TypeOK
    ConstraintsScored
    GeneralMatchesText
    WithinLength
    ResetKeepsOne
PROPERTIES
    NoSilentDrop
