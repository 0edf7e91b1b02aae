\* Step schedule; restarts may bring any other mode, the EVA baseline included.
SPECIFICATION Spec
CONSTANTS
    Rows <- TwoRows
    Modes <- ValidModes
    MaySwitch = TRUE
    Schedule = "step"
    Batches <- Whole
    MaxLen = 3
    TextLens <- ShortAndLong
    RandomPercent = 50
    EvaTopPercent = 75
    EvaMixPercent = 50
    Evolutions = 1
    MaxVisits = 3
INVARIANTS
    NoForeignConstraint
    NoStaleGroup
