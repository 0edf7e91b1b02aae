SPECIFICATION Spec
CONSTANTS
    NumRows = 6
    Lengths = {1, 3, 4}
    Hidden = 8
    DpRank <- TwoAndOne
    Collects <- FirstOfTwo
    MaxTokens = 5
    MiniSize = 2
    MicroSize = 2
INVARIANTS
    TypeOK
    ResultsInPlace
    TrainedOnce
    Lockstep
    RanksBalanced
