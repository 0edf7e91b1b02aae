SPECIFICATION Spec
CONSTANTS
    NumPrompts = 2
    N = 3
    MinValid = 2
    MaxRetry = 2
    TwiceOversample = 3
    WorkerCounts <- FewOrMany
INVARIANTS
    TypeOK
    NothingWasted
PROPERTIES
    ImplementsPool
    SettledNotAsked
