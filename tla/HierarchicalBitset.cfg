SPECIFICATION Spec
CONSTANTS
    W = 3
    MAX_TICKS = 11
INVARIANTS
    SummariesAgree
    BestPricesCorrect
PROPERTY
    ImplementsSet
