SPECIFICATION Spec
CONSTANTS
    Capacity = 4
    OrderIds = {2, 3, 6, 7, 11}
    Indices = {1}
INVARIANTS
    EveryEntryIsFound
    ThrowsOnlyWhenFull
PROPERTY
    ImplementsIndex
