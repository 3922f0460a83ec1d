SPECIFICATION FairSpec
CONSTANTS
    Size = 4
    Values = {v1, v2}
    NoValue = NoValue
INVARIANTS
    IInv
    NoDataRace
PROPERTIES
    ImplementsFifo
    EventuallyDelivered
