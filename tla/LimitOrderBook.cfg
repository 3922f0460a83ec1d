SPECIFICATION Spec
VIEW LiveState
CONSTANTS
    MaxOrders = 4
    MAX_TICKS = 2
    ORDER_MAP_SIZE = 4
    W = 2
    SIDE_MASK = 8
    NULL_INDEX = 15
    OrderIds <- MCOrderIds
    MaxShares = 2
    AddMessages <- MCAddMessages
INVARIANTS
    PoolPartitioned
    QueuesDoublyLinked
    BestPricesFollowQueues
    IndexLeadsToOrder
    IndexHasRoom
PROPERTY
    ImplementsBook
CHECK_DEADLOCK FALSE
