SPECIFICATION FairSpec
CONSTANTS
    QueueCapacity = 3
    NumFrames = 6
    MaxOrders = 2
    Feeds <- MCFeeds
    OrderIds = {1, 2, 3}
    TELEMETRY_BUFFER_SIZE = 2
INVARIANTS
    LogExplainsBook
    RecoveryStopsWhereBookDid
    TelemetryOwnerByParity
    TelemetryHandedOverIntact
PROPERTIES
    ParseBlockReturns
    OrdersApplied
CHECK_DEADLOCK FALSE
