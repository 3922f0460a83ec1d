SPECIFICATION Spec
CONSTANTS
    QueueCapacity = 1
    NumFrames = 8
    MaxOrders = 2
    Feeds <- MCFeeds
    OrderIds = {1, 2, 3}
    TELEMETRY_BUFFER_SIZE = 2
INVARIANT
    ReplayRebuildsBook
CHECK_DEADLOCK FALSE
