CONSTANTS
    Fds = {4, 5, 6}
    EventFd = 3
    MAX_CONNECTIONS = 6
    QueueCapacity = 2
    NumClients = 2
    MaxBytes = 4
    aligned_capacity_ = 3
SPECIFICATION Spec
INVARIANT
    ReceivedDataProcessed
CHECK_DEADLOCK FALSE
