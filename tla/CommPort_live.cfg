SPECIFICATION FairSpec
CONSTANTS
    Threads = {t1}
    Clients = {p1}
    NULL = NULL
    MaxConnections = 1
    MaxPendingRequests = 1
    QueueCapacity = 1
    DrainLimit = 1
PROPERTIES SlotReclaimed SendsReturn ImplementsLifetime
