SPECIFICATION Spec
CONSTANTS
    Threads = {t1, t2}
    Clients = {p1, p2}
    NULL = NULL
    MaxConnections = 1
    MaxPendingRequests = 1
    QueueCapacity = 0
    DrainLimit = 1
SYMMETRY Symmetry
INVARIANTS
    TypeOK
    RefCountExact
    PayloadOnlyAfterKex
    DeadSlotHasReclaimer
    PendingAccounting
    NoSendOnClosedPort
    ConnectedClientsExact
