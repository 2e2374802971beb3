SPECIFICATION UnloadSpec
CONSTANTS
    Threads = {t1}
    Clients = {p1}
    NULL = NULL
    MaxConnections = 1
    MaxPendingRequests = 1
    QueueCapacity = 0
    DrainLimit = 1
    DisconnectDuringClose = FALSE
INVARIANT NoSendOnClosedPort
PROPERTIES CloseReturns ServedReclaimed
