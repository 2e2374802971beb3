SPECIFICATION Spec
CONSTANTS
    Threads = {t1}
    Files = {f1, f2}
    NULL = NULL
    MaxSnapshots = 1
    MaxIds = 2
    MaxEvents = 3
    MaxUpdates = 1
    MaxFaults = 1
INVARIANT LkgNeverDeleted
