SPECIFICATION Spec
CONSTANTS
    Threads = {t1, t2}
    Files = {f1, f2}
    NULL = NULL
    MaxSnapshots = 1
    MaxIds = 3
    MaxEvents = 3
    MaxUpdates = 1
    MaxFaults = 1
SYMMETRY Symmetry
INVARIANTS TypeOK RollbackRestores ListedComplete FlagHasOwner
PROPERTY LkgKept
