SPECIFICATION FairSpec
CONSTANTS
    Callers = {c1, c2}
    Completers = {k1}
    Completions = {x1, x2}
    NULL = NULL
    Worker = w
    MaxPending = 1
    DetachDuringExpiry = FALSE
INVARIANTS TypeOK RefCountExact CountersExact ResponseComplete
PROPERTIES ShutdownReturns
