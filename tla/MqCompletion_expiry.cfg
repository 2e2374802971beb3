SPECIFICATION Spec
CONSTANTS
    Callers = {c1}
    Completers = {k1}
    Completions = {x1}
    NULL = NULL
    Worker = w
    MaxPending = 1
    DetachDuringExpiry = TRUE
INVARIANT RefCountExact
