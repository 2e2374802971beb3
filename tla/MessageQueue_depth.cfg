SPECIFICATION Spec
CONSTANTS
    Producers = {p1, p2}
    Consumer = c
    Messages = {m1, m2}
    NULL = NULL
    Top = 1
    HighPriority = 1
    MaxQueueDepth = 2
    MaxBatch = 2
SYMMETRY Symmetry
INVARIANTS TypeOK DepthExact NormalBounded NoInversion OneOwner LookasideInUse
    NoLostWakeup
