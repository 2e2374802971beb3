SPECIFICATION FairSpec
CONSTANTS
    Threads = {t1, t2}
    Threshold = 2
    MaxRetries = 1
INVARIANTS TypeOK ListsOutliveCalls
PROPERTIES CircuitRecovers ShutdownReturns CallsReturn
