SPECIFICATION Spec
CONSTANTS
    Threads = {t1, t2}
    f1 = f1
    Files <- MCFiles
    MaxStamp <- MCMaxStamp
    MaxBack <- MCMaxBack
    Keys <- MCKeys
    NULL = NULL
    MaxEntries = 1
    LateSignal = TRUE
INVARIANT NoUseAfterTeardown
