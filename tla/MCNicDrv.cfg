CONSTANTS
    t1 = t1
    t2 = t2
    Threads <- MCThreads
    MAXBUF = 3
    WireCap = 2
    ReorderDepth = 2
    SendMayFail = FALSE
    MaxAlloc = 4
SPECIFICATION Spec
SYMMETRY MCSymmetry
INVARIANT OneOwner
INVARIANT LeakIsReceived
INVARIANT StaleIsOld
CHECK_DEADLOCK FALSE
