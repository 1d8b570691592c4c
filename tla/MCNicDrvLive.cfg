CONSTANTS
    t1 = t1
    t2 = t2
    Threads <- MCThreads
    MAXBUF = 2
    WireCap = 2
    ReorderDepth = 1
    SendMayFail = TRUE
    MaxAlloc = 2
SPECIFICATION FairSpec
PROPERTY AnswerKept
PROPERTY PrimitiveEnds
CHECK_DEADLOCK FALSE
