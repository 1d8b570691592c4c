CONSTANTS
    N = 3
    Requests <- MCRequests
    Rings <- MCRings
    MaxChanges = 2
    MaxLost = 2
    MaxLate = 2
    MaxAttempts = 2
    MaxFailed = 1
SPECIFICATION SpecOf
INVARIANT AnswerIsWhole
CHECK_DEADLOCK FALSE
