CONSTANTS
    Expected <- MCExpected
    Spares <- MCSpares
    MAX_FPRD_MULTI = 2
    Watched = TRUE
    MaxEvents = 3
    MaxLosses = 2
SPECIFICATION FairSpec
INVARIANT NoForeignDevice
INVARIANT OpIsConfigured
PROPERTY Recovers
CHECK_DEADLOCK FALSE
