CONSTANTS
    SlaveMayFail = TRUE
    MaxStarts = 3
    MaxDrops = 1
    WaitCycles = 2
    MaxHeard = 3
    MaxUpdates = 2
SPECIFICATION DisplayFairSpec
CHECK_DEADLOCK FALSE
INVARIANTS
    OneExchanger
    AbortOnlyWhenEarly
    ShownIsNew
PROPERTIES
    DisabledBeforeInit
    StopReturns
