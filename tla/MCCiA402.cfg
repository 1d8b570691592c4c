CONSTANTS
    ResetCycles = 2
    MaxFaults = 1
    MaxTarget = 5
    LossChoices = {TRUE, FALSE}
SPECIFICATION FairSpec
CHECK_DEADLOCK FALSE
INVARIANTS
    AtMostTwoAhead
    StopSwitchesOff
PROPERTIES
    StartsWhereItStands
    NoRestartAfterFault
    Starts
