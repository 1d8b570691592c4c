CONSTANTS
    Outputs <- MCOutputs
    Inputs <- MCInputs
    MaxSlaves = 3
    LIMIT = 6
    MAXIOSEGMENTS = 4
    OverlapChoices = {TRUE, FALSE}
    DcChoices = {TRUE, FALSE}
    MAXBUF = 2
    MaxServed = 2
    MaxCycles = 2
SPECIFICATION PdSpec
INVARIANT SegmentsRight
INVARIANT FmmusRight
INVARIANT EachByteOnce
INVARIANT WkcTells
INVARIANT InputsFresh
PROPERTY OnlyInputsChange
CHECK_DEADLOCK FALSE
