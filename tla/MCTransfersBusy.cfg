CONSTANTS
    MaxLosses = 0
    MayVanish = FALSE
    Plans <- MCFileWrite
    Objects <- MCObjects
    Sizes = {1, 3}
    Stored = {3}
    MaxData = 2
    FileSizes = {2, 3}
    StoredFile = {3}
    Idns <- MCIdns
    IdnSizes = {1, 3}
    StoredIdn = {2}
    MaxFragment = 1
    FrameSizes = {3}
    Fields = {"ip"}
    Items = {"item"}
    MaxSub = 1
    ListParts = 3
    MaxList = 2
    MaxParts = 128
    PdoSizes = {2}
SPECIFICATION Spec
INVARIANT BusyIsResent
CHECK_DEADLOCK FALSE
