CONSTANTS
    MaxLosses = 1
    MayVanish = TRUE
    Plans <- MCPlans
    Objects <- MCObjects
    Sizes = {1, 3}
    Stored = {3}
    MaxData = 2
    FileSizes = {2, 3}
    StoredFile = {3}
    Idns <- MCIdns
    IdnSizes = {1, 3}
    StoredIdn = {2}
    MaxFragment = 1
    FrameSizes = {3}
    Fields = {"ip"}
    Items = {"item"}
    MaxSub = 1
    ListParts = 3
    MaxList = 2
    MaxParts = 128
    PdoSizes = {2}
SPECIFICATION FairSpec
INVARIANT NoAnswerTwice
INVARIANT ObjectFits
INVARIANT FileIsWhole
INVARIANT IdnIsWhole
INVARIANT EthernetAgrees
INVARIANT DictionaryFits
PROPERTY TransferEnds
CHECK_DEADLOCK FALSE
