CONSTANTS
    Words = 2
    Values = {1, 2}
    Erased = 2
    EC_DEFAULTRETRIES = 1
    MayVanish = TRUE
    MaxCalls = 2
    MaxLosses = 2
    MaxNacks = 3
SPECIFICATION FairSpec
INVARIANT AnswersAreTrue
PROPERTY AccessEnds
CHECK_DEADLOCK FALSE
