CONSTANTS
    Calls <- MCCalls
    Errors <- MCErrors
    NoError = NoError
    MAXELIST = 3
    LONG = 4194304
SPECIFICATION ReportSpec
INVARIANT TextTells
PROPERTY ImplementsQueue
