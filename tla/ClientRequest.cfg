SPECIFICATION FairSpec
CONSTANTS
    Local = TRUE
    UserDisconnects = TRUE
CHECK_DEADLOCK FALSE
INVARIANTS
    HandlerCalledOnce
    IdleDisconnectIsSafe
PROPERTIES
    CloseLosesNothing
    SentRequestEnds
    FinishedRequestCloses
