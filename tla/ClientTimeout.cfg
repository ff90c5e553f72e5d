SPECIFICATION FairSpec
CONSTANTS
    Local = FALSE
    UserDisconnects = FALSE
CHECK_DEADLOCK FALSE
PROPERTIES
    EveryRequestEnds
