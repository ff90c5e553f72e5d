SPECIFICATION FairSpec
CONSTANTS
    MaxOps = 4
    MaxRequests = 2
    NumProcessors = 2
    ProcessorDoes <- OneOperation
    CallbackDoes <- Finishing
    Pipelined = FALSE
    PeerMayDrop = FALSE
CHECK_DEADLOCK FALSE
INVARIANTS
    TypeOK
    NoRequestForgotten
    NoDanglingUse
PROPERTIES
    ChainWaits
    EveryRequestAnswered
