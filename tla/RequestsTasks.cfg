SPECIFICATION Spec
CONSTANTS
    MaxOps = 3
    MaxRequests = 2
    NumProcessors = 2
    ProcessorDoes <- TasksOnly
    CallbackDoes <- TasksChaining
    Pipelined = TRUE
    PeerMayDrop = TRUE
CHECK_DEADLOCK FALSE
INVARIANTS
    NoDanglingUse
PROPERTIES
    ExchangeSpec
