SPECIFICATION Spec
CONSTANTS
    MaxOps = 1
    MaxRequests = 1
    NumProcessors = 1
    ProcessorDoes <- Operating
    CallbackDoes <- Finishing
    Pipelined = FALSE
    PeerMayDrop = TRUE
CHECK_DEADLOCK FALSE
INVARIANTS
    NoDanglingUse
