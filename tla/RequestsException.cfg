SPECIFICATION Spec
CONSTANTS
    MaxOps = 2
    MaxRequests = 1
    NumProcessors = 2
    ProcessorDoes <- OperatingOrThrowing
    CallbackDoes <- Passing
    Pipelined = FALSE
    PeerMayDrop = FALSE
CHECK_DEADLOCK FALSE
INVARIANTS
    ExceptionsCaught
