SPECIFICATION FairSpec
CONSTANTS
    NumThreads = 3
    Listener = {l1, l2}
    MaxConnections = 4
CHECK_DEADLOCK FALSE
INVARIANTS
    TypeOK
    Balanced
    RunOutlivesThreads
    OneToAccept
PROPERTIES
    StopEndsRun
    AcceptedIsServed
