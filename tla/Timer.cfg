SPECIFICATION FairSpec
CONSTANTS
    Task = {t1, t2, t3}
    NoTask = NoTask
    MaxStops = 1
CHECK_DEADLOCK FALSE
INVARIANTS
    CalledOnce
    QueueHeld
PROPERTIES
    StartedIsServed
