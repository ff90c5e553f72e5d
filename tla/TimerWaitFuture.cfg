SPECIFICATION Spec
CONSTANTS
    Task = {t1}
    NoTask = NoTask
    MaxStops = 1
CHECK_DEADLOCK FALSE
INVARIANTS
    WaitFutureEnds
