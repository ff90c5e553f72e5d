SPECIFICATION Spec
CONSTANTS
    MaxRequests = 3
    Copy = {c1, c2}
CHECK_DEADLOCK FALSE
INVARIANTS
    ProcessorsReadTheirRequest
    CopiesReadTheirRequest
