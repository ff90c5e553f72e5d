SPECIFICATION FairSpec
CONSTANTS
    Byte <- MCByte
    Record <- MCRecord
    MaxReads = 3
CHECK_DEADLOCK FALSE
INVARIANTS
    WriteAccounting
    NothingStranded
    ReadLoopArmed
    NoByteLost
PROPERTIES
    BufferUntouched
    StreamSpec
    DisconnectCompletes
    EveryByteDelivered
    ConnectionReleased
