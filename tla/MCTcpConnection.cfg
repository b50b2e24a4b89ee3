\* One application thread besides the loop; three bytes in messages of up to two,
\* so that a message can be written in part and another one queue behind it.
CONSTANTS
    Remote = {r1}
    MaxBytes = 3
    MaxMessage = 2
    MaxInbound = 1
    HighWaterMark = 2
    Disciplined = TRUE
SPECIFICATION FairSpec
PROPERTIES OutputDelivered ShutdownCompletes ClosedIsFreed
INVARIANTS
    PollerAgrees
    StreamInOrder
    NothingLost
    OutputScheduled
    FlushBeforeShutdown
    NoDanglingChannel
    NoUseAfterFree
    DownOnce
CHECK_DEADLOCK FALSE
