\* One other thread whose send() is under way when shutdown() is called.
CONSTANTS
    Remote = {r1}
    MaxBytes = 2
    MaxMessage = 1
    MaxInbound = 1
    HighWaterMark = 2
    Disciplined = FALSE
SPECIFICATION FairSpec
PROPERTY NoSendAfterShutdown
CHECK_DEADLOCK FALSE
