\* The same pool, destroyed as soon as start() has returned.
CONSTANTS
    N = 1
    MaxHandedOut = 1
    Orderly = FALSE
SPECIFICATION FairSpec
PROPERTY DestructorReturns
CHECK_DEADLOCK FALSE
