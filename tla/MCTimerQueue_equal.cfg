\* One timer is enough: it fires in the microsecond in which it is due.
CONSTANTS
    Timer = {t1}
    Delays <- SomeDelays
    Intervals = {0, 3}
    MinDelay = 1
    MaxLate = 2
    WallSteps = {1}
    SubMicrosecond = TRUE
SPECIFICATION Spec
INVARIANT TimerArmed
CHECK_DEADLOCK FALSE
