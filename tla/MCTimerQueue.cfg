\* Three timers, that fire once or every three ticks.
CONSTANTS
    Timer = {t1, t2, t3}
    Delays <- SomeDelays
    Intervals = {0, 3}
    MinDelay = 1
    MaxLate = 2
    WallSteps = {1}
    SubMicrosecond = FALSE
SPECIFICATION FairSpec
INVARIANTS TimerArmed OneOwner
PROPERTIES TimersFire
CHECK_DEADLOCK FALSE
