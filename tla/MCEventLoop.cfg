\* Two foreign threads, the loop's thread, three functors of which one is
\* queued by the loop's thread before loop().
CONSTANTS
    Functor = {f1, f2, f3}
    Callers = {t1, t2}
    LoopThread = lt
    InitFunctors = {f3}
SPECIFICATION FairSpec
INVARIANTS TypeOK NoLostWakeup
PROPERTIES ExecutorSpec FunctorsRun QuitStopsLoop
CHECK_DEADLOCK FALSE
