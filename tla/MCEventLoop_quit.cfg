\* One other thread that calls quit() while the loop polls.
CONSTANTS
    Functor = {f1}
    Callers = {t1}
    LoopThread = lt
    InitFunctors = {}
SPECIFICATION Spec
INVARIANT QuitWakesLoop
CHECK_DEADLOCK FALSE
