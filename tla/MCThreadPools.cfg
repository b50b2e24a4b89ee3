\* Three I/O threads as in test_EventLoopThreadPool, started, used and destroyed
\* by an owner that waits for every loop to begin; loops may also quit by themselves.
\* Two workers and three tasks: more tasks than workers, and tasks that enqueue.
CONSTANTS
    N = 3
    MaxHandedOut = 3
    Orderly = TRUE
    Worker = {w1, w2}
    Owner = o
    Task = {k1, k2, k3}
SPECIFICATION PoolsSpec
INVARIANTS QuitTargetExists ObjectOutlivesThread RoundRobin OnePlace Drained
PROPERTIES PoolStarts DestructorReturns TasksRun WorkersJoined
CHECK_DEADLOCK FALSE
