---------------------------- MODULE MCThreadPools ----------------------------
(* Small instances for TLC of the two pools of threads, the I/O threads of a     *)
(* server and the workers of base/ThreadPool.h.  They share no state: a          *)
(* behaviour is one of the one or of the other.                                  *)
EXTENDS EventLoopThreadPool, ThreadPool

VARIABLE subject    \* the pool of this behaviour

PoolsInit == Init /\ PoolInit /\ subject \in {"I/O threads", "workers"}

PoolsNext ==
    \/ subject = "I/O threads" /\ Next /\ UNCHANGED <<poolVars, subject>>
    \/ subject = "workers" /\ PoolNext /\ UNCHANGED <<vars, subject>>

PoolsSpec ==
    /\ PoolsInit /\ [][PoolsNext]_<<vars, poolVars, subject>>
    /\ subject = "I/O threads" => Fairness
    /\ subject = "workers" => PoolFairness

\* EventLoopThreadPool: start() returns, each startLoop sees the loop its thread publishes
PoolStarts == subject = "I/O threads" => StartReturns
=============================================================================
