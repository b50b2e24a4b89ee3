---------------------------- MODULE FunctorQueue ----------------------------
(***************************************************************************)
(* What an EventLoop promises to the code that hands it callbacks          *)
(* (EventLoop::runInLoop and EventLoop::queueInLoop), without threads,     *)
(* eventfd or poll: queued functors run in the order they were queued,     *)
(* each one exactly once, and a functor the loop's own thread passes to    *)
(* runInLoop overtakes the queue.                                          *)
(***************************************************************************)
EXTENDS Sequences, Functions

CONSTANT Functor      \* the callbacks, each submitted at most once

VARIABLES waiting,    \* functors queued and not yet started, oldest first
          executed    \* functors started, oldest first

vars == <<waiting, executed>>

Fresh(f) == f \notin Range(waiting) \cup Range(executed)

Init ==
    /\ waiting = << >>
    /\ executed = << >>

\* queueInLoop(f)
Submit(f) ==
    /\ Fresh(f)
    /\ waiting' = Append(waiting, f)
    /\ UNCHANGED executed

\* the loop starts the functor that has waited longest
RunNext ==
    /\ waiting # << >>
    /\ executed' = Append(executed, Head(waiting))
    /\ waiting' = Tail(waiting)

\* runInLoop(f) called by the loop's own thread
RunNow(f) ==
    /\ Fresh(f)
    /\ executed' = Append(executed, f)
    /\ UNCHANGED waiting

Next ==
    \/ \E f \in Functor : Submit(f) \/ RunNow(f)
    \/ RunNext

Spec == Init /\ [][Next]_vars
=============================================================================
