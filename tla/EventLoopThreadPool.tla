------------------------- MODULE EventLoopThreadPool -------------------------
(***************************************************************************)
(* The I/O threads of a server (src/src/net/EventLoopThreadPool.cc,        *)
(* EventLoopThread.cc, src/src/base/Thread.cc): the owner starts N threads *)
(* one by one and waits for each to publish its EventLoop, hands out the   *)
(* loops in turn, and destroys the pool.  Of EventLoop only what starting  *)
(* and stopping needs is here: loop() clears quit_, tests it, polls.       *)
(*                                                                         *)
(* mutex_ guards loop_ in startLoop and threadFunc; what happens under it  *)
(* is one step.  The destructor reads loop_ without it.                    *)
(***************************************************************************)
EXTENDS Naturals

CONSTANTS N,              \* numThreads_
          MaxHandedOut,   \* bound: calls of getNextLoop
          Orderly         \* the application follows the rules of MayQuit and MayDestroy

ASSUME PoolAssumption ==
    /\ N \in Nat \ {0} /\ MaxHandedOut \in Nat
    /\ Orderly \in BOOLEAN

Thread == 1..N

VARIABLES opc,        \* where the owner is
          cur,        \* the thread the owner is starting or destroying
          wpc,        \* wpc[i]: where thread i is
          published,  \* published[i]: loop_ # nullptr
          quit,       \* quit[i]: quit_ of the loop of thread i
          freed,      \* freed[i]: the EventLoopThread object is gone
          next,       \* next_
          handedOut   \* history: handedOut[i]: times getNextLoop returned loop i

vars == <<opc, cur, wpc, published, quit, freed, next, handedOut>>

\* Owner: startLoop is "start", "check", "wait"; the destructor "readLoop", "quit",
\* "join"; in between "running"; "done" at the end
OwnerPC == {"start", "check", "wait", "running", "readLoop", "quit", "join", "done"}

\* Thread: threadFunc up to the publication is "init"; loop() "enter", "test", "poll";
\* "clear" and "leave" what follows it; the EventLoop lives on its stack
WorkerPC == {"none", "init", "enter", "test", "poll", "clear", "leave", "ended"}

LoopExists(i) == wpc[i] \in {"init", "enter", "test", "poll", "clear", "leave"}

\* The pool's and the threads' variables keep their types; next_ is always a valid
\* index into loops_.
TypeOK ==
    /\ opc \in OwnerPC
    /\ cur \in 1..(N + 1)
    /\ wpc \in [Thread -> WorkerPC]
    /\ published \in [Thread -> BOOLEAN]
    /\ quit \in [Thread -> BOOLEAN]
    /\ freed \in [Thread -> BOOLEAN]
    /\ next \in 0..(N - 1)
    /\ handedOut \in [Thread -> Nat]

Init ==
    /\ opc = "start" /\ cur = 1
    /\ wpc = [i \in Thread |-> "none"]
    /\ published = [i \in Thread |-> FALSE]
    /\ quit = [i \in Thread |-> FALSE]
    /\ freed = [i \in Thread |-> FALSE]
    /\ next = 0
    /\ handedOut = [i \in Thread |-> 0]

-----------------------------------------------------------------------------
(* The owner: EventLoopThreadPool::start, EventLoopThread::startLoop *)

\* Thread::start
StartThread ==
    /\ opc = "start"
    /\ wpc' = [wpc EXCEPT ![cur] = "init"]
    /\ opc' = "check"
    /\ UNCHANGED <<cur, published, quit, freed, next, handedOut>>

\* while (loop_ == nullptr) cond_.wait(lock)
WaitForLoop ==
    /\ opc = "check"
    /\ ~published[cur]
    /\ opc' = "wait"
    /\ UNCHANGED <<cur, wpc, published, quit, freed, next, handedOut>>

\* cond_.wait may return by itself
SpuriousWakeup ==
    /\ opc = "wait"
    /\ opc' = "check"
    /\ UNCHANGED <<cur, wpc, published, quit, freed, next, handedOut>>

\* startLoop returns loop_; start goes on to the next thread
StartLoopReturns ==
    /\ opc = "check"
    /\ published[cur]
    /\ opc' = IF cur = N THEN "running" ELSE "start"
    /\ cur' = IF cur = N THEN 1 ELSE cur + 1
    /\ UNCHANGED <<wpc, published, quit, freed, next, handedOut>>

\* A bug to tell apart: next_ sticks to the last loop
NextSticks == IF next + 1 >= N THEN N - 1 ELSE next + 1

NextIndex == IF next + 1 >= N THEN 0 ELSE next + 1

\* EventLoopThreadPool::getNextLoop
GetNextLoop ==
    /\ opc = "running"
    /\ handedOut[next + 1] < MaxHandedOut
    /\ handedOut' = [handedOut EXCEPT ![next + 1] = @ + 1]
    /\ next' = NextIndex
    /\ UNCHANGED <<opc, cur, wpc, published, quit, freed>>

-----------------------------------------------------------------------------
(* The owner: the destructors of the pool and of each EventLoopThread *)

\* Every loop has begun, and none is on its way out
MayDestroy ==
    Orderly => \A i \in Thread : wpc[i] = "ended" \/ (wpc[i] \in {"test", "poll"} /\ ~quit[i])

DestroyPool ==
    /\ opc = "running"
    /\ MayDestroy
    /\ opc' = "readLoop"
    /\ UNCHANGED <<cur, wpc, published, quit, freed, next, handedOut>>

\* The object of thread cur is gone (a thread not joined is detached)
Freed ==
    /\ freed' = [freed EXCEPT ![cur] = TRUE]
    /\ cur' = cur + 1
    /\ opc' = IF cur = N THEN "done" ELSE "readLoop"

\* if (loop_ != nullptr)
ReadLoop ==
    /\ opc = "readLoop"
    /\ IF published[cur] THEN opc' = "quit" /\ UNCHANGED <<cur, freed>> ELSE Freed
    /\ UNCHANGED <<wpc, published, quit, next, handedOut>>

\* A bug to tell apart: the loop is asked to quit only after the join
QuitLater == quit

\* quit() of the loop of thread cur
QuitAsked == [quit EXCEPT ![cur] = TRUE]

\* loop_->quit(), which does not wake the loop
QuitLoop ==
    /\ opc = "quit"
    /\ quit' = QuitAsked
    /\ opc' = "join"
    /\ UNCHANGED <<cur, wpc, published, freed, next, handedOut>>

\* A bug to tell apart: the destructor does not wait for the thread
NoWait == TRUE

\* What pthread_join waits for
ThreadEnded == wpc[cur] = "ended"

\* thread_.join()
Join ==
    /\ opc = "join"
    /\ ThreadEnded
    /\ Freed
    /\ UNCHANGED <<wpc, published, quit, next, handedOut>>

-----------------------------------------------------------------------------
(* EventLoopThread::threadFunc in thread i *)

\* A bug to tell apart: the waiter is not notified
NotNotified(i) == opc

\* cond_.notify_one()
Notified(i) == IF opc = "wait" /\ cur = i THEN "check" ELSE opc

\* callback_ has run; loop_ = &loop and notify_one, under mutex_
Publish(i) ==
    /\ wpc[i] = "init"
    /\ published' = [published EXCEPT ![i] = TRUE]
    /\ opc' = Notified(i)
    /\ wpc' = [wpc EXCEPT ![i] = "enter"]
    /\ UNCHANGED <<cur, quit, freed, next, handedOut>>

\* loop(): quit_ = false
EnterLoop(i) ==
    /\ wpc[i] = "enter"
    /\ quit' = [quit EXCEPT ![i] = FALSE]
    /\ wpc' = [wpc EXCEPT ![i] = "test"]
    /\ UNCHANGED <<opc, cur, published, freed, next, handedOut>>

TestQuit(i) ==
    /\ wpc[i] = "test"
    /\ wpc' = [wpc EXCEPT ![i] = IF quit[i] THEN "clear" ELSE "poll"]
    /\ UNCHANGED <<opc, cur, published, quit, freed, next, handedOut>>

\* poll returns, by an event or after kPollTimeMs
Turn(i) ==
    /\ wpc[i] = "poll"
    /\ wpc' = [wpc EXCEPT ![i] = "test"]
    /\ UNCHANGED <<opc, cur, published, quit, freed, next, handedOut>>

\* Code in the loop's thread stops its loop when nobody starts or destroys the pool
MayQuit == Orderly => opc = "running"

\* poll returns, and a callback or functor calls quit()
TurnAndQuit(i) ==
    /\ wpc[i] = "poll"
    /\ MayQuit
    /\ wpc' = [wpc EXCEPT ![i] = "test"]
    /\ quit' = [quit EXCEPT ![i] = TRUE]
    /\ UNCHANGED <<opc, cur, published, freed, next, handedOut>>

\* A bug to tell apart: loop_ keeps pointing to the stack of threadFunc
StillPublished(i) == published

\* loop_ = nullptr
Cleared(i) == [published EXCEPT ![i] = FALSE]

\* After loop(), under mutex_
ClearLoop(i) ==
    /\ wpc[i] = "clear"
    /\ published' = Cleared(i)
    /\ wpc' = [wpc EXCEPT ![i] = "leave"]
    /\ UNCHANGED <<opc, cur, quit, freed, next, handedOut>>

\* threadFunc returns: mutex_ is unlocked, the EventLoop destroyed
LeaveThread(i) ==
    /\ wpc[i] = "leave"
    /\ wpc' = [wpc EXCEPT ![i] = "ended"]
    /\ UNCHANGED <<opc, cur, published, quit, freed, next, handedOut>>

-----------------------------------------------------------------------------

Starting == StartThread \/ WaitForLoop \/ SpuriousWakeup \/ StartLoopReturns

Destroying == ReadLoop \/ QuitLoop \/ Join

threadFunc(i) ==
    \/ Publish(i) \/ EnterLoop(i) \/ TestQuit(i) \/ Turn(i) \/ ClearLoop(i) \/ LeaveThread(i)

Next ==
    \/ Starting \/ GetNextLoop \/ DestroyPool \/ Destroying
    \/ \E i \in Thread : threadFunc(i) \/ TurnAndQuit(i)

\* Every thread runs, and a poll ends after kPollTimeMs at the latest.  Spurious
\* wakeups are not owed.
Fairness ==
    /\ WF_vars(StartThread \/ WaitForLoop \/ StartLoopReturns)
    /\ WF_vars(Destroying)
    /\ \A i \in Thread : WF_vars(threadFunc(i))

Spec == Init /\ [][Next]_vars

FairSpec == Spec /\ Fairness

-----------------------------------------------------------------------------
(* Properties *)

\* The destructor never calls quit() on an EventLoop that has left the stack of
\* its thread.
QuitTargetExists == opc = "quit" => LoopExists(cur)

\* threadFunc works on members of the EventLoopThread (mutex_, loop_), so the
\* object must outlive it.
ObjectOutlivesThread ==
    \A i \in Thread : freed[i] => wpc[i] \in {"none", "ended"}

\* The loops are handed out evenly: round robin never favours a loop by more
\* than one connection.
RoundRobin ==
    \A i, j \in Thread : handedOut[i] <= handedOut[j] + 1

\* start() returns: each startLoop sees the loop its thread publishes
StartReturns == opc = "start" ~> opc = "running"

\* The destructor of a pool returns, as test_EventLoopThreadPool expects when it
\* starts a pool and leaves the scope.
DestructorReturns == opc = "readLoop" ~> opc = "done"
=============================================================================
