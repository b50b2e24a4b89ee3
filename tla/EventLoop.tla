------------------------------ MODULE EventLoop ------------------------------
(***************************************************************************)
(* One EventLoop (src/src/net/EventLoop.cc): the thread that owns it runs  *)
(* loop(), other threads hand it functors with queueInLoop / runInLoop and *)
(* stop it with quit().  A call of another thread is as many steps as it   *)
(* has accesses to shared state, so that the loop can move between the     *)
(* push and the wake-up.                                                   *)
(*                                                                         *)
(* wakeupFd is the eventfd: only whether it is readable (counter > 0) can  *)
(* be observed, since handleRead reads the whole counter.  loop() is       *)
(* entered once, as every use of it in the repository does; looping_ is    *)
(* written and never read, and left out.                                   *)
(***************************************************************************)
EXTENDS Naturals, Sequences, Functions

CONSTANTS Functor,       \* callbacks, each submitted at most once
          Callers,       \* threads other than the loop's own
          LoopThread,    \* the thread that created the EventLoop
          InitFunctors   \* the callbacks that the loop's thread queues before loop()

ASSUME ThreadsAssumption == LoopThread \notin Callers
ASSUME InitAssumption == InitFunctors \subseteq Functor

Threads == Callers \cup {LoopThread}

VARIABLES pendingFunctors,          \* pendingFunctors_, guarded by mutex_
          functors,                 \* the local vector of doPendingFunctors, what is left of it
          callingPendingFunctors,   \* callingPendingFunctors_
          wakeupFd,                 \* the eventfd is readable
          quit,                     \* quit_
          pc,                       \* where the loop's thread is
          activeChannels,           \* channels poll reported and loop() has yet to handle
          call,                     \* call[t]: the step of queueInLoop / quit thread t is at
          executed                  \* history: functors started, oldest first

vars == <<pendingFunctors, functors, callingPendingFunctors, wakeupFd, quit, pc,
          activeChannels, call, executed>>

queueVars == <<pendingFunctors, functors, executed>>
loopVars == <<pc, activeChannels, functors, callingPendingFunctors, executed>>

\* "wakeup" is wakeupChannel_; "io" stands for every other channel of the loop
Channels == {"wakeup", "io"}

PCs == {"outside", "test", "poll", "handle", "ioCallback", "swap", "run", "functor", "exited"}

\* "pushed": queueInLoop has released mutex_ and not yet decided to wake;
\* "quitting": quit() has stored quit_ and not yet decided to wake
Calls == {"idle", "pushed", "quitting"}

\* The members of EventLoop, the program counter of its thread and the calls of the
\* others keep their types: in particular nothing but functors is ever queued or run.
TypeOK ==
    /\ pendingFunctors \in Seq(Functor)
    /\ functors \in Seq(Functor)
    /\ executed \in Seq(Functor)
    /\ callingPendingFunctors \in BOOLEAN
    /\ wakeupFd \in BOOLEAN
    /\ quit \in BOOLEAN
    /\ pc \in PCs
    /\ activeChannels \subseteq Channels
    /\ call \in [Threads -> Calls]

Submitted == Range(pendingFunctors) \cup Range(functors) \cup Range(executed)

\* The loop's thread is between two calls of its own, in code of loop() itself
LoopIdle == call[LoopThread] = "idle"

\* Code of the user runs in the loop's thread: before loop(), in the callback
\* of a channel, or in a functor
InUserCode == pc \in {"outside", "ioCallback", "functor"}

MayCall(t) ==
    /\ call[t] = "idle"
    /\ t = LoopThread => InUserCode

-----------------------------------------------------------------------------
(* EventLoop::EventLoop *)

Init ==
    /\ pendingFunctors = << >>
    /\ functors = << >>
    /\ callingPendingFunctors = FALSE
    /\ wakeupFd = FALSE
    /\ quit = FALSE
    /\ pc = "outside"
    /\ activeChannels = {}
    /\ call = [t \in Threads |-> "idle"]
    /\ executed = << >>

-----------------------------------------------------------------------------
(* queueInLoop, runInLoop, quit, wakeup *)

wakeup == wakeupFd' = TRUE

\* A bug to tell apart: the wake-up belongs to other threads only
NeedsWakeupIfOther(t) == t # LoopThread

\* !isInLoopThread() || callingPendingFunctors_
NeedsWakeup(t) == t # LoopThread \/ callingPendingFunctors

\* A bug to tell apart: the functor is moved from before it is queued
PushedEmpty(f) == Append(pendingFunctors, LoopThread)

\* pendingFunctors_.emplace_back
Pushed(f) == Append(pendingFunctors, f)

\* queueInLoop(f), up to the release of mutex_ (runInLoop of another thread is
\* the same call).  The functors the loop's thread queues before loop() are
\* InitFunctors, and those are queued nowhere else.
Push(t, f) ==
    /\ MayCall(t)
    /\ f \notin Submitted
    /\ (f \in InitFunctors) <=> (t = LoopThread /\ pc = "outside")
    /\ pendingFunctors' = Pushed(f)
    /\ call' = [call EXCEPT ![t] = "pushed"]
    /\ UNCHANGED <<wakeupFd, quit, loopVars>>

\* queueInLoop, after the release of mutex_
WakeAfterPush(t) ==
    /\ call[t] = "pushed"
    /\ call' = [call EXCEPT ![t] = "idle"]
    /\ IF NeedsWakeup(t) THEN wakeup ELSE UNCHANGED wakeupFd
    /\ UNCHANGED <<pendingFunctors, quit, loopVars>>

\* runInLoop(f) of the loop's own thread: cb() at once
RunInLoop(f) ==
    /\ MayCall(LoopThread)
    /\ f \notin Submitted \cup InitFunctors
    /\ executed' = Append(executed, f)
    /\ UNCHANGED <<pendingFunctors, wakeupFd, quit, pc, activeChannels, functors,
                   callingPendingFunctors, call>>

Quit(t) ==
    /\ MayCall(t)
    /\ quit' = TRUE
    /\ call' = [call EXCEPT ![t] = "quitting"]
    /\ UNCHANGED <<pendingFunctors, wakeupFd, loopVars>>

WakeAfterQuit(t) ==
    /\ call[t] = "quitting"
    /\ call' = [call EXCEPT ![t] = "idle"]
    /\ IF t = LoopThread THEN wakeup ELSE UNCHANGED wakeupFd
    /\ UNCHANGED <<pendingFunctors, quit, loopVars>>

-----------------------------------------------------------------------------
(* loop() *)

\* loop() up to the while: quit_ is reset here, whoever set it before
EnterLoop ==
    /\ pc = "outside"
    /\ LoopIdle
    /\ quit' = FALSE
    /\ pc' = "test"
    /\ UNCHANGED <<queueVars, callingPendingFunctors, wakeupFd, activeChannels, call>>

\* A bug to tell apart: quit_ is not obeyed while nothing is queued
QuitWhenBusy == quit /\ pendingFunctors # << >>

MustQuit == quit

\* while (!quit_)
TestQuit ==
    /\ pc = "test"
    /\ pc' = IF MustQuit THEN "exited" ELSE "poll"
    /\ UNCHANGED <<queueVars, callingPendingFunctors, wakeupFd, quit, activeChannels, call>>

\* poll returns with some of the channels that are ready.  Another channel may
\* be ready at any time; the wakeup channel is when the eventfd is readable.
\* The event list may be too short for all of them.
PollReturn(ready) ==
    /\ pc = "poll"
    /\ ready # {}
    /\ "wakeup" \in ready => wakeupFd
    /\ activeChannels' = ready
    /\ pc' = "handle"
    /\ UNCHANGED <<queueVars, callingPendingFunctors, wakeupFd, quit, call>>

\* poll returns empty-handed: after kPollTimeMs, or because a signal interrupted
\* epoll_wait, whose -1 fillActiveChannels takes for no event
PollEmpty ==
    /\ pc = "poll"
    /\ pc' = "handle"
    /\ UNCHANGED <<queueVars, callingPendingFunctors, wakeupFd, quit, activeChannels, call>>

\* handleEvent of the wakeup channel: EventLoop::handleRead drains the eventfd
HandleRead ==
    /\ pc = "handle"
    /\ "wakeup" \in activeChannels
    /\ activeChannels' = activeChannels \ {"wakeup"}
    /\ wakeupFd' = FALSE
    /\ UNCHANGED <<queueVars, callingPendingFunctors, quit, pc, call>>

\* handleEvent of another channel: its callback starts ...
StartIoCallback ==
    /\ pc = "handle"
    /\ "io" \in activeChannels
    /\ activeChannels' = activeChannels \ {"io"}
    /\ pc' = "ioCallback"
    /\ UNCHANGED <<queueVars, callingPendingFunctors, wakeupFd, quit, call>>

\* ... and returns
EndIoCallback ==
    /\ pc = "ioCallback"
    /\ LoopIdle
    /\ pc' = "handle"
    /\ UNCHANGED <<queueVars, callingPendingFunctors, wakeupFd, quit, activeChannels, call>>

-----------------------------------------------------------------------------
(* doPendingFunctors() *)

\* A bug to tell apart: the flag is not raised
FlagForgotten == callingPendingFunctors

FlagRaised == TRUE

BeginPending ==
    /\ pc = "handle"
    /\ activeChannels = {}
    /\ callingPendingFunctors' = FlagRaised
    /\ pc' = "swap"
    /\ UNCHANGED <<queueVars, wakeupFd, quit, activeChannels, call>>

\* functors.swap(pendingFunctors_) under mutex_
SwapPending ==
    /\ pc = "swap"
    /\ functors' = pendingFunctors
    /\ pendingFunctors' = << >>
    /\ pc' = "run"
    /\ UNCHANGED <<callingPendingFunctors, wakeupFd, quit, activeChannels, call, executed>>

\* A bug to tell apart: the batch is run from its last functor
LastFunctor == functors[Len(functors)]

FirstFunctor == Head(functors)

\* the next functor of the batch starts ...
StartFunctor ==
    /\ pc = "run"
    /\ functors # << >>
    /\ executed' = Append(executed, FirstFunctor)
    /\ functors' = Tail(functors)
    /\ pc' = "functor"
    /\ UNCHANGED <<pendingFunctors, callingPendingFunctors, wakeupFd, quit, activeChannels, call>>

\* ... and returns
EndFunctor ==
    /\ pc = "functor"
    /\ LoopIdle
    /\ pc' = "run"
    /\ UNCHANGED <<queueVars, callingPendingFunctors, wakeupFd, quit, activeChannels, call>>

EndPending ==
    /\ pc = "run"
    /\ functors = << >>
    /\ callingPendingFunctors' = FALSE
    /\ pc' = "test"
    /\ UNCHANGED <<queueVars, wakeupFd, quit, activeChannels, call>>

-----------------------------------------------------------------------------

doPendingFunctors == BeginPending \/ SwapPending \/ StartFunctor \/ EndFunctor \/ EndPending

PollStep == \E ready \in SUBSET Channels : PollReturn(ready)

loop ==
    \/ EnterLoop \/ TestQuit \/ PollStep \/ PollEmpty
    \/ HandleRead \/ StartIoCallback \/ EndIoCallback
    \/ doPendingFunctors

Next ==
    \/ loop
    \/ \E t \in Threads :
          \/ \E f \in Functor : Push(t, f)
          \/ WakeAfterPush(t)
          \/ Quit(t)
          \/ WakeAfterQuit(t)
    \/ \E f \in Functor : RunInLoop(f)

\* What the scheduler and the kernel owe the loop: its thread keeps running,
\* callbacks and functors return whatever they call, a thread that is inside
\* queueInLoop or quit finishes the call, and epoll_wait returns once the
\* eventfd is readable.  Nothing says that other channels ever become ready,
\* or that poll times out.
LoopFairness ==
    /\ WF_vars(TestQuit \/ HandleRead \/ StartIoCallback \/ doPendingFunctors)
    /\ SF_vars(EndIoCallback) /\ SF_vars(EndFunctor)
    /\ WF_vars(wakeupFd /\ PollStep)
    /\ \A t \in Threads : WF_vars(WakeAfterPush(t)) /\ WF_vars(WakeAfterQuit(t))

Spec == Init /\ [][Next]_vars

FairSpec == Spec /\ LoopFairness

-----------------------------------------------------------------------------
(* Properties *)

\* queueInLoop's protocol of push, test, wake-up against loop()'s drain, swap:
\* the loop never sleeps in poll over a functor while no wake-up is on its way.
\* The functors queued by the loop's own thread before loop() are excepted:
\* queueInLoop does not wake for those, and the first poll may sleep over them.
NoLostWakeup ==
    (pc = "poll" /\ ~wakeupFd /\ \A t \in Threads : call[t] # "pushed")
        => Range(pendingFunctors) \subseteq InitFunctors

\* The comment in quit(): when another thread calls quit(), the loop's thread
\* is woken, so a loop that was told to quit never sleeps in poll.
QuitWakesLoop ==
    (pc = "poll" /\ quit /\ \A t \in Threads : call[t] # "quitting") => wakeupFd

\* The abstract executor: what waits is the rest of the batch, then the queue
Executor == INSTANCE FunctorQueue WITH waiting <- functors \o pendingFunctors

\* queueInLoop, runInLoop and doPendingFunctors together implement a FIFO executor:
\* every functor is started at most once, and queued ones in the order of their
\* queueInLoop calls, however the batches are cut.
ExecutorSpec == Executor!Spec

\* Every functor a running loop holds is run, and needs no poll timeout for
\* that, unless somebody stops the loop first.
FunctorsRun ==
    \A f \in Functor \ InitFunctors :
        (pc # "outside" /\ f \in Range(pendingFunctors) \cup Range(functors))
            ~> (f \in Range(executed) \/ quit)

\* quit() during loop() ends the loop, at the latest when poll times out after
\* kPollTimeMs (no wake-up is sent for a quit() of another thread)
QuitStopsLoop ==
    WF_vars(~wakeupFd /\ PollEmpty) => ((quit /\ pc # "outside") ~> (pc = "exited"))
=============================================================================
