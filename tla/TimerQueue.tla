------------------------------ MODULE TimerQueue ------------------------------
(***************************************************************************)
(* The timers of an event loop (src/src/time/TimerQueue.cc, Timer.h,       *)
(* Timestamp.h): a set of timers ordered by expiration, and one timerfd    *)
(* that is armed for the first of them.                                    *)
(*                                                                         *)
(* Time is discrete and counted from now: due[t] is the expiration of t    *)
(* minus Timestamp::now(), so a tick of the clock lowers every due and     *)
(* behaviours never run out of time.  Timers are slots that allocation     *)
(* takes and delete gives back.  Ties in the ordering are decided by the   *)
(* address of the Timer, so by anything.                                   *)
(***************************************************************************)
EXTENDS Integers, FiniteSets, SequencesExt

CONSTANTS Timer,            \* the slots
          Delays,           \* possible expirations in addTimer, relative to now
          Intervals,        \* possible intervals, 0 for a timer that fires once
          MinDelay,         \* the 100 microseconds of resetTimerfd
          MaxLate,          \* bound: how late a loop that has work may be
          WallSteps,        \* how far the wall clock may move while the timerfd's clock ticks
          SubMicrosecond    \* may the timerfd be handled in the very microsecond
                            \* in which it fires?

ASSUME TimeAssumption ==
    /\ IsFiniteSet(Timer)
    /\ IsFiniteSet(Delays) /\ Delays \subseteq Int
    /\ IsFiniteSet(Intervals) /\ Intervals \subseteq Nat
    /\ MinDelay \in Nat \ {0} /\ MaxLate \in Nat \ {0}
    /\ IsFiniteSet(WallSteps) /\ WallSteps \subseteq Nat
    /\ SubMicrosecond \in BOOLEAN

VARIABLES timers,      \* timers_
          due,         \* expiration_ of every timer, relative to now
          interval,    \* interval_ of every timer; repeat_ is interval > 0
          timerfd,     \* the kernel's timer: is it armed, and how long until it fires
          expired,     \* the local vector of handleRead, without what is already reset
          toRun,       \* how many callbacks of expired are still to be called
          pending,     \* addTimerInLoop functors other threads have queued
          alive,       \* timers that are allocated
          active,      \* epoll_wait has reported timerfd_
          pc           \* where the loop's thread is

queueVars == <<timers, due, interval, alive>>
vars == <<queueVars, timerfd, expired, toRun, pending, active, pc>>

Repeats(t) == interval[t] > 0

\* The queue's variables keep their types; the loop over expired never calls more
\* callbacks than the vector has.
TypeOK ==
    /\ timers \subseteq Timer /\ alive \subseteq Timer
    /\ due \in [Timer -> Int] /\ interval \in [Timer -> Intervals \cup {0}]
    /\ timerfd \in [armed : BOOLEAN, left : Nat \cup {-1}]
    /\ expired \in Seq(Timer) /\ pending \in Seq(Timer)
    /\ toRun \in 0..Len(expired)
    /\ active \in BOOLEAN
    /\ pc \in {"poll", "events", "run", "reset", "functors", "gone"}

\* The constructor; createTimerfd leaves the timer disarmed
Init ==
    /\ timers = {} /\ alive = {}
    /\ due = [t \in Timer |-> 0] /\ interval = [t \in Timer |-> 0]
    /\ timerfd = [armed |-> FALSE, left |-> 0]
    /\ expired = << >> /\ toRun = 0 /\ pending = << >>
    /\ active = FALSE /\ pc = "poll"

-----------------------------------------------------------------------------
(* The timerfd *)

\* It has fired: when its time was up before this microsecond, or in it
Readable == timerfd.armed /\ timerfd.left < IF SubMicrosecond THEN 1 ELSE 0

\* resetTimerfd: an expiration d from now, at least MinDelay; settime also takes
\* back a firing that has not been read
resetTimerfd(d) ==
    [armed |-> TRUE, left |-> IF d < MinDelay THEN MinDelay ELSE d]

\* ReadTimerFd: a timer that has fired becomes idle; otherwise EAGAIN, only logged
ReadTimerFd == IF Readable THEN [armed |-> FALSE, left |-> 0] ELSE timerfd

\* There is nothing to do for the timers
Idle == ~Readable /\ ~active /\ pending = << >> /\ pc \in {"poll", "events", "functors"}

\* One tick of CLOCK_MONOTONIC, while the wall clock moves by d.  The bounds: a loop
\* with work to do gets to it before something is MaxLate late; the second one is
\* never reached.
Tick(d) ==
    /\ pc # "gone"
    /\ \A t \in alive :
          due[t] > IF Idle THEN -(MaxLate + 2 * MinDelay + 2) ELSE -MaxLate
    /\ due' = [t \in Timer |-> IF t \in alive THEN due[t] - d ELSE due[t]]
    /\ timerfd' = IF timerfd.armed /\ timerfd.left >= 0
                  THEN [timerfd EXCEPT !.left = @ - 1] ELSE timerfd
    /\ UNCHANGED <<timers, interval, alive, expired, toRun, pending, active, pc>>

-----------------------------------------------------------------------------
(* addTimer *)

\* insert's result: is an expiration d from now before all those in ts?
earliestChanged(d, ts) == ts = {} \/ \A e \in ts : d < due[e]

\* A bug to tell apart: the timerfd is never armed for a new timer
NotArmed(d) == timerfd

\* addTimerInLoop arms the timerfd for a timer that is before all others
Armed(d) == IF earliestChanged(d, timers) THEN resetTimerfd(d) ELSE timerfd

\* new Timer(cb, when, interval)
Allocate(t, d, i) ==
    /\ t \in Timer \ alive
    /\ alive' = alive \cup {t}
    /\ due' = [due EXCEPT ![t] = d]
    /\ interval' = [interval EXCEPT ![t] = i]

\* addTimer from the loop's thread, in a callback of any kind: runInLoop calls
\* addTimerInLoop at once
AddInLoop(t, d, i) ==
    /\ pc \in {"events", "run", "functors"}
    /\ Allocate(t, d, i)
    /\ timers' = timers \cup {t}
    /\ timerfd' = Armed(d)
    /\ UNCHANGED <<expired, toRun, pending, active, pc>>

\* addTimer from another thread: runInLoop queues addTimerInLoop
AddFromOutside(t, d, i) ==
    /\ pc # "gone"
    /\ Allocate(t, d, i)
    /\ pending' = Append(pending, t)
    /\ UNCHANGED <<timers, timerfd, expired, toRun, active, pc>>

\* addTimerInLoop, run by doPendingFunctors
addTimerInLoop ==
    /\ pc = "functors" /\ pending # << >>
    /\ timers' = timers \cup {Head(pending)}
    /\ timerfd' = Armed(due[Head(pending)])
    /\ pending' = Tail(pending)
    /\ UNCHANGED <<due, interval, alive, expired, toRun, active, pc>>

-----------------------------------------------------------------------------
(* The loop and handleRead *)

\* epoll_wait returns, with timerfd_ or without it
Poll ==
    /\ pc = "poll"
    /\ active' = Readable
    /\ pc' = "events"
    /\ UNCHANGED <<queueVars, timerfd, expired, toRun, pending>>

\* getExpired: lower_bound of <<now, nullptr>> stops before a timer that expires now
getExpired == {t \in timers : due[t] < 0}

\* A bug to tell apart: the expired timers are copied and not erased
NotErased == timers

\* timers_.erase of what is copied to expired
Erased == timers \ getExpired

\* handleRead up to the callbacks
handleRead ==
    /\ pc = "events" /\ active
    /\ timerfd' = ReadTimerFd
    /\ \E order \in SetToSeqs(getExpired) :
           /\ \A i, j \in DOMAIN order : i < j => due[order[i]] <= due[order[j]]
           /\ expired' = order
           /\ toRun' = Len(order)
    /\ timers' = Erased
    /\ active' = FALSE /\ pc' = "run"
    /\ UNCHANGED <<due, interval, alive, pending>>

NoTimerEvent ==
    /\ pc = "events" /\ ~active
    /\ pc' = "functors"
    /\ UNCHANGED <<queueVars, timerfd, expired, toRun, pending, active>>

\* it.second->run(), after which the callback may go on to add timers
RunCallback ==
    /\ pc = "run" /\ toRun > 0
    /\ toRun' = toRun - 1
    /\ UNCHANGED <<queueVars, timerfd, expired, pending, active, pc>>

CallbacksDone ==
    /\ pc = "run" /\ toRun = 0
    /\ pc' = "reset"
    /\ UNCHANGED <<queueVars, timerfd, expired, toRun, pending, active>>

\* Timer::restart of a timer that repeats: counted from its expiration, not from now
restart(t) == [due EXCEPT ![t] = @ + interval[t]]

\* A bug to tell apart: the timerfd is armed for the last timer
RearmedForLast(ts, d) == IF ts = {} THEN timerfd ELSE resetTimerfd(Max({d[e] : e \in ts}))

\* The timerfd armed for the first of the timers ts, if there is one
Rearmed(ts, d) == IF ts = {} THEN timerfd ELSE resetTimerfd(Min({d[e] : e \in ts}))

\* One round of reset: the timer starts again or is deleted; then timerfd_ is armed
\* for the first timer there is
reset ==
    /\ pc = "reset" /\ expired # << >>
    /\ LET t == Head(expired)
       IN  IF Repeats(t)
           THEN /\ due' = restart(t)
                /\ timers' = timers \cup {t}
                /\ UNCHANGED alive
           ELSE /\ alive' = alive \ {t}
                /\ UNCHANGED <<due, timers>>
    /\ timerfd' = Rearmed(timers', due')
    /\ expired' = Tail(expired)
    /\ UNCHANGED <<interval, toRun, pending, active, pc>>

ResetDone ==
    /\ pc = "reset" /\ expired = << >>
    /\ pc' = "functors"
    /\ UNCHANGED <<queueVars, timerfd, expired, toRun, pending, active>>

FunctorsDone ==
    /\ pc = "functors" /\ pending = << >>
    /\ pc' = "poll"
    /\ UNCHANGED <<queueVars, timerfd, expired, toRun, pending, active>>

\* ~TimerQueue, once the loop has ended: it deletes what is in timers_.  The functors that
\* were not run die with the loop, and the Timers they point to are never deleted.
Destroy ==
    /\ pc = "poll"
    /\ alive' = alive \ timers
    /\ timers' = {}
    /\ pending' = << >>
    /\ timerfd' = [armed |-> FALSE, left |-> 0]
    /\ pc' = "gone"
    /\ UNCHANGED <<due, interval, expired, toRun, active>>

-----------------------------------------------------------------------------

addTimer == \E t \in Timer, d \in Delays, i \in Intervals :
                AddInLoop(t, d, i) \/ AddFromOutside(t, d, i)

loop == Poll \/ handleRead \/ NoTimerEvent \/ RunCallback \/ CallbacksDone
            \/ reset \/ ResetDone \/ addTimerInLoop \/ FunctorsDone

TimePasses == \E d \in WallSteps : Tick(d)

Next == TimePasses \/ addTimer \/ loop \/ Destroy

\* Time passes and the loop's thread runs; nothing is assumed of callers
Fairness == WF_vars(TimePasses) /\ WF_vars(loop)

Spec == Init /\ [][Next]_vars

FairSpec == Spec /\ Fairness

-----------------------------------------------------------------------------
(* Properties *)

\* Whenever the loop goes to sleep with timers in the queue the timerfd is armed,
\* and fires no later than the first of them is due (or MinDelay from now, if that is
\* already past): whatever the order of firings, callbacks that add timers, timers
\* added in front of the first one, and settime calls that take back a firing.
TimerArmed ==
    (pc = "poll" /\ timers # {}) =>
        /\ timerfd.armed
        /\ \A t \in timers : timerfd.left <= due[t] \/ timerfd.left <= MinDelay

\* Every allocated timer has exactly one owner - the queue, the vector of expired
\* timers, or the functor that will insert it - and what is deleted has none: no
\* timer is deleted twice or called after its deletion, and none leaks as long as the
\* queue exists (~TimerQueue leaks those of functors that were never run).
OneOwner ==
    /\ timers \cup ToSet(expired) \cup ToSet(pending) \subseteq alive
    /\ pc # "gone" => alive = timers \cup ToSet(expired) \cup ToSet(pending)
    /\ timers \cap ToSet(expired) = {}
    /\ (timers \cup ToSet(expired)) \cap ToSet(pending) = {}
    /\ IsInjective(expired) /\ IsInjective(pending)

\* The callback of t is the next one to be called
Called(t) == pc = "run" /\ toRun > 0 /\ expired[Len(expired) - toRun + 1] = t

\* Every timer that is added is called, and a repeating one is called again and
\* again, as long as the queue exists.
TimersFire ==
    \A t \in Timer : t \in timers \cup ToSet(pending) ~> (Called(t) \/ pc = "gone")
=============================================================================
