--------------------------- MODULE TimerQueueProofs ---------------------------
(***************************************************************************)
(* Proofs about TimerQueue for any number of timers, delays, intervals and *)
(* MinDelay: a timer has one owner, and the loop never sleeps with timers  *)
(* in the queue and the timerfd unarmed or armed too late.                 *)
(***************************************************************************)
EXTENDS TimerQueue, SequenceTheorems, FiniteSetTheorems, TLAPS

\* What the run leaves out of TypeOK: callbacks are called only in the loop over expired
Types == TypeOK /\ (pc # "run" => toRun = 0)

\* The vector of expired timers lives as long as handleRead
LocalToHandleRead == pc \notin {"run", "reset"} => expired = << >>

Owned == Types /\ LocalToHandleRead /\ OneOwner

-----------------------------------------------------------------------------
(* Sequences without repetition *)

LEMMA AppendOne ==
    ASSUME NEW S, NEW s \in Seq(S), NEW e \in S
    PROVE  /\ Append(s, e) \in Seq(S)
           /\ ToSet(Append(s, e)) = ToSet(s) \cup {e}
           /\ IsInjective(s) /\ e \notin ToSet(s) => IsInjective(Append(s, e))
<1>1. /\ Append(s, e) \in Seq(S)
      /\ Len(Append(s, e)) = Len(s) + 1
      /\ \A i \in 1..Len(s) : Append(s, e)[i] = s[i]
      /\ Append(s, e)[Len(s) + 1] = e
  BY AppendProperties
<1>2. DOMAIN Append(s, e) = 1..(Len(s) + 1) /\ DOMAIN s = 1..Len(s) /\ Len(s) \in Nat
  BY <1>1, LenProperties
<1>3. ToSet(Append(s, e)) = ToSet(s) \cup {e}
  BY <1>1, <1>2 DEF ToSet
<1>4. ASSUME IsInjective(s), e \notin ToSet(s) PROVE IsInjective(Append(s, e))
  <2>1. \A i \in 1..Len(s) : s[i] # e
    BY <1>2, <1>4 DEF ToSet
  <2>. QED
    BY <1>1, <1>2, <1>4, <2>1 DEF IsInjective
<1>. QED
  BY <1>1, <1>3, <1>4

LEMMA TakeHead ==
    ASSUME NEW S, NEW s \in Seq(S), s # << >>, IsInjective(s)
    PROVE  /\ Head(s) \in S /\ Tail(s) \in Seq(S)
           /\ IsInjective(Tail(s))
           /\ Head(s) \in ToSet(s) /\ ToSet(Tail(s)) = ToSet(s) \ {Head(s)}
<1>1. /\ Head(s) = s[1] /\ Head(s) \in S /\ Tail(s) \in Seq(S)
      /\ Len(Tail(s)) = Len(s) - 1
      /\ \A i \in 1..Len(Tail(s)) : Tail(s)[i] = s[i + 1]
  BY HeadTailProperties
<1>2. /\ DOMAIN Tail(s) = 1..(Len(s) - 1) /\ DOMAIN s = 1..Len(s)
      /\ Len(s) \in Nat /\ Len(s) > 0
  BY <1>1, LenProperties, EmptySeq
<1>3. IsInjective(Tail(s)) /\ Head(s) \in ToSet(s)
  BY <1>1, <1>2 DEF IsInjective, ToSet
<1>4. ASSUME NEW e \in ToSet(Tail(s)) PROVE e \in ToSet(s) \ {Head(s)}
  <2>1. PICK i \in 1..(Len(s) - 1) : e = s[i + 1]
    BY <1>1, <1>2 DEF ToSet
  <2>2. i + 1 \in DOMAIN s /\ i + 1 # 1 /\ 1 \in DOMAIN s
    BY <1>2
  <2>. QED
    BY <1>1, <2>1, <2>2 DEF ToSet, IsInjective
<1>5. ASSUME NEW e \in ToSet(s), e # Head(s) PROVE e \in ToSet(Tail(s))
  <2>1. PICK i \in 1..Len(s) : e = s[i]
    BY <1>2 DEF ToSet
  <2>2. i # 1
    BY <1>1, <1>5, <2>1
  <2>3. i - 1 \in 1..(Len(s) - 1) /\ (i - 1) + 1 = i
    BY <1>2, <2>2
  <2>4. Tail(s)[i - 1] = e
    BY <1>1, <2>1, <2>3
  <2>. QED
    BY <1>2, <2>3, <2>4 DEF ToSet
<1>. QED
  BY <1>1, <1>3, <1>4, <1>5

\* An ordering of a finite set has each of its elements once
LEMMA OrderingProperties ==
    ASSUME NEW S, IsFiniteSet(S), NEW order \in SetToSeqs(S)
    PROVE  /\ order \in Seq(S) /\ Len(order) \in Nat
           /\ ToSet(order) = S /\ IsInjective(order)
<1>1. PICK n : n = Cardinality(S)
  OBVIOUS
<1>2. n \in Nat
  BY <1>1, FS_CardinalityType
<1>3. /\ order \in [1..n -> S]
      /\ \A i, j \in 1..n : i # j => order[i] # order[j]
  BY <1>1 DEF SetToSeqs
<1>4. order \in Seq(S) /\ Len(order) = n /\ IsInjective(order)
  BY <1>2, <1>3 DEF IsInjective
<1>5. order \in Injection(1..n, S)
  BY <1>3, <1>4 DEF Injection
<1>6. Cardinality(1..n) = n
  BY <1>2, FS_Interval
<1>7. order \in Surjection(1..n, S)
  BY <1>1, <1>5, <1>6, FS_Injection
<1>8. ToSet(order) = S
  BY <1>3, <1>7 DEF Surjection, ToSet
<1>. QED
  BY <1>2, <1>4, <1>8

\* Of finitely many timers one is due first
LEMMA FirstDue ==
    ASSUME NEW ts, IsFiniteSet(ts), ts # {}, NEW d, \A e \in ts : d[e] \in Int
    PROVE  \E t \in ts : /\ \A e \in ts : d[t] <= d[e]
                         /\ Min({d[e] : e \in ts}) = d[t]
<1>. DEFINE Before(t) == {e \in ts : d[e] < d[t]}
            Befores == {Before(t) : t \in ts}
<1>1. Befores # {} /\ Befores \subseteq FiniteSubsetsOf(ts)
  <2>1. ASSUME NEW t \in ts PROVE Before(t) \in SUBSET ts /\ IsFiniteSet(Before(t))
    <3>1. Before(t) \in SUBSET ts
      OBVIOUS
    <3>. QED
      BY <3>1, FS_Subset
  <2>. QED
    BY <2>1 DEF FiniteSubsetsOf
<1>2. PICK b \in Befores : \A c \in Befores : ~(<<c, b>> \in StrictSubsetOrdering(ts))
  <2>. HIDE DEF Befores
  <2>1. IsWellFoundedOn(StrictSubsetOrdering(ts), FiniteSubsetsOf(ts))
    BY FS_StrictSubsetOrderingWellFounded
  <2>. QED
    BY <1>1, <2>1, WFMin
<1>3. PICK t \in ts : b = Before(t)
  BY <1>2
<1>4. ASSUME NEW e \in ts PROVE d[t] <= d[e]
  <2>1. SUFFICES ASSUME d[e] < d[t] PROVE FALSE
    BY <1>4
  <2>2. Before(e) \subseteq Before(t)
    BY <2>1
  <2>3. e \in Before(t) /\ e \notin Before(e)
    BY <2>1
  <2>4. <<Before(e), Before(t)>> \in StrictSubsetOrdering(ts)
    <3>1. Before(e) \in SUBSET ts /\ Before(t) \in SUBSET ts /\ Before(e) # Before(t)
      BY <2>3
    <3>. HIDE DEF Before
    <3>. QED
      BY <2>2, <3>1 DEF StrictSubsetOrdering
  <2>. QED
    BY <1>2, <1>3, <2>4
<1>5. Min({d[e] : e \in ts}) = d[t]
  <2>1. \E x \in {d[e] : e \in ts} : \A y \in {d[e] : e \in ts} : x =< y
    BY <1>4
  <2>2. /\ Min({d[e] : e \in ts}) \in {d[e] : e \in ts}
        /\ \A y \in {d[e] : e \in ts} : Min({d[e] : e \in ts}) =< y
    BY <2>1 DEF Min
  <2>. QED
    BY <1>4, <2>2
<1>. QED
  BY <1>4, <1>5

-----------------------------------------------------------------------------
(* Who owns a timer *)

LEMMA InitOwned ==
    ASSUME TimeAssumption, Init
    PROVE  Owned
<1>1. << >> \in Seq(Timer) /\ Len(<< >>) = 0 /\ DOMAIN << >> = {} /\ ToSet(<< >>) = {}
  BY EmptySeq DEF ToSet
<1>2. timerfd \in [armed : BOOLEAN, left : Nat \cup {-1}]
  BY DEF Init
<1>3. active \in BOOLEAN
  BY Zenon DEF Init
<1>4. Types
  BY <1>1, <1>2, <1>3 DEF Init, Types, TypeOK
<1>. QED
  BY <1>1, <1>4 DEF Init, Owned, LocalToHandleRead, OneOwner, IsInjective

\* What settime stores is a time from now
LEMMA ResetType ==
    ASSUME TimeAssumption, NEW d \in Int
    PROVE  /\ resetTimerfd(d).armed
           /\ resetTimerfd(d).left >= MinDelay /\ resetTimerfd(d).left >= d
           /\ resetTimerfd(d).left = d \/ resetTimerfd(d).left = MinDelay
           /\ resetTimerfd(d) \in [armed : BOOLEAN, left : Nat \cup {-1}]
BY DEF resetTimerfd, TimeAssumption

LEMMA OwnedStep ==
    ASSUME TimeAssumption, Owned, [Next]_vars
    PROVE  Owned'
<1>. USE DEF TimeAssumption, Owned, Types, LocalToHandleRead
<1>0. TypeOK
  OBVIOUS
<1>1. ASSUME NEW d \in WallSteps, Tick(d)
      PROVE  Owned'
  <2>1. due' \in [Timer -> Int]
    BY <1>1 DEF Tick, TypeOK
  <2>2. timerfd' \in [armed : BOOLEAN, left : Nat \cup {-1}]
    <3>1. timerfd.armed \in BOOLEAN /\ timerfd.left \in Nat \cup {-1}
      BY DEF TypeOK
    <3>2. CASE timerfd.armed /\ timerfd.left >= 0
      <4>1. timerfd' = [timerfd EXCEPT !.left = timerfd.left - 1]
        BY <1>1, <3>2 DEF Tick
      <4>2. timerfd.left - 1 \in Nat \cup {-1}
        BY <3>1, <3>2
      <4>. QED
        BY <4>1, <4>2 DEF TypeOK
    <3>3. CASE ~(timerfd.armed /\ timerfd.left >= 0)
      BY <1>1, <3>3 DEF Tick, TypeOK
    <3>. QED
      BY <3>2, <3>3
  <2>3. TypeOK'
    BY <1>1, <2>1, <2>2 DEF Tick, TypeOK
  <2>. QED
    BY <1>1, <2>3 DEF Tick, OneOwner
<1>2. ASSUME NEW t \in Timer, NEW d \in Delays, NEW i \in Intervals, AddInLoop(t, d, i)
      PROVE  Owned'
  <2>1. due' \in [Timer -> Int] /\ interval' \in [Timer -> Intervals \cup {0}]
    BY <1>2 DEF AddInLoop, Allocate, TypeOK
  <2>2. timerfd' \in [armed : BOOLEAN, left : Nat \cup {-1}]
    BY <1>2, ResetType DEF AddInLoop, Armed, TypeOK
  <2>3. TypeOK'
    BY <1>2, <2>1, <2>2 DEF AddInLoop, Allocate, TypeOK
  <2>. QED
    BY <1>2, <2>3 DEF AddInLoop, Allocate, OneOwner
<1>3. ASSUME NEW t \in Timer, NEW d \in Delays, NEW i \in Intervals, AddFromOutside(t, d, i)
      PROVE  Owned'
  <2>1. due' \in [Timer -> Int] /\ interval' \in [Timer -> Intervals \cup {0}]
    BY <1>3 DEF AddFromOutside, Allocate, TypeOK
  <2>2. t \notin ToSet(pending) /\ IsInjective(pending) /\ pending \in Seq(Timer)
    BY <1>3 DEF AddFromOutside, Allocate, TypeOK, OneOwner
  <2>3. /\ pending' \in Seq(Timer) /\ IsInjective(pending')
        /\ ToSet(pending') = ToSet(pending) \cup {t}
    BY <1>3, <2>2, AppendOne DEF AddFromOutside
  <2>4. TypeOK'
    BY <1>3, <2>1, <2>3 DEF AddFromOutside, Allocate, TypeOK
  <2>. QED
    BY <1>3, <2>3, <2>4 DEF AddFromOutside, Allocate, OneOwner
<1>4. CASE addTimerInLoop
  <2>1. /\ Head(pending) \in Timer /\ Tail(pending) \in Seq(Timer)
        /\ IsInjective(Tail(pending)) /\ Head(pending) \in ToSet(pending)
        /\ ToSet(Tail(pending)) = ToSet(pending) \ {Head(pending)}
    BY <1>4, TakeHead DEF addTimerInLoop, TypeOK, OneOwner
  <2>2. timerfd' \in [armed : BOOLEAN, left : Nat \cup {-1}]
    <3>1. due[Head(pending)] \in Int
      BY <2>1 DEF TypeOK
    <3>. QED
      BY <1>4, <3>1, ResetType DEF addTimerInLoop, Armed, TypeOK
  <2>3. TypeOK'
    BY <1>4, <2>1, <2>2 DEF addTimerInLoop, TypeOK
  <2>. QED
    BY <1>4, <2>1, <2>3 DEF addTimerInLoop, OneOwner
<1>5. CASE Poll
  <2>1. active' \in BOOLEAN
    BY <1>5, Zenon DEF Poll, Readable
  <2>2. TypeOK'
    BY <1>5, <2>1 DEF Poll, queueVars, TypeOK
  <2>. QED
    BY <1>5, <2>2 DEF Poll, queueVars, OneOwner
<1>6. CASE handleRead
  <2>1. PICK order \in SetToSeqs(getExpired) : expired' = order /\ toRun' = Len(order)
    BY <1>6 DEF handleRead
  <2>2. getExpired \in SUBSET Timer /\ IsFiniteSet(getExpired)
    BY FS_Subset DEF getExpired, TypeOK
  <2>3. /\ order \in Seq(getExpired) /\ Len(order) \in Nat
        /\ ToSet(order) = getExpired /\ IsInjective(order)
    BY <2>1, <2>2, OrderingProperties
  <2>4. order \in Seq(Timer)
    BY <2>2, <2>3
  <2>5. timerfd' \in [armed : BOOLEAN, left : Nat \cup {-1}]
    BY <1>6 DEF handleRead, ReadTimerFd, TypeOK
  <2>6. active' \in BOOLEAN
    BY <1>6, Zenon DEF handleRead
  <2>7. TypeOK'
    BY <1>6, <2>1, <2>3, <2>4, <2>5, <2>6 DEF handleRead, Erased, TypeOK
  <2>8. expired = << >> /\ ToSet(expired) = {}
    BY <1>6, EmptySeq DEF handleRead, ToSet
  <2>9. OneOwner'
    BY <1>6, <2>1, <2>3, <2>8 DEF handleRead, Erased, getExpired, OneOwner
  <2>. QED
    BY <1>6, <2>7, <2>9 DEF handleRead
<1>7. CASE NoTimerEvent
  BY <1>7 DEF NoTimerEvent, queueVars, TypeOK, OneOwner
<1>8. CASE RunCallback
  BY <1>8, LenProperties DEF RunCallback, queueVars, TypeOK, OneOwner
<1>9. CASE CallbacksDone
  BY <1>9 DEF CallbacksDone, queueVars, TypeOK, OneOwner
<1>10. CASE reset
  <2>1. /\ Head(expired) \in Timer /\ Tail(expired) \in Seq(Timer)
        /\ IsInjective(Tail(expired)) /\ Head(expired) \in ToSet(expired)
        /\ ToSet(Tail(expired)) = ToSet(expired) \ {Head(expired)}
        /\ Len(Tail(expired)) \in Nat
    BY <1>10, TakeHead, LenProperties DEF reset, TypeOK, OneOwner
  <2>2. PICK t \in Timer : t = Head(expired)
    BY <2>1
  <2>3. due' \in [Timer -> Int] /\ timers' \subseteq Timer /\ alive' \subseteq Timer
    <3>1. due[t] + interval[t] \in Int
      <4>1. due[t] \in Int /\ interval[t] \in Intervals \cup {0}
        BY <1>0 DEF TypeOK
      <4>2. \A i \in Intervals \cup {0} : i \in Nat
        <5>1. \A i \in Intervals : i \in Nat
          BY Zenon
        <5>. QED
          BY <5>1
      <4>3. PICK a \in Int, i \in Nat : a = due[t] /\ i = interval[t]
        BY <4>1, <4>2
      <4>. QED
        BY <4>3
    <3>2. restart(t) \in [Timer -> Int]
      BY <3>1 DEF restart, TypeOK
    <3>. QED
      BY <1>10, <2>2, <3>2 DEF reset, TypeOK
  <2>4. timerfd' \in [armed : BOOLEAN, left : Nat \cup {-1}]
    <3>1. CASE timers' = {}
      BY <1>10, <3>1 DEF reset, Rearmed, TypeOK
    <3>2. CASE timers' # {}
      <4>1. IsFiniteSet(timers')
        BY <2>3, FS_Subset
      <4>2. \A e \in timers' : due'[e] \in Int
        BY <2>3
      <4>3. Min({due'[e] : e \in timers'}) \in Int
        BY <2>3, <3>2, <4>1, <4>2, FirstDue
      <4>. QED
        BY <1>10, <3>2, <4>3, ResetType DEF reset, Rearmed
    <3>. QED
      BY <3>1, <3>2
  <2>5. TypeOK'
    BY <1>10, <2>1, <2>3, <2>4 DEF reset, TypeOK
  <2>6. OneOwner'
    <3>1. CASE Repeats(t)
      BY <1>10, <2>1, <2>2, <3>1 DEF reset, OneOwner
    <3>2. CASE ~Repeats(t)
      BY <1>10, <2>1, <2>2, <3>2 DEF reset, OneOwner
    <3>. QED
      BY <3>1, <3>2
  <2>. QED
    BY <1>10, <2>5, <2>6 DEF reset
<1>11. CASE ResetDone
  BY <1>11 DEF ResetDone, queueVars, TypeOK, OneOwner
<1>12. CASE FunctorsDone
  BY <1>12 DEF FunctorsDone, queueVars, TypeOK, OneOwner
<1>13. CASE Destroy
  <2>1. timerfd' \in [armed : BOOLEAN, left : Nat \cup {-1}]
    BY <1>13 DEF Destroy
  <2>2. TypeOK'
    BY <1>13, <2>1 DEF Destroy, TypeOK
  <2>3. ToSet(expired) = {}
    BY <1>13, EmptySeq DEF Destroy, ToSet
  <2>. QED
    BY <1>13, <2>2, <2>3 DEF Destroy, OneOwner
<1>14. CASE UNCHANGED vars
  BY <1>14 DEF vars, queueVars, TypeOK, OneOwner
<1>. QED
  BY <1>1, <1>2, <1>3, <1>4, <1>5, <1>6, <1>7, <1>8, <1>9, <1>10, <1>11, <1>12, <1>13, <1>14
     DEF Next, TimePasses, addTimer, loop

-----------------------------------------------------------------------------
(* For when the timerfd is armed *)

\* The timerfd fires no later than any of the timers is due, or MinDelay from now
NotTooLate == \A t \in timers : timerfd.left <= due[t] \/ timerfd.left <= MinDelay

\* It fires no earlier than the first of them: getExpired then finds a timer
NotTooEarly == \E t \in timers : due[t] <= timerfd.left

\* The timerfd is not armed for the queue only between getExpired and the last round of
\* reset, which arms it anew
ArmedForFirst ==
    pc # "gone" /\ (pc \in {"run", "reset"} => expired = << >>) /\ timers # {} =>
        timerfd.armed /\ NotTooLate /\ NotTooEarly

\* Arming for a timer that is due first, and leaving alone what is armed for an earlier one
LEMMA ArmedStep ==
    ASSUME TimeAssumption, Owned, ArmedForFirst, NEW t \in Timer \ timers, due'[t] \in Int,
           pc # "gone", pc' = pc, expired' = expired,
           timers' = timers \cup {t}, \A e \in timers : due'[e] = due[e],
           timerfd' = Armed(due'[t])
    PROVE  ArmedForFirst'
<1>. SUFFICES ASSUME pc \in {"run", "reset"} => expired = << >>
              PROVE  timerfd'.armed /\ NotTooLate' /\ NotTooEarly'
  BY DEF ArmedForFirst
<1>0. MinDelay \in Nat /\ timerfd.left \in Int /\ \A e \in timers : due[e] \in Int
  BY DEF TimeAssumption, Owned, Types, TypeOK
<1>1. CASE earliestChanged(due'[t], timers)
  <2>1. timerfd' = resetTimerfd(due'[t])
    BY <1>1 DEF Armed
  <2>2. /\ timerfd'.armed /\ timerfd'.left \in Int /\ timerfd'.left >= due'[t]
        /\ timerfd'.left = due'[t] \/ timerfd'.left = MinDelay
    BY <1>0, <2>1, ResetType
  <2>3. \A e \in timers : due'[t] <= due[e]
    BY <1>0, <1>1 DEF earliestChanged
  <2>. QED
    BY <1>0, <2>2, <2>3 DEF NotTooLate, NotTooEarly
<1>2. CASE ~earliestChanged(due'[t], timers)
  <2>1. timerfd' = timerfd
    BY <1>2 DEF Armed
  <2>2. PICK e \in timers : due[e] <= due'[t]
    BY <1>0, <1>2 DEF earliestChanged
  <2>3. timerfd.armed /\ NotTooLate /\ NotTooEarly
    BY <2>2 DEF ArmedForFirst
  <2>4. timerfd.left <= due'[t] \/ timerfd.left <= MinDelay
    BY <1>0, <2>2, <2>3 DEF NotTooLate
  <2>. QED
    BY <1>0, <2>1, <2>3, <2>4 DEF NotTooLate, NotTooEarly
<1>. QED
  BY <1>1, <1>2

\* A round of reset arms the timerfd for the first of the timers
LEMMA RearmedStep ==
    ASSUME TimeAssumption, TypeOK', timers' # {}, timerfd' = Rearmed(timers', due')
    PROVE  timerfd'.armed /\ NotTooLate' /\ NotTooEarly'
<1>1. IsFiniteSet(timers') /\ \A e \in timers' : due'[e] \in Int
  BY FS_Subset DEF TypeOK, TimeAssumption
<1>2. PICK t \in timers' : /\ \A e \in timers' : due'[t] <= due'[e]
                           /\ Min({due'[e] : e \in timers'}) = due'[t]
  BY <1>1, FirstDue
<1>3. timerfd' = resetTimerfd(due'[t])
  BY <1>2 DEF Rearmed
<1>4. /\ timerfd'.armed /\ timerfd'.left \in Int /\ timerfd'.left >= due'[t]
      /\ timerfd'.left = due'[t] \/ timerfd'.left = MinDelay
  BY <1>1, <1>3, ResetType DEF TimeAssumption
<1>. QED
  BY <1>1, <1>2, <1>4 DEF NotTooLate, NotTooEarly, TimeAssumption

\* The hypotheses on the clocks: they go at the same pace, and the timerfd is not handled
\* in the very microsecond in which it fires
SteadyClocks == WallSteps = {1} /\ ~SubMicrosecond

LEMMA ArmedForFirstStep ==
    ASSUME TimeAssumption, SteadyClocks, Owned, Owned', ArmedForFirst, [Next]_vars
    PROVE  ArmedForFirst'
<1>0. /\ MinDelay \in Nat /\ timerfd.left \in Nat \cup {-1}
      /\ \A e \in timers : e \in alive /\ e \in Timer /\ due[e] \in Int
  BY DEF TimeAssumption, Owned, Types, TypeOK, OneOwner
<1>1. ASSUME NEW d \in WallSteps, Tick(d)
      PROVE  ArmedForFirst'
  <2>1. d = 1
    BY DEF SteadyClocks
  <2>2. /\ timers' = timers /\ expired' = expired /\ pc' = pc
        /\ \A e \in timers : due'[e] = due[e] - 1
    BY <1>0, <1>1, <2>1 DEF Tick
  <2>. SUFFICES ASSUME pc # "gone", pc \in {"run", "reset"} => expired = << >>, timers # {}
                PROVE  timerfd'.armed /\ NotTooLate' /\ NotTooEarly'
    BY <2>2 DEF ArmedForFirst
  <2>3. timerfd.armed /\ NotTooLate /\ NotTooEarly
    BY DEF ArmedForFirst
  <2>4. CASE timerfd.left >= 0
    <3>1. timerfd' = [timerfd EXCEPT !.left = timerfd.left - 1]
      BY <1>1, <2>3, <2>4 DEF Tick
    <3>2. timerfd'.armed = timerfd.armed /\ timerfd'.left = timerfd.left - 1
      BY <3>1 DEF Owned, Types, TypeOK
    <3>. QED
      BY <1>0, <2>2, <2>3, <3>2 DEF NotTooLate, NotTooEarly
  <2>5. CASE timerfd.left = -1
    <3>1. timerfd' = timerfd
      BY <1>1, <2>5 DEF Tick
    <3>. QED
      BY <1>0, <2>2, <2>3, <2>5, <3>1 DEF NotTooLate, NotTooEarly
  <2>. QED
    BY <1>0, <2>4, <2>5
<1>2. ASSUME NEW t \in Timer, NEW d \in Delays, NEW i \in Intervals, AddInLoop(t, d, i)
      PROVE  ArmedForFirst'
  <2>1. /\ t \in Timer \ timers /\ due'[t] = d /\ d \in Int
        /\ \A e \in timers : due'[e] = due[e]
    BY <1>0, <1>2 DEF AddInLoop, Allocate, Owned, Types, TypeOK, TimeAssumption
  <2>2. /\ pc # "gone" /\ pc' = pc /\ expired' = expired
        /\ timers' = timers \cup {t} /\ timerfd' = Armed(due'[t])
    BY <1>2, <2>1 DEF AddInLoop
  <2>. QED
    BY <2>1, <2>2, ArmedStep
<1>3. ASSUME NEW t \in Timer, NEW d \in Delays, NEW i \in Intervals, AddFromOutside(t, d, i)
      PROVE  ArmedForFirst'
  <2>1. \A e \in timers : due'[e] = due[e]
    BY <1>0, <1>3 DEF AddFromOutside, Allocate, Owned, Types, TypeOK
  <2>. QED
    BY <1>3, <2>1 DEF AddFromOutside, ArmedForFirst, NotTooLate, NotTooEarly
<1>4. CASE addTimerInLoop
  <2>1. Head(pending) \in ToSet(pending) /\ Head(pending) \in Timer
    BY <1>4, TakeHead DEF addTimerInLoop, Owned, Types, TypeOK, OneOwner
  <2>2. PICK t \in Timer : t = Head(pending)
    BY <2>1
  <2>3. t \in Timer \ timers /\ due'[t] = due[t] /\ due[t] \in Int /\ due' = due
    BY <1>4, <2>1, <2>2 DEF addTimerInLoop, Owned, Types, TypeOK, OneOwner
  <2>4. /\ pc # "gone" /\ pc' = pc /\ expired' = expired
        /\ timers' = timers \cup {t} /\ timerfd' = Armed(due'[t])
    BY <1>4, <2>2, <2>3 DEF addTimerInLoop
  <2>. QED
    BY <2>3, <2>4, ArmedStep
<1>5. CASE Poll
  BY <1>5 DEF Poll, queueVars, ArmedForFirst, NotTooLate, NotTooEarly
<1>6. CASE handleRead
  <2>. SUFFICES ASSUME expired' = << >>, timers' # {}
                PROVE  timerfd'.armed /\ NotTooLate' /\ NotTooEarly'
    BY <1>6 DEF handleRead, ArmedForFirst
  <2>1. PICK order \in SetToSeqs(getExpired) : expired' = order
    BY <1>6 DEF handleRead
  <2>2. IsFiniteSet(getExpired)
    <3>1. getExpired \in SUBSET Timer
      BY DEF getExpired, Owned, Types, TypeOK
    <3>. QED
      BY <3>1, FS_Subset DEF TimeAssumption
  <2>3. getExpired = {}
    <3>1. ToSet(order) = getExpired
      BY <2>1, <2>2, OrderingProperties
    <3>. QED
      BY <2>1, <3>1, EmptySeq DEF ToSet
  <2>4. timers' = timers /\ due' = due
    BY <1>6, <2>3 DEF handleRead, Erased
  <2>5. timerfd.armed /\ NotTooLate /\ NotTooEarly
    BY <1>6, <2>4 DEF ArmedForFirst, handleRead
  <2>6. ~Readable
    BY <1>0, <2>3, <2>5 DEF Readable, NotTooEarly, getExpired, SteadyClocks
  <2>7. timerfd' = timerfd
    BY <1>6, <2>6 DEF handleRead, ReadTimerFd
  <2>. QED
    BY <2>4, <2>5, <2>7 DEF NotTooLate, NotTooEarly
<1>7. CASE NoTimerEvent
  BY <1>7 DEF NoTimerEvent, queueVars, ArmedForFirst, NotTooLate, NotTooEarly
<1>8. CASE RunCallback
  BY <1>8 DEF RunCallback, queueVars, ArmedForFirst, NotTooLate, NotTooEarly
<1>9. CASE CallbacksDone
  BY <1>9 DEF CallbacksDone, queueVars, ArmedForFirst, NotTooLate, NotTooEarly
<1>10. CASE reset
  BY <1>10, RearmedStep DEF reset, Owned, Types, ArmedForFirst
<1>11. CASE ResetDone
  BY <1>11 DEF ResetDone, queueVars, ArmedForFirst, NotTooLate, NotTooEarly
<1>12. CASE FunctorsDone
  BY <1>12 DEF FunctorsDone, queueVars, ArmedForFirst, NotTooLate, NotTooEarly
<1>13. CASE Destroy
  BY <1>13 DEF Destroy, ArmedForFirst
<1>14. CASE UNCHANGED vars
  BY <1>14 DEF vars, queueVars, ArmedForFirst, NotTooLate, NotTooEarly
<1>. QED
  BY <1>1, <1>2, <1>3, <1>4, <1>5, <1>6, <1>7, <1>8, <1>9, <1>10, <1>11, <1>12, <1>13, <1>14
     DEF Next, TimePasses, addTimer, loop

-----------------------------------------------------------------------------

LEMMA OwnedAlways ==
    ASSUME TimeAssumption
    PROVE  Spec => []Owned
<1>1. Init => Owned
  BY InitOwned
<1>2. Owned /\ [Next]_vars => Owned'
  BY OwnedStep
<1>. QED
  BY <1>1, <1>2, PTL DEF Spec

\* The variables of TimerQueue keep their types, for any set of timers, delays and
\* intervals and any behaviour of the clocks.
THEOREM TypeCorrect ==
    ASSUME TimeAssumption
    PROVE  Spec => []TypeOK
<1>1. Owned => TypeOK
  BY DEF Owned, Types
<1>. QED
  BY <1>1, OwnedAlways, PTL

\* addTimer, handleRead, reset and the destructor pass every timer from one owner to
\* the next, whatever the clocks do: none is deleted twice or called after its deletion,
\* and none is leaked before ~TimerQueue, which forgets those of functors never run.
THEOREM EveryTimerHasOneOwner ==
    ASSUME TimeAssumption
    PROVE  Spec => []OneOwner
<1>1. Owned => OneOwner
  BY DEF Owned
<1>. QED
  BY <1>1, OwnedAlways, PTL

\* Where the two clocks go at the same pace and a firing is handled after the
\* microsecond in which it happens, the loop never goes to sleep with timers and a
\* timerfd that is not armed, or armed too late for the first of them.
THEOREM ArmedWhenAsleep ==
    ASSUME TimeAssumption, SteadyClocks
    PROVE  Spec => []TimerArmed
<1>1. Init => ArmedForFirst
  BY DEF Init, ArmedForFirst
<1>2. Owned /\ Owned' /\ ArmedForFirst /\ [Next]_vars => ArmedForFirst'
  BY ArmedForFirstStep
<1>3. ArmedForFirst => TimerArmed
  BY DEF ArmedForFirst, NotTooLate, TimerArmed
<1>. QED
  BY <1>1, <1>2, <1>3, OwnedAlways, PTL DEF Spec
=============================================================================
