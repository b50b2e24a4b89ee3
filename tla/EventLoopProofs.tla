--------------------------- MODULE EventLoopProofs ---------------------------
(***************************************************************************)
(* Proofs about EventLoop for any set of functors and of calling threads:  *)
(* the type invariant, the absence of lost wake-ups, and the refinement of *)
(* the FIFO executor of FunctorQueue.                                      *)
(***************************************************************************)
EXTENDS EventLoop, SequenceTheorems, TLAPS

\* Thread t is inside queueInLoop and will write to the eventfd
WillWake(t) ==
    /\ call[t] = "pushed"
    /\ t = LoopThread => callingPendingFunctors

\* Once doPendingFunctors has swapped (or the loop has not begun), a functor in
\* pendingFunctors_ is announced, until the next swap is certain.
Announced ==
    pc \in {"outside", "test", "poll", "run", "functor", "exited"} =>
        \/ Range(pendingFunctors) \subseteq InitFunctors
        \/ wakeupFd
        \/ \E t \in Threads : WillWake(t)

\* What the position of the loop's thread says of its local state
Phase ==
    /\ pc \notin {"run", "functor"} => functors = << >>
    /\ callingPendingFunctors <=> pc \in {"swap", "run", "functor"}
    /\ call[LoopThread] # "idle" => InUserCode

IInv == TypeOK /\ Phase /\ Announced

-----------------------------------------------------------------------------

LEMMA RangeAppend ==
    ASSUME NEW S, NEW s \in Seq(S), NEW e \in S
    PROVE  Range(Append(s, e)) = Range(s) \cup {e}
<1>1. /\ Append(s, e) \in Seq(S)
      /\ Len(Append(s, e)) = Len(s) + 1
      /\ \A i \in 1..Len(s) : Append(s, e)[i] = s[i]
      /\ Append(s, e)[Len(s) + 1] = e
  OBVIOUS
<1>2. DOMAIN Append(s, e) = 1..(Len(s) + 1) /\ DOMAIN s = 1..Len(s) /\ Len(s) \in Nat
  OBVIOUS
<1>. QED
  BY <1>1, <1>2 DEF Range

\* Type correctness: the constructor and every step keep the variables in their sets.
LEMMA TypeStep ==
    ASSUME TypeOK, [Next]_vars
    PROVE  TypeOK'
<1>. USE DEF TypeOK
<1>1. ASSUME NEW t \in Threads, NEW f \in Functor, Push(t, f)
      PROVE  TypeOK'
  BY <1>1 DEF Push, Pushed, MayCall, Calls, loopVars
<1>2. ASSUME NEW t \in Threads, WakeAfterPush(t)
      PROVE  TypeOK'
  BY <1>2 DEF WakeAfterPush, NeedsWakeup, wakeup, Calls, loopVars
<1>3. ASSUME NEW t \in Threads, Quit(t)
      PROVE  TypeOK'
  BY <1>3 DEF Quit, MayCall, Calls, loopVars
<1>4. ASSUME NEW t \in Threads, WakeAfterQuit(t)
      PROVE  TypeOK'
  BY <1>4 DEF WakeAfterQuit, wakeup, Calls, loopVars
<1>5. ASSUME NEW f \in Functor, RunInLoop(f)
      PROVE  TypeOK'
  BY <1>5 DEF RunInLoop
<1>6. CASE EnterLoop
  BY <1>6 DEF EnterLoop, queueVars, PCs
<1>7. CASE TestQuit
  BY <1>7 DEF TestQuit, MustQuit, queueVars, PCs
<1>8. CASE PollStep
  BY <1>8 DEF PollStep, PollReturn, queueVars, PCs
<1>9. CASE PollEmpty
  BY <1>9 DEF PollEmpty, queueVars, PCs
<1>10. CASE HandleRead
  BY <1>10 DEF HandleRead, queueVars, PCs
<1>11. CASE StartIoCallback
  BY <1>11 DEF StartIoCallback, queueVars, PCs
<1>12. CASE EndIoCallback
  BY <1>12 DEF EndIoCallback, queueVars, PCs
<1>13. CASE BeginPending
  BY <1>13 DEF BeginPending, FlagRaised, queueVars, PCs
<1>14. CASE SwapPending
  BY <1>14 DEF SwapPending, PCs
<1>15. CASE StartFunctor
  <2>1. Head(functors) \in Functor /\ Tail(functors) \in Seq(Functor)
    BY <1>15, HeadTailProperties DEF StartFunctor, FirstFunctor
  <2>. QED
    BY <1>15, <2>1 DEF StartFunctor, FirstFunctor, PCs
<1>16. CASE EndFunctor
  BY <1>16 DEF EndFunctor, queueVars, PCs
<1>17. CASE EndPending
  BY <1>17 DEF EndPending, queueVars, PCs
<1>18. CASE UNCHANGED vars
  BY <1>18 DEF vars
<1>. QED
  BY <1>1, <1>2, <1>3, <1>4, <1>5, <1>6, <1>7, <1>8, <1>9, <1>10, <1>11, <1>12, <1>13,
     <1>14, <1>15, <1>16, <1>17, <1>18 DEF Next, loop, doPendingFunctors

LEMMA InitType == Init => TypeOK
<1>. SUFFICES ASSUME Init PROVE TypeOK
  OBVIOUS
<1>1. /\ pendingFunctors \in Seq(Functor)
      /\ functors \in Seq(Functor)
      /\ executed \in Seq(Functor)
  BY EmptySeq DEF Init
<1>2. callingPendingFunctors \in BOOLEAN /\ wakeupFd \in BOOLEAN /\ quit \in BOOLEAN
  BY Zenon DEF Init
<1>3. pc \in PCs /\ activeChannels \subseteq Channels /\ call \in [Threads -> Calls]
  BY DEF Init, PCs, Calls
<1>. QED
  BY <1>1, <1>2, <1>3 DEF TypeOK

\* TypeOK holds in every reachable state of EventLoop.
THEOREM TypeCorrect == Spec => []TypeOK
<1>1. Init => TypeOK
  BY InitType
<1>2. TypeOK /\ [Next]_vars => TypeOK'
  BY TypeStep
<1>. QED
  BY <1>1, <1>2, PTL DEF Spec

-----------------------------------------------------------------------------

LEMMA PhaseStep ==
    ASSUME TypeOK, Phase, [Next]_vars
    PROVE  Phase'
<1>. USE ThreadsAssumption DEF Phase, InUserCode, TypeOK, Threads
<1>1. ASSUME NEW t \in Threads, NEW f \in Functor, Push(t, f)
      PROVE  Phase'
  BY <1>1 DEF Push, Pushed, MayCall, loopVars
<1>2. ASSUME NEW t \in Threads, WakeAfterPush(t)
      PROVE  Phase'
  BY <1>2 DEF WakeAfterPush, NeedsWakeup, loopVars
<1>3. ASSUME NEW t \in Threads, Quit(t)
      PROVE  Phase'
  BY <1>3 DEF Quit, MayCall, loopVars
<1>4. ASSUME NEW t \in Threads, WakeAfterQuit(t)
      PROVE  Phase'
  BY <1>4 DEF WakeAfterQuit, loopVars
<1>5. ASSUME NEW f \in Functor, RunInLoop(f)
      PROVE  Phase'
  BY <1>5 DEF RunInLoop
<1>6. CASE EnterLoop
  BY <1>6 DEF EnterLoop, LoopIdle, queueVars
<1>7. CASE TestQuit
  BY <1>7 DEF TestQuit, MustQuit, queueVars
<1>8. CASE PollStep
  BY <1>8 DEF PollStep, PollReturn, queueVars
<1>9. CASE PollEmpty
  BY <1>9 DEF PollEmpty, queueVars
<1>10. CASE HandleRead
  BY <1>10 DEF HandleRead, queueVars
<1>11. CASE StartIoCallback
  BY <1>11 DEF StartIoCallback, queueVars
<1>12. CASE EndIoCallback
  BY <1>12 DEF EndIoCallback, LoopIdle, queueVars
<1>13. CASE BeginPending
  BY <1>13 DEF BeginPending, FlagRaised, queueVars
<1>14. CASE SwapPending
  BY <1>14 DEF SwapPending
<1>15. CASE StartFunctor
  BY <1>15 DEF StartFunctor, FirstFunctor
<1>16. CASE EndFunctor
  BY <1>16 DEF EndFunctor, LoopIdle, queueVars
<1>17. CASE EndPending
  BY <1>17 DEF EndPending, queueVars
<1>18. CASE UNCHANGED vars
  BY <1>18 DEF vars
<1>. QED
  BY <1>1, <1>2, <1>3, <1>4, <1>5, <1>6, <1>7, <1>8, <1>9, <1>10, <1>11, <1>12, <1>13,
     <1>14, <1>15, <1>16, <1>17, <1>18 DEF Next, loop, doPendingFunctors

LEMMA AnnouncedStep ==
    ASSUME TypeOK, Phase, Announced, [Next]_vars
    PROVE  Announced'
<1>. USE ThreadsAssumption DEF Announced, WillWake, Threads
<1>1. ASSUME NEW t \in Threads, NEW f \in Functor, Push(t, f)
      PROVE  Announced'
  \* the pusher itself will wake, unless it is the loop's thread before loop(),
  \* which only adds functors of InitFunctors, or in the callback of a channel
  <2>1. Range(pendingFunctors') = Range(pendingFunctors) \cup {f}
    BY <1>1, RangeAppend DEF Push, Pushed, TypeOK
  <2>2. call' = [call EXCEPT ![t] = "pushed"] /\ call \in [Threads -> Calls]
    BY <1>1 DEF Push, Pushed, TypeOK
  <2>3. UNCHANGED <<wakeupFd, pc, callingPendingFunctors>>
    BY <1>1 DEF Push, Pushed, loopVars
  <2>4. CASE t # LoopThread \/ callingPendingFunctors
    BY <2>2, <2>3, <2>4
  <2>5. CASE t = LoopThread /\ ~callingPendingFunctors
    <3>1. pc = "outside" \/ pc = "ioCallback"
      BY <1>1, <2>5 DEF Push, Pushed, MayCall, InUserCode, Phase
    <3>2. CASE pc = "outside"
      <4>1. f \in InitFunctors
        BY <1>1, <2>5, <3>2 DEF Push, Pushed
      <4>2. ASSUME NEW u \in Threads, WillWake(u) PROVE WillWake(u)'
        BY <2>2, <2>3, <4>2, <2>5
      <4>. QED
        BY <2>1, <2>3, <4>1, <4>2, <3>2
    <3>. QED
      BY <3>1, <3>2, <2>3
  <2>. QED
    BY <2>4, <2>5
<1>2. ASSUME NEW t \in Threads, WakeAfterPush(t)
      PROVE  Announced'
  <2>1. call' = [call EXCEPT ![t] = "idle"] /\ call \in [Threads -> Calls]
    BY <1>2 DEF WakeAfterPush, NeedsWakeup, TypeOK
  <2>2. UNCHANGED <<pendingFunctors, pc, callingPendingFunctors>>
    BY <1>2 DEF WakeAfterPush, NeedsWakeup, loopVars
  <2>3. CASE t # LoopThread \/ callingPendingFunctors
    BY <1>2, <2>3 DEF WakeAfterPush, NeedsWakeup, wakeup
  <2>4. CASE t = LoopThread /\ ~callingPendingFunctors
    <3>1. ASSUME NEW u \in Threads, WillWake(u) PROVE WillWake(u)'
      BY <2>1, <2>2, <2>4, <3>1
    <3>2. UNCHANGED wakeupFd
      BY <1>2, <2>4 DEF WakeAfterPush, NeedsWakeup
    <3>. QED
      BY <2>2, <3>1, <3>2
  <2>. QED
    BY <2>3, <2>4
<1>3. ASSUME NEW t \in Threads, Quit(t)
      PROVE  Announced'
  BY <1>3 DEF Quit, MayCall, loopVars, TypeOK
<1>4. ASSUME NEW t \in Threads, WakeAfterQuit(t)
      PROVE  Announced'
  BY <1>4 DEF WakeAfterQuit, wakeup, loopVars, TypeOK
<1>5. ASSUME NEW f \in Functor, RunInLoop(f)
      PROVE  Announced'
  BY <1>5 DEF RunInLoop
<1>6. CASE EnterLoop
  BY <1>6 DEF EnterLoop, queueVars
<1>7. CASE TestQuit
  BY <1>7 DEF TestQuit, MustQuit, queueVars
<1>8. CASE PollStep
  BY <1>8 DEF PollStep, PollReturn, queueVars
<1>9. CASE PollEmpty
  BY <1>9 DEF PollEmpty, queueVars
<1>10. CASE HandleRead
  BY <1>10 DEF HandleRead, queueVars
<1>11. CASE StartIoCallback
  BY <1>11 DEF StartIoCallback, queueVars
<1>12. CASE EndIoCallback
  BY <1>12 DEF EndIoCallback, queueVars
<1>13. CASE BeginPending
  BY <1>13 DEF BeginPending, FlagRaised, queueVars
<1>14. CASE SwapPending
  BY <1>14 DEF SwapPending, Range
<1>15. CASE StartFunctor
  BY <1>15 DEF StartFunctor, FirstFunctor
<1>16. CASE EndFunctor
  BY <1>16 DEF EndFunctor, queueVars
<1>17. CASE EndPending
  <2>1. call[LoopThread] # "pushed"
    BY <1>17 DEF EndPending, Phase, InUserCode
  <2>. QED
    BY <1>17, <2>1 DEF EndPending, queueVars
<1>18. CASE UNCHANGED vars
  BY <1>18 DEF vars
<1>. QED
  BY <1>1, <1>2, <1>3, <1>4, <1>5, <1>6, <1>7, <1>8, <1>9, <1>10, <1>11, <1>12, <1>13,
     <1>14, <1>15, <1>16, <1>17, <1>18 DEF Next, loop, doPendingFunctors

LEMMA InitIInv == Init => IInv
<1>. SUFFICES ASSUME Init PROVE IInv
  OBVIOUS
<1>1. TypeOK
  BY InitType
<1>2. Phase
  BY DEF Init, Phase, Threads
<1>3. Announced
  BY DEF Init, Announced, Range
<1>. QED
  BY <1>1, <1>2, <1>3 DEF IInv

LEMMA Inductive == Spec => []IInv
<1>1. IInv /\ [Next]_vars => IInv'
  BY TypeStep, PhaseStep, AnnouncedStep DEF IInv
<1>. QED
  BY InitIInv, <1>1, PTL DEF Spec

\* The loop never sleeps in poll over a functor that nobody will announce: the
\* push, test, wake-up of queueInLoop against the drain, swap of loop().
THEOREM NoLostWakeupHolds == Spec => []NoLostWakeup
<1>1. IInv => NoLostWakeup
  BY DEF IInv, Announced, WillWake, NoLostWakeup
<1>. QED
  BY <1>1, Inductive, PTL

-----------------------------------------------------------------------------

LEMMA StartIsRunNext ==
    ASSUME TypeOK, StartFunctor
    PROVE  Executor!RunNext
<1>1. functors \in Seq(Functor) /\ pendingFunctors \in Seq(Functor) /\ functors # << >>
  BY DEF TypeOK, StartFunctor, FirstFunctor
<1>2. functors \o pendingFunctors # << >>
  BY <1>1, ConcatEqualIffEmpty
<1>3. /\ functors \o pendingFunctors \in Seq(Functor)
      /\ Len(functors \o pendingFunctors) = Len(functors) + Len(pendingFunctors)
      /\ \A i \in 1 .. Len(functors) + Len(pendingFunctors) :
            (functors \o pendingFunctors)[i] =
               IF i <= Len(functors) THEN functors[i] ELSE pendingFunctors[i - Len(functors)]
  BY <1>1, ConcatProperties
<1>4. Len(functors) \in Nat \ {0} /\ Len(pendingFunctors) \in Nat
  BY <1>1, EmptySeq
<1>5. Head(functors \o pendingFunctors) = Head(functors)
  <2>1. Head(functors) = functors[1] /\ Head(functors \o pendingFunctors) = (functors \o pendingFunctors)[1]
    BY <1>1, <1>2, <1>3
  <2>. QED
    BY <2>1, <1>3, <1>4
<1>6. Tail(functors \o pendingFunctors) = Tail(functors) \o pendingFunctors
  <2>1. /\ Tail(functors) \in Seq(Functor)
        /\ Len(Tail(functors)) = Len(functors) - 1
        /\ \A i \in 1 .. Len(Tail(functors)) : Tail(functors)[i] = functors[i + 1]
    BY <1>1, HeadTailProperties
  <2>2. /\ Tail(functors \o pendingFunctors) \in Seq(Functor)
        /\ Len(Tail(functors \o pendingFunctors)) = Len(functors \o pendingFunctors) - 1
        /\ \A i \in 1 .. Len(Tail(functors \o pendingFunctors)) :
              Tail(functors \o pendingFunctors)[i] = (functors \o pendingFunctors)[i + 1]
    BY <1>2, <1>3, HeadTailProperties
  <2>3. /\ Tail(functors) \o pendingFunctors \in Seq(Functor)
        /\ Len(Tail(functors) \o pendingFunctors) = Len(Tail(functors)) + Len(pendingFunctors)
        /\ \A i \in 1 .. Len(Tail(functors)) + Len(pendingFunctors) :
              (Tail(functors) \o pendingFunctors)[i] =
                 IF i <= Len(Tail(functors)) THEN Tail(functors)[i]
                                             ELSE pendingFunctors[i - Len(Tail(functors))]
    BY <1>1, <2>1, ConcatProperties
  <2>4. Len(Tail(functors \o pendingFunctors)) = Len(Tail(functors) \o pendingFunctors)
    BY <1>3, <1>4, <2>1, <2>2, <2>3
  <2>5. ASSUME NEW i \in 1 .. Len(Tail(functors \o pendingFunctors))
        PROVE  Tail(functors \o pendingFunctors)[i] = (Tail(functors) \o pendingFunctors)[i]
    BY <1>3, <1>4, <2>1, <2>2, <2>3
  <2>. QED
    BY <2>2, <2>3, <2>4, <2>5, SeqEqual
<1>. QED
  BY <1>2, <1>5, <1>6 DEF StartFunctor, FirstFunctor, Executor!RunNext

LEMMA FreshSubmission ==
    ASSUME TypeOK, NEW f, f \notin Submitted
    PROVE  Executor!Fresh(f)
<1>1. Range(functors \o pendingFunctors) = Range(functors) \cup Range(pendingFunctors)
  BY RangeConcatenation DEF TypeOK
<1>. QED
  BY <1>1 DEF Submitted, Executor!Fresh, Executor!Range, Range

LEMMA RefinementStep ==
    ASSUME IInv, [Next]_vars
    PROVE  [Executor!Next]_(Executor!vars)
<1>. USE DEF Executor!vars
<1>0. TypeOK
  BY DEF IInv
<1>1. ASSUME NEW t \in Threads, NEW f \in Functor, Push(t, f)
      PROVE  Executor!Submit(f)
  <2>1. Executor!Fresh(f)
    BY <1>0, <1>1, FreshSubmission DEF Push, Pushed
  <2>2. (functors \o Append(pendingFunctors, f)) = Append(functors \o pendingFunctors, f)
    BY <1>0 DEF TypeOK
  <2>. QED
    BY <1>1, <2>1, <2>2 DEF Push, Pushed, loopVars, Executor!Submit
<1>2. ASSUME NEW f \in Functor, RunInLoop(f)
      PROVE  Executor!RunNow(f)
  <2>1. Executor!Fresh(f)
    BY <1>0, <1>2, FreshSubmission DEF RunInLoop
  <2>. QED
    BY <1>2, <2>1 DEF RunInLoop, Executor!RunNow
<1>3. CASE StartFunctor
  BY <1>0, <1>3, StartIsRunNext DEF Executor!Next
<1>4. CASE SwapPending
  <2>1. functors = << >> /\ functors' = pendingFunctors /\ pendingFunctors' = << >>
    BY <1>4 DEF SwapPending, IInv, Phase
  <2>2. functors \o pendingFunctors = pendingFunctors
    BY <1>0, <2>1, ConcatEmptySeq DEF TypeOK
  <2>3. functors' \o pendingFunctors' = pendingFunctors
    BY <1>0, <2>1, ConcatEmptySeq DEF TypeOK
  <2>. QED
    BY <1>4, <2>2, <2>3 DEF SwapPending
<1>5. ASSUME NEW t \in Threads, WakeAfterPush(t) \/ Quit(t) \/ WakeAfterQuit(t)
      PROVE  UNCHANGED <<functors, pendingFunctors, executed>>
  BY <1>5 DEF WakeAfterPush, NeedsWakeup, Quit, WakeAfterQuit, loopVars
<1>6. CASE EnterLoop \/ TestQuit \/ PollStep \/ PollEmpty \/ HandleRead \/ StartIoCallback
           \/ EndIoCallback \/ BeginPending \/ EndFunctor \/ EndPending
  BY <1>6 DEF EnterLoop, TestQuit, MustQuit, PollStep, PollReturn, PollEmpty, HandleRead,
       StartIoCallback, EndIoCallback, BeginPending, FlagRaised, EndFunctor, EndPending, queueVars
<1>7. CASE UNCHANGED vars
  BY <1>7 DEF vars
<1>. QED
  BY <1>1, <1>2, <1>3, <1>4, <1>5, <1>6, <1>7
     DEF Next, loop, doPendingFunctors, Executor!Next

\* queueInLoop, runInLoop and doPendingFunctors implement the FIFO executor:
\* every functor runs at most once, queued functors in the order of the queue.
THEOREM EventLoopRefinesExecutor == Spec => ExecutorSpec
<1>1. Init => Executor!Init
  <2>1. << >> \o << >> = << >>
    OBVIOUS
  <2>. QED
    BY <2>1 DEF Init, Executor!Init
<1>2. IInv /\ [Next]_vars => [Executor!Next]_(Executor!vars)
  BY RefinementStep
<1>. QED
  BY <1>1, <1>2, Inductive, PTL DEF Spec, ExecutorSpec, Executor!Spec
=============================================================================
