---------------------- MODULE EventLoopThreadPoolProofs ----------------------
(***************************************************************************)
(* Proofs about EventLoopThreadPool for any number of threads: the type    *)
(* invariant and round robin whatever the application does, and for an     *)
(* orderly application the lifetimes of loops and EventLoopThread objects. *)
(***************************************************************************)
EXTENDS EventLoopThreadPool, TLAPS

\* While threads are started or destroyed, cur is one of them
CurIsThread == opc # "done" => cur \in Thread

\* Loops 1 to next_ have been handed out once more often than the others
Turns ==
    \A i, j \in Thread :
        /\ (i <= next <=> j <= next) => handedOut[i] = handedOut[j]
        /\ i <= next /\ j > next => handedOut[i] = handedOut[j] + 1

LEMMA TypeStep ==
    ASSUME TypeOK, CurIsThread, [Next]_vars
    PROVE  TypeOK' /\ CurIsThread'
<1>. USE PoolAssumption DEF TypeOK, CurIsThread, Thread, OwnerPC, WorkerPC
<1>1. CASE StartThread
  BY <1>1 DEF StartThread
<1>2. CASE WaitForLoop \/ SpuriousWakeup
  BY <1>2 DEF WaitForLoop, SpuriousWakeup
<1>3. CASE StartLoopReturns
  BY <1>3 DEF StartLoopReturns
<1>4. CASE GetNextLoop
  BY <1>4 DEF GetNextLoop, NextIndex
<1>5. CASE DestroyPool
  BY <1>5 DEF DestroyPool
<1>6. CASE ReadLoop
  <2>1. CASE published[cur]
    BY <1>6, <2>1 DEF ReadLoop
  <2>2. CASE ~published[cur]
    <3>1. /\ freed' = [freed EXCEPT ![cur] = TRUE] /\ cur \in Thread /\ cur' = cur + 1
          /\ opc' = IF cur = N THEN "done" ELSE "readLoop"
          /\ UNCHANGED <<wpc, published, quit, next, handedOut>>
      BY <1>6, <2>2 DEF ReadLoop, Freed
    <3>2. freed' \in [Thread -> BOOLEAN]
      BY <3>1
    <3>3. cur' \in 1..(N + 1) /\ opc' \in OwnerPC /\ (opc' # "done" => cur' \in Thread)
      BY <3>1
    <3>. QED
      BY <3>1, <3>2, <3>3
  <2>. QED
    BY <2>1, <2>2
<1>7. CASE QuitLoop
  BY <1>7 DEF QuitLoop, QuitAsked
<1>8. CASE Join
  BY <1>8 DEF Join, Freed
<1>9. ASSUME NEW i \in Thread, Publish(i)
      PROVE  TypeOK' /\ CurIsThread'
  BY <1>9 DEF Publish, Notified
<1>10. ASSUME NEW i \in Thread, EnterLoop(i) \/ TestQuit(i) \/ Turn(i) \/ TurnAndQuit(i)
       PROVE  TypeOK' /\ CurIsThread'
  BY <1>10 DEF EnterLoop, TestQuit, Turn, TurnAndQuit
<1>11. ASSUME NEW i \in Thread, ClearLoop(i) \/ LeaveThread(i)
       PROVE  TypeOK' /\ CurIsThread'
  BY <1>11 DEF ClearLoop, Cleared, LeaveThread
<1>12. CASE UNCHANGED vars
  BY <1>12 DEF vars
<1>. QED
  BY <1>1, <1>2, <1>3, <1>4, <1>5, <1>6, <1>7, <1>8, <1>9, <1>10, <1>11, <1>12
     DEF Next, Starting, Destroying, threadFunc

LEMMA InitType == Init => TypeOK /\ CurIsThread
<1>. SUFFICES ASSUME Init PROVE TypeOK /\ CurIsThread
  OBVIOUS
<1>1. /\ published \in [Thread -> BOOLEAN] /\ quit \in [Thread -> BOOLEAN]
      /\ freed \in [Thread -> BOOLEAN]
  BY Zenon DEF Init
<1>2. /\ opc \in OwnerPC /\ cur \in 1..(N + 1) /\ cur \in Thread
      /\ wpc \in [Thread -> WorkerPC] /\ next \in 0..(N - 1) /\ handedOut \in [Thread -> Nat]
  BY PoolAssumption DEF Init, OwnerPC, WorkerPC, Thread
<1>. QED
  BY <1>1, <1>2 DEF TypeOK, CurIsThread

LEMMA TypeInductive == Spec => [](TypeOK /\ CurIsThread)
<1>1. TypeOK /\ CurIsThread /\ [Next]_vars => (TypeOK /\ CurIsThread)'
  BY TypeStep
<1>. QED
  BY <1>1, InitType, PTL DEF Spec

\* The type invariant for any number of threads: next_ stays a valid index into
\* loops_, and start and the destructors never run past the last thread.
THEOREM TypeCorrect == Spec => []TypeOK
BY TypeInductive, PTL

-----------------------------------------------------------------------------
(* Round robin *)

LEMMA TurnsStep ==
    ASSUME TypeOK, Turns, [Next]_vars
    PROVE  Turns'
<1>1. CASE GetNextLoop
  <2>. DEFINE n == next + 1
  <2>1. /\ n \in Thread
        /\ \A i \in Thread : handedOut'[i] = IF i = n THEN handedOut[i] + 1 ELSE handedOut[i]
        /\ next' = IF n >= N THEN 0 ELSE n
        /\ next \in 0..(N - 1) /\ N \in Nat
        /\ \A i \in Thread : handedOut[i] \in Nat /\ i \in 1..N
    BY <1>1, PoolAssumption DEF GetNextLoop, NextIndex, TypeOK, Thread
  <2>2. CASE n >= N
    <3>1. \A i \in Thread : i # n => i <= next
      BY <2>1, <2>2
    <3>2. \A i \in Thread : i # n => handedOut[i] = handedOut[n] + 1
      BY <2>1, <3>1 DEF Turns
    <3>. QED
      BY <2>1, <2>2, <3>2 DEF Turns
  <2>3. CASE ~(n >= N)
    <3>1. \A i \in Thread : i <= n <=> i <= next \/ i = n
      BY <2>1
    <3>2. next' = n
      BY <2>1, <2>3
    <3>3. ASSUME NEW i \in Thread, NEW j \in Thread,
                 i <= next' <=> j <= next'
          PROVE  handedOut'[i] = handedOut'[j]
      BY <2>1, <3>1, <3>2, <3>3 DEF Turns
    <3>4. ASSUME NEW i \in Thread, NEW j \in Thread,
                 i <= next', j > next'
          PROVE  handedOut'[i] = handedOut'[j] + 1
      BY <2>1, <3>1, <3>2, <3>4 DEF Turns
    <3>. QED
      BY <3>3, <3>4 DEF Turns
  <2>. QED
    BY <2>2, <2>3
<1>2. CASE UNCHANGED <<next, handedOut>>
  BY <1>2 DEF Turns
<1>. QED
  BY <1>1, <1>2 DEF Next, Starting, StartThread, WaitForLoop, SpuriousWakeup, StartLoopReturns,
     DestroyPool, Destroying, ReadLoop, QuitLoop, Join, threadFunc, Publish, EnterLoop, TestQuit,
     Turn, ClearLoop, LeaveThread, TurnAndQuit, vars

\* getNextLoop hands out the loops evenly, for any number of threads and of calls.
THEOREM EvenlyHandedOut == Spec => []RoundRobin
<1>1. Init => Turns
  BY PoolAssumption DEF Init, Turns, Thread
<1>2. TypeOK /\ Turns /\ [Next]_vars => Turns'
  BY TurnsStep
<1>3. TypeOK /\ Turns => RoundRobin
  <2>. SUFFICES ASSUME TypeOK, Turns, NEW i \in Thread, NEW j \in Thread
                PROVE  handedOut[i] <= handedOut[j] + 1
    BY DEF RoundRobin
  <2>1. /\ handedOut[i] \in Nat /\ handedOut[j] \in Nat
        /\ i \in Nat /\ j \in Nat /\ next \in Nat
    BY PoolAssumption DEF TypeOK, Thread
  <2>2. CASE i <= next <=> j <= next
    BY <2>1, <2>2 DEF Turns
  <2>3. CASE i <= next /\ j > next
    BY <2>1, <2>3 DEF Turns
  <2>4. CASE j <= next /\ i > next
    BY <2>1, <2>4 DEF Turns
  <2>. QED
    BY <2>1, <2>2, <2>3, <2>4
<1>. QED
  BY <1>1, <1>2, <1>3, TypeCorrect, PTL DEF Spec

-----------------------------------------------------------------------------
(* Lifetimes, when the application is orderly *)

\* loop_ is set from the publication to the end of loop()
PublishedInLoop ==
    \A i \in Thread : published[i] <=> wpc[i] \in {"enter", "test", "poll", "clear"}

\* Threads are started one after the other, each when the one before has published
Started ==
    \A i \in Thread :
        /\ opc \in {"start", "check", "wait"} =>
              /\ i > cur => wpc[i] = "none"
              /\ i < cur => wpc[i] \notin {"none", "init"}
              /\ i = cur => (wpc[i] = "none" <=> opc = "start")
        /\ opc \notin {"start", "check", "wait"} => wpc[i] \notin {"none", "init"}

\* The threads whose turn in the destructor has not come are in loop() and not asked
\* to quit, or have ended
Undisturbed(i) == wpc[i] = "ended" \/ (wpc[i] \in {"test", "poll"} /\ ~quit[i])

InTurn ==
    /\ opc \in {"readLoop", "quit", "join"} => \A i \in Thread : i > cur => Undisturbed(i)
    /\ opc = "readLoop" => Undisturbed(cur)
    /\ opc = "quit" => wpc[cur] \in {"test", "poll"} /\ ~quit[cur]

\* An object is destroyed after its thread has ended
FreedEnded == \A i \in Thread : freed[i] => wpc[i] = "ended"

Lifetimes == PublishedInLoop /\ Started /\ InTurn /\ FreedEnded

LEMMA LifetimesStep ==
    ASSUME Orderly, TypeOK, CurIsThread, Lifetimes, [Next]_vars
    PROVE  Lifetimes'
<1>. USE PoolAssumption
     DEF TypeOK, CurIsThread, Thread, Lifetimes, PublishedInLoop, Started, InTurn,
         FreedEnded, Undisturbed
<1>1. CASE StartThread
  BY <1>1 DEF StartThread
<1>2. CASE WaitForLoop \/ SpuriousWakeup
  BY <1>2 DEF WaitForLoop, SpuriousWakeup
<1>3. CASE StartLoopReturns
  <2>1. wpc[cur] \notin {"none", "init"} /\ UNCHANGED <<wpc, published, quit, freed>>
    BY <1>3 DEF StartLoopReturns
  <2>2. CASE cur = N
    BY <1>3, <2>1, <2>2 DEF StartLoopReturns
  <2>3. CASE cur # N
    <3>1. opc = "check" /\ opc' = "start" /\ cur' = cur + 1
      BY <1>3, <2>3 DEF StartLoopReturns
    <3>2. ASSUME NEW i \in Thread
          PROVE  /\ i > cur' => wpc[i] = "none"
                 /\ i < cur' => wpc[i] \notin {"none", "init"}
                 /\ i = cur' => wpc[i] = "none"
      BY <2>1, <3>1
    <3>. QED
      BY <2>1, <3>1, <3>2
  <2>. QED
    BY <2>2, <2>3
<1>4. CASE GetNextLoop
  BY <1>4 DEF GetNextLoop
<1>5. CASE DestroyPool
  BY <1>5 DEF DestroyPool, MayDestroy
<1>6. CASE ReadLoop
  <2>1. CASE published[cur]
    BY <1>6, <2>1 DEF ReadLoop
  <2>2. CASE ~published[cur]
    BY <1>6, <2>2 DEF ReadLoop, Freed
  <2>. QED
    BY <2>1, <2>2
<1>7. CASE QuitLoop
  BY <1>7 DEF QuitLoop, QuitAsked
<1>8. CASE Join
  BY <1>8 DEF Join, ThreadEnded, Freed
<1>9. ASSUME NEW i \in Thread, Publish(i)
      PROVE  Lifetimes'
  BY <1>9 DEF Publish, Notified
<1>10. ASSUME NEW i \in Thread, EnterLoop(i)
       PROVE  Lifetimes'
  BY <1>10 DEF EnterLoop
<1>11. ASSUME NEW i \in Thread, TestQuit(i)
       PROVE  Lifetimes'
  BY <1>11 DEF TestQuit
<1>12. ASSUME NEW i \in Thread, Turn(i) \/ TurnAndQuit(i)
       PROVE  Lifetimes'
  BY <1>12 DEF Turn, TurnAndQuit, MayQuit
<1>13. ASSUME NEW i \in Thread, ClearLoop(i)
       PROVE  Lifetimes'
  BY <1>13 DEF ClearLoop, Cleared
<1>14. ASSUME NEW i \in Thread, LeaveThread(i)
       PROVE  Lifetimes'
  BY <1>14 DEF LeaveThread
<1>15. CASE UNCHANGED vars
  BY <1>15 DEF vars
<1>. QED
  BY <1>1, <1>2, <1>3, <1>4, <1>5, <1>6, <1>7, <1>8, <1>9, <1>10, <1>11, <1>12, <1>13, <1>14,
     <1>15 DEF Next, Starting, Destroying, threadFunc

LEMMA LifetimesInductive ==
    ASSUME Orderly
    PROVE  Spec => []Lifetimes
<1>1. TypeOK /\ CurIsThread /\ Lifetimes /\ [Next]_vars => Lifetimes'
  BY LifetimesStep
<1>2. Init => Lifetimes
  BY PoolAssumption
     DEF Init, Thread, Lifetimes, PublishedInLoop, Started, InTurn, FreedEnded
<1>. QED
  BY <1>1, <1>2, TypeInductive, PTL DEF Spec

\* An application that lets every loop begin before it destroys the pool, and stops loops
\* in between only, never has the destructor call quit() on a loop that is gone.
THEOREM QuitTargetsExist ==
    ASSUME Orderly
    PROVE  Spec => []QuitTargetExists
<1>1. Lifetimes => QuitTargetExists
  BY DEF Lifetimes, InTurn, QuitTargetExists, LoopExists
<1>. QED
  BY <1>1, LifetimesInductive, PTL

\* For such an application an EventLoopThread outlives threadFunc, which works on its
\* members: the destructor joins every thread that has not ended already.
THEOREM ObjectsOutliveThreads ==
    ASSUME Orderly
    PROVE  Spec => []ObjectOutlivesThread
<1>1. Lifetimes => ObjectOutlivesThread
  BY DEF Lifetimes, FreedEnded, ObjectOutlivesThread
<1>. QED
  BY <1>1, LifetimesInductive, PTL
=============================================================================
