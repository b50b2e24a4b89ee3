--------------------------- MODULE ThreadPoolProofs ---------------------------
(***************************************************************************)
(* Proofs about ThreadPool for any set of workers and of tasks: a task is  *)
(* in one place at a time, and the destructor leaves none behind.          *)
(***************************************************************************)
EXTENDS ThreadPool, SequenceTheorems, FiniteSetTheorems, TLAPS

\* A worker has its one task exactly from the pop to the end of the call
HasTask ==
    \A w \in Worker :
        IF at[w] \in {"run", "notify"} THEN \E k \in Task : current[w] = {k} ELSE current[w] = {}

\* stop_ is set when the destructor begins
StopSet == stop <=> at[Owner] \in {"stopped", "join", "gone"}

\* A worker leaves a pool that is stopped and empty, and it stays empty
LeftEmpty == \A w \in Worker : at[w] = "ended" => stop /\ tasks = << >>

\* The destructor ends after the workers
Joined == at[Owner] = "gone" => \A w \in Worker : at[w] = "ended"

\* The variables without the task a worker holds, which HasTask describes
Types ==
    /\ tasks \in Seq(Task) /\ stop \in BOOLEAN
    /\ at \in [Worker \cup {Owner} -> WorkerAt \cup OwnerAt]
    /\ at[Owner] \in OwnerAt /\ \A w \in Worker : at[w] \in WorkerAt
    /\ current \in [Worker -> SUBSET Task]
    /\ finished \subseteq Task /\ refused \subseteq Task

Shutdown == StopSet /\ LeftEmpty /\ Joined

\* Of a non-empty queue somebody knows: a worker that will look at it again, or the
\* owner inside enqueue, about to notify
NotSleptOver ==
    tasks # << >> =>
        at[Owner] = "notify" \/ \E w \in Worker : at[w] \in {"lock", "run", "notify"}

\* Nobody waits on condition_ once the destructor has notified
NoneWaits == at[Owner] \in {"join", "gone"} => Waiting = {}

Awake == NotSleptOver /\ NoneWaits

-----------------------------------------------------------------------------
(* Sequences without repetition *)

LEMMA ToSetAppend ==
    ASSUME NEW S, NEW s \in Seq(S), NEW e \in S
    PROVE  ToSet(Append(s, e)) = ToSet(s) \cup {e}
<1>1. /\ Append(s, e) \in Seq(S)
      /\ Len(Append(s, e)) = Len(s) + 1
      /\ \A i \in 1..Len(s) : Append(s, e)[i] = s[i]
      /\ Append(s, e)[Len(s) + 1] = e
  BY AppendProperties
<1>2. DOMAIN Append(s, e) = 1..(Len(s) + 1) /\ DOMAIN s = 1..Len(s) /\ Len(s) \in Nat
  BY <1>1, LenProperties
<1>. QED
  BY <1>1, <1>2 DEF ToSet

LEMMA InjectiveAppend ==
    ASSUME NEW S, NEW s \in Seq(S), NEW e \in S, IsInjective(s), e \notin ToSet(s)
    PROVE  IsInjective(Append(s, e))
<1>1. /\ Append(s, e) \in Seq(S)
      /\ Len(Append(s, e)) = Len(s) + 1
      /\ \A i \in 1..Len(s) : Append(s, e)[i] = s[i]
      /\ Append(s, e)[Len(s) + 1] = e
  BY AppendProperties
<1>2. DOMAIN Append(s, e) = 1..(Len(s) + 1) /\ DOMAIN s = 1..Len(s) /\ Len(s) \in Nat
  BY <1>1, LenProperties
<1>3. \A i \in 1..Len(s) : s[i] # e
  BY <1>2 DEF ToSet
<1>. QED
  BY <1>1, <1>2, <1>3 DEF IsInjective

LEMMA InjectiveTail ==
    ASSUME NEW S, NEW s \in Seq(S), s # << >>, IsInjective(s)
    PROVE  /\ Head(s) \in S /\ Tail(s) \in Seq(S)
           /\ IsInjective(Tail(s))
           /\ ToSet(Tail(s)) = ToSet(s) \ {Head(s)} /\ Head(s) \in ToSet(s)
<1>1. /\ Head(s) = s[1] /\ Head(s) \in S /\ Tail(s) \in Seq(S)
      /\ Len(Tail(s)) = Len(s) - 1
      /\ \A i \in 1..Len(Tail(s)) : Tail(s)[i] = s[i + 1]
  BY HeadTailProperties
<1>2. /\ DOMAIN Tail(s) = 1..(Len(s) - 1) /\ DOMAIN s = 1..Len(s)
      /\ Len(s) \in Nat /\ Len(s) > 0
  BY <1>1, LenProperties, EmptySeq
<1>3. IsInjective(Tail(s))
  BY <1>1, <1>2 DEF IsInjective
<1>4. Head(s) \in ToSet(s)
  BY <1>1, <1>2 DEF ToSet
<1>5. ASSUME NEW e \in ToSet(Tail(s)) PROVE e \in ToSet(s) \ {Head(s)}
  <2>1. PICK i \in 1..(Len(s) - 1) : e = s[i + 1]
    BY <1>1, <1>2 DEF ToSet
  <2>2. i + 1 \in DOMAIN s /\ i + 1 # 1 /\ 1 \in DOMAIN s
    BY <1>2
  <2>. QED
    BY <1>1, <2>1, <2>2 DEF ToSet, IsInjective
<1>6. ASSUME NEW e \in ToSet(s), e # Head(s) PROVE e \in ToSet(Tail(s))
  <2>1. PICK i \in 1..Len(s) : e = s[i]
    BY <1>2 DEF ToSet
  <2>2. i # 1
    BY <1>1, <1>6, <2>1
  <2>3. i - 1 \in 1..(Len(s) - 1) /\ (i - 1) + 1 = i
    BY <1>2, <2>2
  <2>4. Tail(s)[i - 1] = e
    BY <1>1, <2>1, <2>3
  <2>. QED
    BY <1>2, <2>3, <2>4 DEF ToSet
<1>. QED
  BY <1>1, <1>3, <1>4, <1>5, <1>6

-----------------------------------------------------------------------------
(* Who holds which task *)

LEMMA TypesStep ==
    ASSUME WorkersAssumption, Types, HasTask, [PoolNext]_poolVars
    PROVE  Types' /\ HasTask'
<1>. USE DEF WorkersAssumption, Types, HasTask, WorkerAt, OwnerAt
<1>1. ASSUME NEW t \in Worker \cup {Owner}, NEW k \in Task, Enqueue(t, k)
      PROVE  Types' /\ HasTask'
  BY <1>1 DEF Enqueue, MayEnqueue
<1>2. ASSUME NEW t \in Worker \cup {Owner}, NEW k \in Task, EnqueueRefused(t, k)
      PROVE  Types' /\ HasTask'
  BY <1>2 DEF EnqueueRefused
<1>3. ASSUME NEW t \in Worker \cup {Owner}, NotifyOne(t)
      PROVE  Types' /\ HasTask'
  <2>1. PICK woken \in WokenByOne : Awakened(woken, t, IF t = Owner THEN "up" ELSE "run")
    BY <1>3 DEF NotifyOne
  <2>2. woken \subseteq Waiting
    BY DEF WokenByOne
  <2>. QED
    BY <1>3, <2>1, <2>2 DEF NotifyOne, Awakened, Waiting
<1>4. ASSUME NEW w \in Worker, Wait(w)
      PROVE  Types' /\ HasTask'
  BY <1>4 DEF Wait
<1>5. ASSUME NEW w \in Worker, SpuriousWake(w)
      PROVE  Types' /\ HasTask'
  BY <1>5 DEF SpuriousWake
<1>6. ASSUME NEW w \in Worker, Take(w)
      PROVE  Types' /\ HasTask'
  <2>1. Head(tasks) \in Task /\ Tail(tasks) \in Seq(Task)
    BY <1>6, HeadTailProperties DEF Take
  <2>. QED
    BY <1>6, <2>1 DEF Take, Popped
<1>7. ASSUME NEW w \in Worker, Finish(w)
      PROVE  Types' /\ HasTask'
  BY <1>7 DEF Finish
<1>8. ASSUME NEW w \in Worker, Leave(w)
      PROVE  Types' /\ HasTask'
  BY <1>8 DEF Leave
<1>9. CASE SetStop
  BY <1>9 DEF SetStop
<1>10. CASE NotifyAll
  BY <1>10 DEF NotifyAll, WokenByAll, Awakened, Waiting
<1>11. CASE JoinWorkers
  BY <1>11 DEF JoinWorkers
<1>12. CASE UNCHANGED poolVars
  BY <1>12 DEF poolVars
<1>. QED
  BY <1>1, <1>2, <1>3, <1>4, <1>5, <1>6, <1>7, <1>8, <1>9, <1>10, <1>11, <1>12
     DEF PoolNext, WorkerStep

\* A step that moves no task keeps every one where it is.
LEMMA NothingMoved ==
    ASSUME OnePlace, UNCHANGED <<tasks, current, finished>>
    PROVE  OnePlace'
BY DEF OnePlace, InQueue, Running

LEMMA OnePlaceStep ==
    ASSUME WorkersAssumption, Types, HasTask, OnePlace, [PoolNext]_poolVars
    PROVE  OnePlace'
<1>. USE DEF Types
<1>1. ASSUME NEW t \in Worker \cup {Owner}, NEW k \in Task, Enqueue(t, k)
      PROVE  OnePlace'
  <2>1. tasks' = Append(tasks, k) /\ UNCHANGED <<current, finished>>
    BY <1>1 DEF Enqueue
  <2>2. k \notin InQueue /\ k \notin Running /\ k \notin finished
    BY <1>1 DEF Enqueue, New
  <2>3. InQueue' = InQueue \cup {k}
    BY <2>1, ToSetAppend DEF InQueue
  <2>4. IsInjective(tasks')
    BY <2>1, <2>2, InjectiveAppend DEF InQueue, OnePlace
  <2>5. Running' = Running
    BY <2>1 DEF Running
  <2>. QED
    BY <2>1, <2>2, <2>3, <2>4, <2>5 DEF OnePlace
<1>2. ASSUME NEW w \in Worker, Take(w)
      PROVE  OnePlace'
  <2>. DEFINE k == Head(tasks)
  <2>1. /\ tasks # << >> /\ tasks' = Tail(tasks)
        /\ current' = [current EXCEPT ![w] = {k}] /\ UNCHANGED finished
    BY <1>2 DEF Take, Popped
  <2>2. /\ IsInjective(tasks') /\ InQueue' = InQueue \ {k} /\ k \in InQueue
    BY <2>1, InjectiveTail DEF InQueue, OnePlace
  <2>3. current[w] = {}
    BY <1>2 DEF Take, HasTask
  <2>4. Running' = Running \cup {k}
    BY <2>1, <2>3 DEF Running
  <2>5. \A u, v \in Worker : u # v => (current[u] \cap current[v] = {})'
    BY <2>1, <2>2 DEF OnePlace, Running
  <2>. QED
    BY <2>1, <2>2, <2>4, <2>5 DEF OnePlace
<1>3. ASSUME NEW w \in Worker, Finish(w)
      PROVE  OnePlace'
  <2>1. /\ finished' = finished \cup current[w]
        /\ current' = [current EXCEPT ![w] = {}] /\ UNCHANGED tasks
    BY <1>3 DEF Finish
  <2>2. Running' = Running \ current[w] /\ current[w] \subseteq Running
    BY <2>1 DEF Running, OnePlace
  <2>3. \A u, v \in Worker : u # v => (current[u] \cap current[v] = {})'
    BY <2>1 DEF OnePlace
  <2>4. InQueue' = InQueue /\ IsInjective(tasks')
    BY <2>1 DEF InQueue, OnePlace
  <2>. QED
    BY <2>1, <2>2, <2>3, <2>4 DEF OnePlace
<1>4. CASE \/ \E t \in Worker \cup {Owner}, k \in Task : EnqueueRefused(t, k)
           \/ \E t \in Worker \cup {Owner} : NotifyOne(t)
           \/ \E w \in Worker : Wait(w) \/ Leave(w) \/ SpuriousWake(w)
           \/ SetStop \/ NotifyAll \/ JoinWorkers \/ UNCHANGED poolVars
  BY <1>4, NothingMoved
     DEF EnqueueRefused, NotifyOne, Wait, Leave, SpuriousWake, SetStop, NotifyAll, JoinWorkers,
         poolVars
<1>. QED
  BY <1>1, <1>2, <1>3, <1>4 DEF PoolNext, WorkerStep

-----------------------------------------------------------------------------
(* The destructor *)

LEMMA ShutdownStep ==
    ASSUME WorkersAssumption, Types, Shutdown, [PoolNext]_poolVars
    PROVE  Shutdown'
<1>. USE DEF WorkersAssumption, Types, Shutdown, StopSet, LeftEmpty, Joined
<1>1. ASSUME NEW t \in Worker \cup {Owner}, NEW k \in Task, Enqueue(t, k)
      PROVE  Shutdown'
  BY <1>1 DEF Enqueue, MayEnqueue
<1>2. ASSUME NEW t \in Worker \cup {Owner}, NEW k \in Task, EnqueueRefused(t, k)
      PROVE  Shutdown'
  BY <1>2 DEF EnqueueRefused
<1>3. ASSUME NEW t \in Worker \cup {Owner}, NotifyOne(t)
      PROVE  Shutdown'
  <2>1. PICK woken \in WokenByOne : Awakened(woken, t, IF t = Owner THEN "up" ELSE "run")
    BY <1>3 DEF NotifyOne
  <2>2. woken \subseteq Waiting
    BY DEF WokenByOne
  <2>. QED
    BY <1>3, <2>1, <2>2 DEF NotifyOne, Awakened, Waiting
<1>4. ASSUME NEW w \in Worker, Wait(w)
      PROVE  Shutdown'
  BY <1>4 DEF Wait
<1>5. ASSUME NEW w \in Worker, SpuriousWake(w)
      PROVE  Shutdown'
  BY <1>5 DEF SpuriousWake
<1>6. ASSUME NEW w \in Worker, Take(w)
      PROVE  Shutdown'
  BY <1>6 DEF Take, Popped
<1>7. ASSUME NEW w \in Worker, Finish(w)
      PROVE  Shutdown'
  BY <1>7 DEF Finish
<1>8. ASSUME NEW w \in Worker, Leave(w)
      PROVE  Shutdown'
  BY <1>8 DEF Leave, MayLeave
<1>9. CASE SetStop
  BY <1>9 DEF SetStop
<1>10. CASE NotifyAll
  BY <1>10 DEF NotifyAll, WokenByAll, Awakened, Waiting
<1>11. CASE JoinWorkers
  BY <1>11 DEF JoinWorkers
<1>12. CASE UNCHANGED poolVars
  BY <1>12 DEF poolVars
<1>. QED
  BY <1>1, <1>2, <1>3, <1>4, <1>5, <1>6, <1>7, <1>8, <1>9, <1>10, <1>11, <1>12
     DEF PoolNext, WorkerStep

-----------------------------------------------------------------------------
(* Wake-ups *)

LEMMA AwakeStep ==
    ASSUME WorkersAssumption, Types, Shutdown, Awake, [PoolNext]_poolVars
    PROVE  Awake'
<1>. USE DEF WorkersAssumption, Types, Awake, NotSleptOver, NoneWaits, Waiting
<1>1. ASSUME NEW t \in Worker \cup {Owner}, NEW k \in Task, Enqueue(t, k)
      PROVE  Awake'
  BY <1>1 DEF Enqueue, MayEnqueue
<1>2. ASSUME NEW t \in Worker \cup {Owner}, NEW k \in Task, EnqueueRefused(t, k)
      PROVE  Awake'
  BY <1>2 DEF EnqueueRefused
<1>3. ASSUME NEW t \in Worker \cup {Owner}, NotifyOne(t)
      PROVE  Awake'
  \* if there is nobody to wake, a worker is on its way to the queue: none has ended,
  \* since the queue is not empty
  <2>1. PICK woken \in WokenByOne : Awakened(woken, t, IF t = Owner THEN "up" ELSE "run")
    BY <1>3 DEF NotifyOne
  <2>2. woken \subseteq Waiting /\ (Waiting # {} => woken # {})
    BY DEF WokenByOne
  <2>3. tasks # << >> => \A w \in Worker : at[w] \in {"lock", "wait", "run", "notify"}
    BY DEF Shutdown, LeftEmpty, WorkerAt
  <2>. QED
    BY <1>3, <2>1, <2>2, <2>3 DEF NotifyOne, Awakened
<1>4. ASSUME NEW w \in Worker, Wait(w)
      PROVE  Awake'
  BY <1>4 DEF Wait, Shutdown, StopSet
<1>5. ASSUME NEW w \in Worker, SpuriousWake(w)
      PROVE  Awake'
  BY <1>5 DEF SpuriousWake
<1>6. ASSUME NEW w \in Worker, Take(w)
      PROVE  Awake'
  BY <1>6 DEF Take, Popped
<1>7. ASSUME NEW w \in Worker, Finish(w)
      PROVE  Awake'
  BY <1>7 DEF Finish
<1>8. ASSUME NEW w \in Worker, Leave(w)
      PROVE  Awake'
  BY <1>8 DEF Leave, MayLeave
<1>9. CASE SetStop
  BY <1>9 DEF SetStop
<1>10. CASE NotifyAll
  BY <1>10 DEF NotifyAll, WokenByAll, Awakened
<1>11. CASE JoinWorkers
  BY <1>11 DEF JoinWorkers
<1>12. CASE UNCHANGED poolVars
  BY <1>12 DEF poolVars
<1>. QED
  BY <1>1, <1>2, <1>3, <1>4, <1>5, <1>6, <1>7, <1>8, <1>9, <1>10, <1>11, <1>12
     DEF PoolNext, WorkerStep

-----------------------------------------------------------------------------

IInv == Types /\ HasTask /\ OnePlace /\ Shutdown /\ Awake

LEMMA InitIInv ==
    ASSUME WorkersAssumption, PoolInit
    PROVE  IInv
<1>1. tasks \in Seq(Task) /\ DOMAIN tasks = {} /\ ToSet(tasks) = {}
  BY EmptySeq DEF PoolInit, ToSet
<1>2. stop \in BOOLEAN
  BY Zenon DEF PoolInit
<1>3. Types
  BY <1>1, <1>2 DEF PoolInit, Types, WorkerAt, OwnerAt, WorkersAssumption
<1>4. HasTask /\ Running = {}
  BY DEF PoolInit, HasTask, Running, WorkersAssumption
<1>5. OnePlace
  BY <1>1, <1>4 DEF PoolInit, OnePlace, InQueue, Running, IsInjective
<1>6. Shutdown
  BY DEF PoolInit, Shutdown, StopSet, LeftEmpty, Joined, WorkersAssumption
<1>7. Awake
  BY DEF PoolInit, Awake, NotSleptOver, NoneWaits
<1>. QED
  BY <1>3, <1>4, <1>5, <1>6, <1>7 DEF IInv

LEMMA Inductive ==
    ASSUME WorkersAssumption
    PROVE  PoolSpec => []IInv
<1>1. PoolInit => IInv
  BY InitIInv
<1>2. IInv /\ [PoolNext]_poolVars => IInv'
  BY TypesStep, OnePlaceStep, ShutdownStep, AwakeStep DEF IInv
<1>. QED
  BY <1>1, <1>2, PTL DEF PoolSpec

\* The type invariant of the pool, with the one task of a worker inside a call and
\* none otherwise, for any number of workers and tasks.
THEOREM TypeCorrect ==
    ASSUME WorkersAssumption
    PROVE  PoolSpec => []PoolTypeOK
<1>1. IInv => PoolTypeOK
  <2>. SUFFICES ASSUME IInv,
                       NEW w \in Worker
                PROVE  Cardinality(current[w]) = IF at[w] \in {"run", "notify"} THEN 1 ELSE 0
    BY DEF IInv, Types, PoolTypeOK
  <2>1. CASE at[w] \in {"run", "notify"}
    BY <2>1, FS_Singleton DEF IInv, HasTask
  <2>2. CASE at[w] \notin {"run", "notify"}
    BY <2>2, FS_EmptySet DEF IInv, HasTask
  <2>. QED
    BY <2>1, <2>2
<1>. QED
  BY <1>1, Inductive, PTL

\* enqueue, the worker's loop and the destructor keep every task in one place at a
\* time, so that none runs twice or concurrently with itself.
THEOREM EveryTaskInOnePlace ==
    ASSUME WorkersAssumption
    PROVE  PoolSpec => []OnePlace
<1>1. IInv => OnePlace
  BY DEF IInv
<1>. QED
  BY <1>1, Inductive, PTL

\* ~ThreadPool returns only when the queue is empty and no task runs: a worker leaves
\* a stopped and empty pool only, and after stop_ no enqueue can succeed.
THEOREM DestructorDrains ==
    ASSUME WorkersAssumption
    PROVE  PoolSpec => []Drained
<1>1. IInv => Drained
  <2>. SUFFICES ASSUME IInv, at[Owner] = "gone" PROVE tasks = << >> /\ Running = {}
    BY DEF Drained
  <2>1. \A w \in Worker : at[w] = "ended"
    BY DEF IInv, Shutdown, Joined
  <2>2. tasks = << >>
    BY <2>1 DEF IInv, Shutdown, LeftEmpty, WorkersAssumption
  <2>3. Running = {}
    BY <2>1 DEF IInv, HasTask, Running
  <2>. QED
    BY <2>2, <2>3
<1>. QED
  BY <1>1, Inductive, PTL

\* The wake-ups of enqueue and of the destructor cannot be lost: whenever the queue is
\* not empty somebody will look at it or notify, and after notify_all nobody waits.
\* This is the safety part of "every enqueued task is run".
THEOREM NoLostWakeups ==
    ASSUME WorkersAssumption
    PROVE  PoolSpec => [](NotSleptOver /\ NoneWaits)
<1>1. IInv => NotSleptOver /\ NoneWaits
  BY DEF IInv, Awake
<1>. QED
  BY <1>1, Inductive, PTL
=============================================================================
