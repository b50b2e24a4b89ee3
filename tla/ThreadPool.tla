------------------------------ MODULE ThreadPool ------------------------------
(***************************************************************************)
(* The pool of worker threads (src/src/base/ThreadPool.h).  Tasks are      *)
(* enqueued by the thread that owns the pool and by tasks that run in it:  *)
(* a call by a third thread would have to be kept from outliving the pool. *)
(*                                                                         *)
(* What happens under queue_mutex_ is one step; a condition variable wakes *)
(* any one waiting worker, and workers may wake up by themselves.          *)
(***************************************************************************)
EXTENDS Naturals, FiniteSets, SequencesExt

CONSTANTS Worker,   \* workers_
          Owner,    \* the thread that creates and destroys the pool
          Task      \* tasks, each enqueued at most once

\* The owner is no worker, and there is a worker
ASSUME WorkersAssumption == Owner \notin Worker /\ Worker # {}

VARIABLES tasks,     \* tasks_
          stop,      \* stop_
          at,        \* at[t]: where thread t is
          current,   \* current[w]: no task, or the one worker w runs
          finished,  \* tasks that have run
          refused    \* tasks whose enqueue threw

poolVars == <<tasks, stop, at, current, finished, refused>>

\* Worker: "lock" before the wait, "wait", "run", "notify" inside an enqueue of its
\* task, "ended".  Owner: "up", "notify", then the destructor "stopped", "join", "gone".
WorkerAt == {"lock", "wait", "run", "notify", "ended"}
OwnerAt == {"up", "notify", "stopped", "join", "gone"}

InQueue == ToSet(tasks)
Running == UNION {current[w] : w \in Worker}

\* The pool's variables keep their types; a worker has a task exactly while it runs one
PoolTypeOK ==
    /\ tasks \in Seq(Task) /\ stop \in BOOLEAN
    /\ at \in [Worker \cup {Owner} -> WorkerAt \cup OwnerAt]
    /\ at[Owner] \in OwnerAt /\ \A w \in Worker : at[w] \in WorkerAt
    /\ current \in [Worker -> SUBSET Task]
    /\ \A w \in Worker :
          Cardinality(current[w]) = IF at[w] \in {"run", "notify"} THEN 1 ELSE 0
    /\ finished \subseteq Task /\ refused \subseteq Task

PoolInit ==
    /\ tasks = << >> /\ stop = FALSE
    /\ at = [t \in Worker \cup {Owner} |-> IF t = Owner THEN "up" ELSE "lock"]
    /\ current = [w \in Worker |-> {}]
    /\ finished = {} /\ refused = {}

-----------------------------------------------------------------------------
(* enqueue, by thread t *)

MayEnqueue(t) == at[t] = IF t = Owner THEN "up" ELSE "run"

New(k) == k \notin InQueue \cup Running \cup finished \cup refused

Enqueue(t, k) ==
    /\ MayEnqueue(t)
    /\ New(k)
    /\ ~stop
    /\ tasks' = Append(tasks, k)
    /\ at' = [at EXCEPT ![t] = "notify"]
    /\ UNCHANGED <<stop, current, finished, refused>>

\* throw std::runtime_error, which the packaged_task of the caller keeps
EnqueueRefused(t, k) ==
    /\ MayEnqueue(t)
    /\ New(k)
    /\ stop
    /\ refused' = refused \cup {k}
    /\ UNCHANGED <<tasks, stop, at, current, finished>>

Waiting == {w \in Worker : at[w] = "wait"}

\* A bug to tell apart: nobody is notified
NobodyWoken == {{}}

\* Whom notify_one may wake: any one waiting worker
WokenByOne == IF Waiting = {} THEN {{}} ELSE {{w} : w \in Waiting}

\* A thread that notifies goes on to where its place is then
Awakened(woken, t, then) ==
    at' = [u \in DOMAIN at |-> IF u \in woken THEN "lock" ELSE IF u = t THEN then ELSE at[u]]

\* condition_.notify_one() after the unlock
NotifyOne(t) ==
    /\ at[t] = "notify"
    /\ \E woken \in WokenByOne : Awakened(woken, t, IF t = Owner THEN "up" ELSE "run")
    /\ UNCHANGED <<tasks, stop, current, finished, refused>>

-----------------------------------------------------------------------------
(* The worker's loop *)

\* The predicate of condition_.wait is false
Wait(w) ==
    /\ at[w] = "lock"
    /\ ~stop /\ tasks = << >>
    /\ at' = [at EXCEPT ![w] = "wait"]
    /\ UNCHANGED <<tasks, stop, current, finished, refused>>

SpuriousWake(w) ==
    /\ at[w] = "wait"
    /\ at' = [at EXCEPT ![w] = "lock"]
    /\ UNCHANGED <<tasks, stop, current, finished, refused>>

\* A bug to tell apart: the task is not popped
NotPopped == tasks

\* tasks_.pop()
Popped == Tail(tasks)

Take(w) ==
    /\ at[w] = "lock"
    /\ tasks # << >>
    /\ current' = [current EXCEPT ![w] = {Head(tasks)}]
    /\ tasks' = Popped
    /\ at' = [at EXCEPT ![w] = "run"]
    /\ UNCHANGED <<stop, finished, refused>>

\* task() returns, and the std::function of this turn of the loop ends with it
Finish(w) ==
    /\ at[w] = "run"
    /\ finished' = finished \cup current[w]
    /\ current' = [current EXCEPT ![w] = {}]
    /\ at' = [at EXCEPT ![w] = "lock"]
    /\ UNCHANGED <<tasks, stop, refused>>

\* A bug to tell apart: a stopped worker leaves what is queued
MayLeaveAtOnce == stop

\* stop_ && tasks_.empty()
MayLeave == stop /\ tasks = << >>

\* if (stop_ && tasks_.empty()) return
Leave(w) ==
    /\ at[w] = "lock"
    /\ MayLeave
    /\ at' = [at EXCEPT ![w] = "ended"]
    /\ UNCHANGED <<tasks, stop, current, finished, refused>>

-----------------------------------------------------------------------------
(* ~ThreadPool *)

SetStop ==
    /\ at[Owner] = "up"
    /\ stop' = TRUE
    /\ at' = [at EXCEPT ![Owner] = "stopped"]
    /\ UNCHANGED <<tasks, current, finished, refused>>

\* A bug to tell apart: one worker is notified
WokenToStop == WokenByOne

\* notify_all wakes every waiting worker
WokenByAll == {Waiting}

NotifyAll ==
    /\ at[Owner] = "stopped"
    /\ \E woken \in WokenByAll : Awakened(woken, Owner, "join")
    /\ UNCHANGED <<tasks, stop, current, finished, refused>>

\* worker.join() for all of them
JoinWorkers ==
    /\ at[Owner] = "join"
    /\ \A w \in Worker : at[w] = "ended"
    /\ at' = [at EXCEPT ![Owner] = "gone"]
    /\ UNCHANGED <<tasks, stop, current, finished, refused>>

-----------------------------------------------------------------------------

WorkerStep(w) == Wait(w) \/ Take(w) \/ Leave(w) \/ NotifyOne(w)

PoolNext ==
    \/ \E t \in Worker \cup {Owner}, k \in Task : Enqueue(t, k) \/ EnqueueRefused(t, k)
    \/ NotifyOne(Owner)
    \/ \E w \in Worker : WorkerStep(w) \/ Finish(w) \/ SpuriousWake(w)
    \/ SetStop \/ NotifyAll \/ JoinWorkers

\* Threads run, tasks return, and a destructor that has begun goes on; nobody
\* owes a wake-up without a notification
PoolFairness ==
    /\ \A w \in Worker : WF_poolVars(WorkerStep(w)) /\ SF_poolVars(Finish(w))
    /\ WF_poolVars(NotifyOne(Owner)) /\ WF_poolVars(NotifyAll \/ JoinWorkers)

PoolSpec == PoolInit /\ [][PoolNext]_poolVars

FairPoolSpec == PoolSpec /\ PoolFairness

-----------------------------------------------------------------------------
(* Properties *)

\* An enqueued task is in one place at a time - in the queue once, with one worker,
\* or finished - so that no task runs twice or concurrently with itself.
OnePlace ==
    /\ IsInjective(tasks)
    /\ \A v, w \in Worker : v # w => current[v] \cap current[w] = {}
    /\ InQueue \cap Running = {} /\ (InQueue \cup Running) \cap finished = {}

\* When the destructor returns, every task whose enqueue did not throw has run,
\* those that running tasks enqueued before stop_ included.
Drained == at[Owner] = "gone" => tasks = << >> /\ Running = {}

\* Every enqueued task is run, whether or not the pool is destroyed: no enqueue is
\* slept over by all workers.
TasksRun == \A k \in Task : k \in InQueue ~> k \in finished

\* The destructor returns: every worker leaves and is joined
WorkersJoined == at[Owner] = "stopped" ~> at[Owner] = "gone"
=============================================================================
