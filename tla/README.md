# Verification of tiny-network

TLA+ specifications, TLC models and TLAPS proofs for tiny-network, a C++11
reactor network library (one event loop per thread) with timers, an
asynchronous log, a thread pool and a memory pool. The code is in
`src/src/{net,time,logger,base,memory}`; every definition that models code names
its lines in `PROJECT.json` (`map`).

Contents: 1 inventory, 2 modules and code, 3 runs, 4 bounds, fairness and
assumptions on the application, 5 proofs, 6 disagreements found, 7 what is not
modelled, 8 plan.

## 1. Inventory

| component | state | operations | interacts with |
|---|---|---|---|
| **EventLoop** (`net/EventLoop`) | `pendingFunctors_` under `mutex_`, `callingPendingFunctors_`, `quit_`, the eventfd, `activeChannels_` | `loop`, `quit`, `runInLoop`, `queueInLoop`, `wakeup`, `handleRead`, `doPendingFunctors` | every other net component runs in it or queues functors into it |
| **Channel, EPollPoller** | `events_`, `revents_`, `index_`, `tie_`; the map fd -> channel; the kernel's epoll set | `enable*`/`disable*`, `remove`, `handleEvent`, `poll` | owned by connections, acceptor, timer queue, loop |
| **TcpConnection** | `state_`, two Buffers, the socket, callbacks; lifetime by `shared_ptr` | `send`, `shutdown`, `connectEstablished`, `connectDestroyed`, `handleRead/Write/Close/Error` | its loop, the server's map, application threads, the peer |
| **TcpServer, Acceptor** | `connections_`, `nextConnId_`, `started_`; `listenning_` | `start`, `newConnection`, `removeConnection(InLoop)`, destructor; accept | main loop and I/O loops, each step posted to the right one |
| **EventLoopThread(Pool), Thread** | `loop_` under `mutex_`/`cond_`; `loops_`, `next_` | `startLoop`, `threadFunc`, `start`, `getNextLoop`, destructors | creates the I/O loops, joins their threads |
| **TimerQueue, Timer, Timestamp** | the ordered set `timers_`, the timerfd | `addTimer`, `addTimerInLoop`, `handleRead`, `getExpired`, `reset` | a channel of its loop; timers are raw pointers |
| **AsyncLogging, FixedBuffer** | `currentBuffer_`, `nextBuffer_`, `buffers_`, `running_` | `append`, `start`, `stop`, `threadFunc` | any thread in front, one thread and a LogFile behind |
| **LogFile, FileUtil** | the stdio stream, written bytes, counters, last roll and flush | `append`, `flush`, `rollFile` | written to by AsyncLogging |
| **Logging, LogStream** | one buffer per statement | formatting | hands the line to AsyncLogging |
| **ThreadPool** (`base`) | `tasks_`, `stop_` | `enqueue`, worker loop, destructor | any thread in front |
| **Buffer** (`net`) | `readerIndex_`, `writerIndex_`, storage | `append`, `retrieve*`, `makeSpace`, `readFd`, `writeFd` | TcpConnection |
| **MemoryPool** | chain of blocks, list of large allocations | `malloc`, `freeMemory`, `resetPool` | - |
| **Socket, InetAddress** | a descriptor, an address | wrappers of system calls | - |

Hard behaviours, each listed with its line under `hazards` in `PROJECT.json`:

- *steps of two threads*: push and wake-up against drain and swap in EventLoop;
  `send`/`shutdown` testing `state_` in one thread and acting in another; `append` between
  the steps of the log's back end; `enqueue` notifying after the unlock; a destructor
  that reads `loop_` unlocked;
- *order and lifetime*: batches of functors, partial writes before buffered rests,
  half-close after buffered output, a connection that travels from I/O loop to main loop
  and back before its last reference goes; raw `this` in functors, raw `Timer*`;
- *timeouts*: a timer taken back after epoll reported it, a firing in the microsecond
  in which the timer is due, a late loop with repeating timers, waits that only a timeout ends;
- *parts and limits*: a buffer that moves or grows while the kernel writes into it and
  into a second segment; log writes that are cut short, and files rolled with data still in
  the stdio buffer;
- *stopping*: `quit()` before `loop()`, `quit()` of another thread, messages in the
  buffers at `stop()`, tasks in the queue when the pool is destroyed.

What makes each component correct: the loop loses no wake-up and is a FIFO executor; a
connection delivers its output in order, closes after it, and is torn down once, with no
registration or reference left; a thread pool starts and stops without touching what is
gone; every timer fires and has one owner; every message reaches the disk, in order;
every accepted task runs exactly once; a buffer is a stream of bytes in bounded space.

## 2. Modules and code

| module | models | state and actions |
|---|---|---|
| `FunctorQueue` | what EventLoop promises | abstract: a queue and a history; `Submit`, `RunNext`, `RunNow` |
| `EventLoop` | `EventLoop.cc` with any number of calling threads | a call of another thread is split where it releases `mutex_` (`Push`, then `WakeAfterPush`; `Quit`, then `WakeAfterQuit`); `loop()` is one action per statement that touches shared state; user code runs in `ioCallback` and `functor` |
| `EPollPoller` | `Channel`'s interest set against `EPollPoller::updateChannel/removeChannel` and `epoll_ctl` | operators on a channel record: what the owner wants, `index_`, map, kernel set |
| `TcpConnection` | one connection with its loop, its server, other threads, the kernel's socket and the peer; EXTENDS `EPollPoller` | one action per handler, per functor, and per step of `send`/`shutdown` of other threads; `Alive` says who holds a `TcpConnectionPtr` |
| `TcpServer` | `TcpServer.cc`, `Acceptor.cc`: several connections over the base loop and up to `MaxThreads` I/O loops, each with the queue of `FunctorQueue` | one action per handler or functor; a connection is its `state_` and who holds it; `phase` follows the base loop and the destructor with its members |
| `EventLoopThreadPool` | starting, handing out and destroying N I/O threads | owner program counter, one program counter per thread |
| `TimerQueue` | `TimerQueue.cc`, `Timer.h` in discrete time | time is relative to now, so behaviours are cyclic and liveness can be checked; `Tick` is the clock |
| `LogFile` | `LogFile.cc`, `FileUtil.cc` | operators on what is on the disk, what is in the stdio stream, and the counters; the comparisons made with `time()` are a parameter |
| `AsyncLogging` | `AsyncLogging.cc`, `FixedBuffer.h`; EXTENDS `LogFile` | a message is a cell; the back end is one action per critical section, per write of `FileUtil::append`, and per end of a `LogFile::append` |
| `ByteStream` | what Buffer promises | abstract: the content and the bytes moved last; `Put`, `Show`, `Take`, `Drop` |
| `Buffer` | `Buffer.cc` | the vector with its two indices; the code's functions as operators, the calls of its users as actions |
| `ThreadPool` | `base/ThreadPool.h` | owner and workers; what happens under `queue_mutex_` is one step, notifications come after it |
| `EventLoopProofs`, `TcpConnectionProofs`, `TcpServerProofs`, `EventLoopThreadPoolProofs`, `ThreadPoolProofs`, `TimerQueueProofs`, `AsyncLoggingProofs`, `BufferProofs` | - | theorems about the module of that name (section 5) |
| `MC*` | - | instances for TLC; `MCThreadPools` holds both pools |

Abstractions worth knowing when reading the modules:

- `wakeupFd` is a Boolean: `handleRead` reads the whole counter.
- `TcpConnection` numbers the bytes 1, 2, 3, ... as `sendInLoop` takes them on, which
  makes loss, duplication and reordering visible as `sent \o outputBuffer`. `write()` takes
  any part or fails; with a peer that has reset the connection it fails with `EPIPE`/`ECONNRESET`.
  `outputBuffer_` is a sequence that is appended to and taken from, the `ByteStream` that
  `Buffer` is shown to implement.
- In `Buffer`, failed `readv` and `write` calls change nothing and are stuttering steps;
  `kCheapPrepend`, the initial size and the size of `extrabuf` are constants, so that small
  values bring every branch into reach.
- `writeCompleteCallback_` and `highWaterMarkCallback_` may be set or not: when one is due its functor
  is queued or is not (`Told`).
- The server is destroyed after the main loop has returned. Removals that wait there are not run any more, those
  that connections still queue neither, and the `TcpConnectionPtr`s they hold go with the main loop (`DestroyMainLoop`).
- A batch of functors keeps the references of its functors until the batch ends, as the
  local vector of `doPendingFunctors` does; `batchRef` records that.
- `AsyncLogging` writes whole buffers, old cells included, because
  `FixedBuffer::length()` is the size of the buffer; `disk` and `stream` keep the first
  appearance of a message. stdio may pass any prefix of its buffer on at any write; the
  disk has all of it after `fflush` or `fclose`.
- In `TimerQueue` the order of timers due at the same time is any order (it is the order
  of addresses in the code). `due` is wall-clock time, the timerfd counts monotonic time;
  `WallSteps` is the set of steps the wall clock may make while the other ticks.
- Definitions under "A bug to tell apart" are variants with a plausible mistake. No
  specification uses them; each shows which mistake a property excludes (`mutants` in
  `PROJECT.json`).

## 3. Runs

`tlc -config X.cfg M` in this directory. State counts are distinct states.

| run (cfg) | result | what it shows |
|---|---|---|
| `eventloop` (`MCEventLoop.cfg`), 19,533 | pass | `NoLostWakeup`: the loop never sleeps over a functor with no wake-up on its way. `ExecutorSpec`: refinement of `FunctorQueue`. `FunctorsRun`: functors run without help of the poll timeout. `QuitStopsLoop`: a loop told to quit ends, if poll times out |
| `eventloop_quit` | violation | `QuitWakesLoop`: `quit()` of another thread does not wake the loop |
| `tcp_connection` (`MCTcpConnection.cfg`), 137,645 | pass | `PollerAgrees`, `StreamInOrder`, `NothingLost`, `OutputScheduled`, `FlushBeforeShutdown` about output; `NoDanglingChannel`, `NoUseAfterFree`, `DownOnce` about teardown; `OutputDelivered`, `ShutdownCompletes`, `ClosedIsFreed` that these are carried through |
| `tcp_send_after_shutdown` | violation | `NoSendAfterShutdown`: a `send()` under way during `shutdown()` writes to the closed end |
| `tcp_server` (`MCTcpServer.cfg`), 4,910 | pass | `OneTeardown`: exactly one `connectDestroyed` per connection, in its own loop and after its `connectEstablished`, also against the destructor. `ClientsAccepted`: clients wait for descriptors no longer than peers stay |
| `thread_pools` (`MCThreadPools.cfg`), 6,658 | pass | I/O threads: `QuitTargetExists`, `ObjectOutlivesThread` about lifetimes, `RoundRobin`, `PoolStarts`, `DestructorReturns`. Workers: `OnePlace`, `Drained`, `TasksRun`, `WorkersJoined` |
| `thread_quit_lost` | violation | `DestructorReturns` for a pool destroyed right after `start()` |
| `async_logging` (`MCAsyncLogging.cfg`), 138,469 | pass | `NothingDropped` and `OrderKept` from `append()` to the first appearance on the disk, `BackNeverEmpty` (the `back()` calls of the back end), `MessagesReachDisk`, `StopReturns` |
| `async_logging_stop` | violation | `StopWritesAll`: messages in the buffers at `stop()` are not written |
| `timer_queue` (`MCTimerQueue.cfg`), 246,234 | pass | `TimerArmed`, `OneOwner`, `TimersFire` |
| `timer_equal` | violation | `TimerArmed` when the timerfd is handled in the microsecond in which its timer is due |
| `buffer` (`MCBuffer.cfg`), 46,234 | pass | `SizeBounded`: the vector stays as small as the content allows. `StreamSpec`: refinement of `ByteStream` |

What `tcp_connection` says about output, exactly: while the peer has not reset the connection,
each byte that `sendInLoop` took on is in the kernel or in `outputBuffer_`, and while the peer has not closed
and the server exists the connection is not given up and what is buffered has `EPOLLOUT` asked for
(`NothingLost`), so that it reaches the kernel in the end (`OutputDelivered`). Once the peer has closed or the
server is destroyed, nothing is promised: `handleClose` and `connectDestroyed` leave behind what is in
`outputBuffer_`, and `sendInLoop` refuses the functors that come after them.

`thread_pools` checks the two pools in one run: a variable chosen in the initial state says
which of them acts, the other one stays as it is, so that the state space is the sum of the
two and not the product. For that `MCThreadPools` extends both modules, which is why `ThreadPool` calls
its specification `PoolSpec`. The cfg of `thread_quit_lost` uses `EventLoopThreadPool` alone.

Each passing run but `tcp_connection`, `thread_pools` and `timer_queue` also checks its module's `TypeOK`.
In `eventloop`, `buffer`, `async_logging` and `tcp_server` it says more than types: a moved-from functor
in the queue, an index past its end or a null `currentBuffer_` violates it.

Deadlock is checked in `buffer`. It is off in all others because each of these systems may come to rest: a
loop that has ended, a pool that is destroyed, a log nobody writes to, a closed connection.

## 4. Bounds, fairness, assumptions on the application

**Bounds.** Two foreign threads and three functors let two pushes fall between any two
steps of the loop, with one more in the batch. Three bytes in messages of up to two make
a partial write with another message behind it; `HighWaterMark = 2` is crossed. Three I/O
threads make `next_` wrap. Six messages in buffers of three cells, of which `append` fills two, fill the current,
the spare and a freshly allocated buffer and so reach every branch of `append` and of the
recycling; with a `RollSize` of five cells and `CheckEveryN = 2` an append rolls by size,
rolls by day, is refused a roll within the same second, flushes, or does none of these.
A buffer that starts with two cells behind one of prepend, takes strings of up to three
bytes and holds up to five moves, grows, grows again after a move, and spills into
`extrabuf`; the vector reaches the largest size `SizeBounded` allows. Three timers, due already or in two ticks, once or every three, give timers in
front of and behind each other, and a loop up to `MaxLate` late with `MinDelay` in between.
Three clients
for two descriptors make one wait, with no, one or two I/O threads. Three tasks for two workers leave one in the queue. In `Tick` the outer bound
(`MaxLate + 2 * MinDelay + 2`) is a floor that is never reached, so it hides nothing:
an idle loop is woken by the timerfd before.

**Fairness.** Threads run (weak fairness of each thread's own steps); a callback or a
task that is called returns (strong, since other steps of the same callback may come in
between); a call under way ends; `epoll_wait` returns when the eventfd is readable. Not assumed:
that other descriptors become ready, that peers close (`ClientsAccepted` names it as its hypothesis), that anybody calls anything, that a condition
variable wakes without a notification, that poll times out (only `QuitStopsLoop` names that as its
hypothesis, since the missing wake-up leaves nothing else). In `TcpConnection` a peer
that stays open makes room for output again and again, and application threads give their
references back; without either a connection is open as long as they like. The main loop runs the removals
queued in it or, after the server, is destroyed with them. In
`AsyncLogging` the back end's wait ends after its three-second timeout (the code calls `wait_for`), and
writes take data in the end (`Progress` leaves out the turn of `FileUtil::append` in which
nothing is taken: with a disk that stays full the code spins there for ever).

**Assumptions on the application** are constants, but for the last one, so that they can be seen and switched off:

- `Disciplined` (`TcpConnection`): an application thread keeps its `TcpConnectionPtr`, and
  the string it passed to `send`, until the functors it queued have run, does not call `shutdown()` while a
  `send()` is under way, and does not begin a `send()` while another thread is inside `shutdown()`. The code gives no help with this: its functors bind the raw
  `this` and the `c_str()` of the argument. With `FALSE`, `StreamInOrder`, `NothingLost`,
  `NoDanglingChannel`, `NoUseAfterFree` and `DownOnce` fail.
- `Orderly` (`EventLoopThreadPool`): the pool is destroyed when each loop has begun and
  none is about to end, and loops do not stop by themselves while it is destroyed. With `FALSE`,
  `QuitTargetExists`, `ObjectOutlivesThread` and `DestructorReturns` fail: the destructor reads `loop_`
  without the lock.
- `InitFunctors` (`EventLoop`): what the loop's own thread queues before `loop()`. No wake-up is sent for those, so the
  first poll may sleep over them; `NoLostWakeup` and `FunctorsRun` except them and nothing else.
- `SubMicrosecond` (`TimerQueue`): whether a firing can be handled in the microsecond in which it happens.
- `WallSteps` (`TimerQueue`): how the wall clock moves. The runs have `{1}`, both clocks in
  step. With `{0, 1}`, a wall clock that is slowed down or set back, `TimerArmed` fails as it
  does in `timer_equal`: the timerfd fires, nothing is expired, and nothing arms it again.
- `IntMax` (`Buffer`): no call adds more bytes than an `int` can count, since `makeSpace` takes its
  length as an `int` (`Buffer.cc:101`).
- `Next` of `Buffer` calls `retrieveAsString(len)` with at most `readableBytes()`, as its callers do; the code does
  not test it and would copy what is behind the content.

These assumptions and bounds keep some hazards out of the passing runs: the `send()` that races with
`shutdown()`, the unlocked read of `loop_`, the firing in its own microsecond and the wall clock that is set back.
Violation runs show the first and the third; the notes of `hazards` say where this applies.

## 5. Proofs

Eight modules, `tlapm M.tla` for each. Every invariant and every refinement that a passing
run checks is also a theorem, for every value of the constants that satisfies the module's
assumptions: any number of threads, connections, timers, messages or tasks, any size of
buffers and files. The argument is the same in all: an inductive invariant, one
step lemma with one step per action, and the property read off it.

| module | assumptions | theorems (property) |
|---|---|---|
| `EventLoopProofs` | `ThreadsAssumption`, `InitAssumption` | `TypeCorrect`, `NoLostWakeupHolds`, `EventLoopRefinesExecutor` (`ExecutorSpec`) |
| `TcpConnectionProofs` | `BoundsAssumption`; all but the first also `Disciplined` | `BooksStayInAgreement` (`PollerAgrees`), `EndReportedOnce` (`DownOnce`), `OutputIsScheduled`, `OutputBeforeEnd` (`FlushBeforeShutdown`), `ChannelRemovedBeforeFree` (`NoDanglingChannel`), `UsedWhileAlive` (`NoUseAfterFree`), `StreamStaysInOrder`, `NoByteLost` (`NothingLost`), `NothingSentAfterShutdown` (`NoSendAfterShutdown`) |
| `TcpServerProofs` | `ServerAssumption` | `TypeCorrect`, `TornDownOnce` (`OneTeardown`) |
| `EventLoopThreadPoolProofs` | `PoolAssumption`; the last two also `Orderly` | `TypeCorrect`, `EvenlyHandedOut` (`RoundRobin`), `QuitTargetsExist`, `ObjectsOutliveThreads` |
| `ThreadPoolProofs` | `WorkersAssumption` | `TypeCorrect`, `EveryTaskInOnePlace` (`OnePlace`), `DestructorDrains` (`Drained`), `NoLostWakeups` |
| `TimerQueueProofs` | `TimeAssumption`; the last also `SteadyClocks` | `TypeCorrect`, `EveryTimerHasOneOwner` (`OneOwner`), `ArmedWhenAsleep` (`TimerArmed`) |
| `AsyncLoggingProofs` | `SizeAssumption`, `LogFileAssumption` | `TypeCorrect`, `NoMessageDropped` (`NothingDropped`), `FilesInOrder` (`OrderKept`), `SparesComeBack` (`BackNeverEmpty`) |
| `BufferProofs` | `BufferAssumption` | `TypeCorrect`, `SizeIsBounded`, `BufferImplementsStream` (`StreamSpec`) |

Why each property is not inductive as it stands, and what was added:

**EventLoop.** `NoLostWakeup` speaks of a loop that sleeps and says nothing of how it got
there. `IInv == TypeOK /\ Phase /\ Announced`:

- `Announced`: from the swap of `doPendingFunctors` to the next poll, a functor in
  `pendingFunctors_` is accompanied by a readable eventfd or by a thread between its push
  and its wake-up that *will* wake (`WillWake`: another thread, or the loop's own thread
  while `callingPendingFunctors_` is set). Between the drain of the eventfd and the swap it
  need not hold, because the swap takes whatever is there; that is why the drain has to
  come before the swap in `loop()`.
- `Phase`: the batch is empty outside `doPendingFunctors`, the flag is set exactly inside
  it, and the loop's own thread is inside a call only in user code. Without it the flag that
  `queueInLoop` tests would say nothing about where the loop is.

The refinement maps the abstract queue to `functors \o pendingFunctors`: a push appends to
it, a swap leaves it as it is (the batch is empty before, by `Phase`), the start of a
functor takes its head.

**TcpConnection.** `PollerAgrees` is inductive with the types and needs no discipline. The
others share `Inv == Typed /\ Lifecycle /\ References /\ Output /\ Stream /\ EndHasCause`:

- `Lifecycle` ties `state_`, the registration and what is queued together.
  `connectEstablished` is the first functor and the only one of its kind (`BornOnce`); the
  channel is in the epoll set with no end reported, or parked after exactly one report, or
  unknown to the poller (`Registration`); a handler that may close the connection is left
  to run only while the channel is registered, and only one of the two that may
  (`HandlersLeft`), which is why `handleRead` and a hang-up in the same round of events cannot both report the end;
  from `shutdown()`'s test of `state_` on no `send()` is in flight (`Quiet`).
- `References` says who keeps the connection alive: until the channel has left the poller
  the server's map, a queued `connectDestroyed` or the one that is running does (`Owned`);
  functors that bind the raw `this` are covered only by the thread that queued them
  (`RawHeld`), which is what `Disciplined` is for.
- `Output`: a registered connection with output has asked for `EPOLLOUT`, and the write end
  is closed only over an empty buffer. `Stream`: the n-th byte is n, in the kernel and in
  `outputBuffer_`, and a byte is dropped only if the peer has reset the connection.
- `EndHasCause`: while the peer stays and the server exists nothing that leads to the end of the connection is
  under way, neither a handler that closes nor a removal nor a `connectDestroyed`; so the connection is registered, and
  `NothingLost` follows with `Output`.

`NothingSentAfterShutdown` is the converse of the run `tcp_send_after_shutdown`: what the
code does not exclude, the discipline does.

**TcpServer.** `OneTeardown` speaks of the queue of a connection's own loop. What puts
`connectDestroyed` there is a removal in another loop's queue, so
`Inv == Types /\ Placed /\ Unborn` and for each accepted connection `Mapped`, `Established`,
`Torn`. `Mapped` is the heart: while the base loop runs, at most one removal of a connection is on its
way, and it will find the connection in the map and `kDisconnected`; so
`removeConnectionInLoop`, which queues `connectDestroyed` whether or not `erase` has found anything,
queues it once, and the destructor, which takes what is left in the
map after the base loop has ended, never meets a connection that a removal has taken.
`Placed`: each functor is in the loop it belongs to.

**EventLoopThreadPool.** `RoundRobin` follows from `Turns`: loops up to `next_` have been
handed out once more often than the others. The lifetimes follow from `Lifetimes`: `loop_`
is set exactly from its publication to the end of `loop()`, threads are started and destroyed in turn,
those whose turn in the destructor has not come are in `loop()` and not asked to quit, or have ended,
and an object is freed after its thread has ended.

**ThreadPool.** `IInv == Types /\ HasTask /\ OnePlace /\ Shutdown /\ Awake`. A worker leaves only a
pool that is stopped and empty, and since `enqueue` throws then it stays empty
(`Shutdown`). `Awake`, which `NoLostWakeups` states, is the safety half of `TasksRun`: of a non-empty
queue a worker knows that will look again, or the owner is about to notify, although
`enqueue` notifies after its unlock, and nobody waits once the destructor has notified.

**TimerQueue.** `OneOwner` needs that the vector of expired timers is empty outside
`handleRead`. It promises that nothing leaks only until the queue is destroyed: `~TimerQueue` deletes what is in
`timers_`, and the raw pointers in functors that the loop has not run are lost. `TimerArmed` needs more: `ArmedForFirst` holds in every state but those
between `getExpired` and the last round of `reset`, and says also that the timerfd is *not
too early*: some timer is due when it fires, so that `getExpired` finds one and `reset` arms it
again. `SteadyClocks` (`WallSteps = {1}`, no `SubMicrosecond`) is what that part
rests on; `timer_equal` shows the failure without its second half.

**AsyncLogging.** `Inv == Types /\ Spares /\ Logged /\ Passed`. `Spares`: the front end
lacks a spare buffer only if it has filled one since the last exchange, so the back end has at
least as many buffers to take back as it has given away. `Passed`: there is a message `mid` such that
the front end's buffers hold the messages after it, as a chain of consecutive ones, and the
back end's hold those up to it that are not in the files. Since whole buffers are written, the old cells behind
`cur_` go to the files again; they are all at most `Seen`, which is why a file shows
every message first in its turn.

**Buffer.** `WellFormed` is the picture of `Buffer.h`: prepend, content and space in this
order. Each operation of the code is a lemma (what it makes of the content and of the
size), and a step of `Buffer` is the step of `ByteStream` its lemma names.

Attempts at these proofs changed the model in one place: with two application threads
`Disciplined` did not exclude a `send()` that begins while another thread is inside
`shutdown()`, and `Quiet` was not inductive. `MaySend` now excludes it. The run has one such
thread, for which nothing changes.

Only model-checked: the liveness properties (fairness and ENABLED are out of the prover's
reach), and the bound on the number of bytes in `TypeOK` of `TcpConnection`, a sum over the
queued functors that no run lists.

## 6. Disagreements between code, comments and documents

Quoted in `findings` of `PROJECT.json`, each with a run: the inverted test in `quit()`
(`EventLoop.cc:91`), `sendInLoop`'s test of `kDisconnected` only (`TcpConnection.cc:98`),
`quit_` reset by `loop()` (`EventLoop.cc:64`), messages left in the buffers at `stop()`
(`AsyncLogging.cc:84`), and the sentry of `getExpired` with a `reset` that arms nothing
when nothing is expired (`TimerQueue.cc:106`).

## 7. Not modelled

- A TcpServer destroyed while its base loop goes on running: removals that are queued there
  bind the raw `this`. `main()` in `test.cpp` destroys it after `loop()`.
- MemoryPool. `createPool` (`MemoryPool.cc:10`) takes the 0 of a `posix_memalign` that has
  succeeded for a failure and returns before it has set up the pool; if the call does fail
  it writes through the pointer that was not set. `mallocLargeNode` (`:54`) has the same
  test and returns `nullptr` whenever the allocation succeeds. So no state of the pool is
  ever initialised, and what the other operations do depends on the bytes of the page they
  find. A model of the block chain would be one of a different program.
- Logging and LogStream: formatting in a buffer that lives as long as the statement, by
  one thread. Worth knowing: the constructors (`Logging.cc:77`, `:81`) pass `INFO` for the
  level and the level for `savedErrno`, so that every line is marked INFO and the branch that
  flushes and aborts on `FATAL` (`:107`) is never taken. No module relies on that abort: the
  failures that are reported with `LOG_FATAL` are not modelled.
- The format of Timestamp, Socket, InetAddress: system calls without state that outlives
  the call; what they do to the kernel's socket is in `TcpConnection` and `TcpServer`.
- Buffer's `findCRLF` and `GetBufferAllAsStringDebug`, which only read.
- The names of log files, and files that cannot be opened or flushed: `FileUtil` tests neither.
- The repeated bytes in log files that `FixedBuffer::length()` causes: `disk` and `stream` keep first appearances, so
  that `OrderKept` speaks of these only.
- What `epoll_wait`'s -1 becomes in a `size_t` and back in an `int` (`EPollPoller.cc:109`): a poll that fails reports nothing.
- Notifications of the log's condition variable: its wait ends by the timeout, which is what `StopReturns` and
  `MessagesReachDisk` rely on.
- `getAllLoops`; names and tids of threads; growth of the poller's event list
  (in `EventLoop` poll may report any part of what is ready).
- Failures of `epoll_ctl`, `eventfd` and `timerfd_settime`, which the code only logs.

## 8. Plan

Done: the modules of section 2, in this order of importance: event loop, connection, I/O
threads, timers, log, worker pool, server, then the log's files and the connection's buffer.

The theorems of section 5 cover every invariant and refinement of the passing runs.

What is left:

1. the bound on bytes in `TypeOK` of `TcpConnection`, which needs a lemma about sums over a
   queue that is appended to and taken from;
2. action properties of the same invariants: `state_` of a connection and the phases of a
   pool only move forward;
3. a composition of `TcpServer` with the queues of `EventLoop` by the refinement that is
   proved for one loop.
