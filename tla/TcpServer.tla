------------------------------ MODULE TcpServer ------------------------------
(***************************************************************************)
(* A TcpServer with its Acceptor (src/src/net/TcpServer.cc, Acceptor.cc):  *)
(* connections are accepted in the base loop, dealt out to the I/O loops,  *)
(* removed by functors that go from the I/O loop to the base loop and      *)
(* back, or by the destructor.                                             *)
(*                                                                         *)
(* Each loop has the FIFO queue of FunctorQueue and is one thread, so a    *)
(* handler or functor is one step.  Loop 0 is the base loop; with no I/O   *)
(* threads it serves the connections too and runInLoop calls at once.      *)
(* Connections are named by nextConnId_, which makes their names differ.   *)
(* A connection is reduced to its state_ and to who holds it; the          *)
(* application keeps no TcpConnectionPtr and destroys the server once the  *)
(* base loop has returned, as main() in src/test.cpp does.                 *)
(***************************************************************************)
EXTENDS Naturals, FiniteSets, SequencesExt

CONSTANTS MaxThreads,   \* bound: I/O threads
          MaxConns,     \* bound: clients that connect
          FdLimit       \* descriptors the process has for connections

ASSUME ServerAssumption == MaxThreads \in Nat /\ {MaxConns, FdLimit} \subseteq Nat \ {0}

Conn == 1..MaxConns
Base == 0
AnyLoop == 0..MaxThreads

VARIABLES numThreads,    \* numThreads_ of the pool
          loops,         \* number of loops_ of the pool
          next,          \* next_ of the pool
          started,       \* started_
          listenning,    \* listenning_
          requested,     \* clients that have connected so far
          nextConnId,    \* nextConnId_
          connections,   \* connections_
          ioLoop,        \* ioLoop[c]: loop_ of connection c
          state,         \* state[c]: state_ of c, "none" before and "removed" after its life
          queue,         \* queue[l]: pendingFunctors_ of loop l
          stopped,       \* I/O loops that have ended
          phase          \* the base loop and ~TcpServer

poolVars == <<numThreads, loops, next, started>>
connVars == <<nextConnId, connections, ioLoop, state>>
vars == <<poolVars, connVars, listenning, requested, queue, stopped, phase>>

Accepted == 1..(nextConnId - 1)

Functor ==
    [op : {"listen"}, c : {0}] \cup
    [op : {"connectEstablished", "connectDestroyed", "removeConnectionInLoop"}, c : Conn]

Fn(f, c) == [op |-> f, c |-> c]

\* The server's variables keep their types: next_ is an index of loops_, and every
\* connection belongs to a loop that exists
TypeOK ==
    /\ numThreads \in AnyLoop /\ loops \in AnyLoop /\ started \in Nat
    /\ next \in AnyLoop /\ (next = 0 \/ next < loops)
    /\ listenning \in BOOLEAN
    /\ requested \in 0..MaxConns /\ nextConnId \in 1..(requested + 1)
    /\ connections \subseteq Accepted
    /\ ioLoop \in [Conn -> 0..loops]
    /\ state \in [Conn -> {"none", "kConnecting", "kConnected", "kDisconnected", "removed"}]
    /\ queue \in [AnyLoop -> Seq(Functor)]
    /\ stopped \subseteq 1..loops
    /\ phase \in {"running", "ended", "pool", "gone"}

Init ==
    /\ numThreads = 0 /\ loops = 0 /\ next = 0 /\ started = 0
    /\ listenning = FALSE /\ requested = 0
    /\ nextConnId = 1 /\ connections = {}
    /\ ioLoop = [c \in Conn |-> Base]
    /\ state = [c \in Conn |-> "none"]
    /\ queue = [l \in AnyLoop |-> << >>]
    /\ stopped = {}
    /\ phase = "running"

-----------------------------------------------------------------------------
(* The loops *)

\* Loop l is running; loop 0 is the base loop
Runs(l) == IF l = Base THEN phase = "running" ELSE l \in (1..loops) \ stopped

Queued(l, f) == [queue EXCEPT ![l] = Append(@, f)]

\* Loop l takes the next functor, which is f
RunNext(l, f) ==
    /\ Runs(l)
    /\ queue[l] # << >>
    /\ f = Head(queue[l])

\* Somebody has a TcpConnectionPtr to c: the map or a functor
Held(c) == c \in connections \/ \E l \in AnyLoop : \E f \in ToSet(queue[l]) : f.c = c

\* ~TcpConnection closes the socket, so these are the descriptors in use
Open == {c \in Accepted : Held(c)}

-----------------------------------------------------------------------------
(* setThreadNum, start and listen *)

\* later calls would change nothing
setThreadNum(n) ==
    /\ phase = "running" /\ started = 0
    /\ numThreads' = n
    /\ UNCHANGED <<loops, next, started, connVars, listenning, requested, queue, stopped, phase>>

\* start(), by the base loop's thread (runInLoop calls listen) or by another one.  Two
\* calls show all there is: the second does nothing.
start(inLoop) ==
    /\ phase = "running" /\ started < 2
    /\ started' = started + 1
    /\ IF started = 0
       THEN /\ loops' = numThreads
            /\ IF inLoop THEN listenning' = TRUE /\ UNCHANGED queue
               ELSE queue' = Queued(Base, Fn("listen", 0)) /\ UNCHANGED listenning
       ELSE UNCHANGED <<loops, listenning, queue>>
    /\ UNCHANGED <<numThreads, next, connVars, requested, stopped, phase>>

listen ==
    /\ RunNext(Base, Fn("listen", 0))
    /\ listenning' = TRUE
    /\ queue' = [queue EXCEPT ![Base] = Tail(@)]
    /\ UNCHANGED <<poolVars, connVars, requested, stopped, phase>>

-----------------------------------------------------------------------------
(* New connections *)

\* A client: the kernel completes the handshake and keeps it in the backlog
ClientConnects ==
    /\ listenning /\ requested < MaxConns
    /\ requested' = requested + 1
    /\ UNCHANGED <<poolVars, connVars, listenning, queue, stopped, phase>>

\* accept4 returns a descriptor: a client waits, and there is a descriptor for it
AcceptSucceeds == nextConnId <= requested /\ Cardinality(Open) < FdLimit

\* Acceptor::handleRead gets to the callback.  Otherwise (EAGAIN, EMFILE) it only logs,
\* and a client that waits is reported again.
CanAccept == phase = "running" /\ listenning /\ AcceptSucceeds

\* A bug to tell apart: the index wraps one too late
NextLoopLate == IF next >= loops THEN 0 ELSE next + 1

\* getNextLoop: what becomes of next_
NextIndex == IF next + 1 >= loops THEN 0 ELSE next + 1

\* Acceptor::handleRead calls TcpServer::newConnection
newConnection ==
    /\ CanAccept
    /\ LET c == nextConnId
           l == IF loops = 0 THEN Base ELSE next + 1
       IN  /\ ioLoop' = [ioLoop EXCEPT ![c] = l]
           /\ connections' = connections \cup {c}
           /\ IF l = Base
              THEN state' = [state EXCEPT ![c] = "kConnected"] /\ UNCHANGED queue
              ELSE /\ state' = [state EXCEPT ![c] = "kConnecting"]
                   /\ queue' = Queued(l, Fn("connectEstablished", c))
    /\ nextConnId' = nextConnId + 1
    /\ next' = NextIndex
    /\ UNCHANGED <<numThreads, loops, started, listenning, requested, stopped, phase>>

connectEstablished(c) ==
    /\ RunNext(ioLoop[c], Fn("connectEstablished", c))
    /\ state' = [state EXCEPT ![c] = "kConnected"]
    /\ queue' = [queue EXCEPT ![ioLoop[c]] = Tail(@)]
    /\ UNCHANGED <<poolVars, nextConnId, connections, ioLoop, listenning, requested, stopped, phase>>

-----------------------------------------------------------------------------
(* The end of a connection *)

\* TcpConnection::handleClose and its closeCallback_, removeConnection; in the base
\* loop removeConnectionInLoop is called at once
handleClose(c) ==
    /\ Runs(ioLoop[c])
    /\ state[c] = "kConnected"
    /\ state' = [state EXCEPT ![c] = "kDisconnected"]
    /\ IF ioLoop[c] = Base
       THEN /\ connections' = connections \ {c}
            /\ queue' = Queued(Base, Fn("connectDestroyed", c))
       ELSE /\ queue' = Queued(Base, Fn("removeConnectionInLoop", c))
            /\ UNCHANGED connections
    /\ UNCHANGED <<poolVars, nextConnId, ioLoop, listenning, requested, stopped, phase>>

\* A bug to tell apart: the entry stays in the map
EntryKept(c) == connections

\* connections_.erase
EntryErased(c) == connections \ {c}

removeConnectionInLoop(c) ==
    /\ RunNext(Base, Fn("removeConnectionInLoop", c))
    /\ connections' = EntryErased(c)
    /\ queue' = [Queued(ioLoop[c], Fn("connectDestroyed", c)) EXCEPT ![Base] = Tail(@)]
    /\ UNCHANGED <<poolVars, nextConnId, ioLoop, state, listenning, requested, stopped, phase>>

\* The channel is removed; a connection that is still up is reported down
connectDestroyed(c) ==
    /\ RunNext(ioLoop[c], Fn("connectDestroyed", c))
    /\ state' = [state EXCEPT ![c] = "removed"]
    /\ queue' = [queue EXCEPT ![ioLoop[c]] = Tail(@)]
    /\ UNCHANGED <<poolVars, nextConnId, connections, ioLoop, listenning, requested, stopped, phase>>

-----------------------------------------------------------------------------
(* ~TcpServer *)

\* The base loop returns; what is queued in it is never run
LoopReturns ==
    /\ phase = "running"
    /\ phase' = "ended"
    /\ UNCHANGED <<poolVars, connVars, listenning, requested, queue, stopped>>

\* A bug to tell apart: the destructor calls connectDestroyed in its own thread
AtOnce(c) == TRUE

\* runInLoop of the main thread calls connectDestroyed at once
RunsHere(c) == ioLoop[c] = Base

\* The destructor's loop over connections_, while the I/O loops go on
DestroyConnection(c) ==
    /\ phase = "ended"
    /\ c \in connections
    /\ connections' = connections \ {c}
    /\ IF RunsHere(c)
       THEN state' = [state EXCEPT ![c] = "removed"] /\ UNCHANGED queue
       ELSE queue' = Queued(ioLoop[c], Fn("connectDestroyed", c)) /\ UNCHANGED state
    /\ UNCHANGED <<poolVars, nextConnId, ioLoop, listenning, requested, stopped, phase>>

\* ... then its members: first threadPool_
DestroyPool ==
    /\ phase = "ended" /\ connections = {}
    /\ phase' = "pool"
    /\ UNCHANGED <<poolVars, connVars, listenning, requested, queue, stopped>>

\* An I/O loop sees quit_ and ends; what is still queued in it goes unrun
StopLoop(l) ==
    /\ phase = "pool" /\ Runs(l)
    /\ stopped' = stopped \cup {l}
    /\ queue' = [queue EXCEPT ![l] = << >>]
    /\ UNCHANGED <<poolVars, connVars, listenning, requested, phase>>

\* ... and, when the threads are joined, acceptor_, whose channel leaves the base loop
DestroyAcceptor ==
    /\ phase = "pool" /\ stopped = 1..loops
    /\ phase' = "gone"
    /\ listenning' = FALSE
    /\ UNCHANGED <<poolVars, connVars, requested, queue, stopped>>

-----------------------------------------------------------------------------

Functors(l) ==
    \E c \in Conn :
        \/ connectEstablished(c) /\ l = ioLoop[c]
        \/ connectDestroyed(c) /\ l = ioLoop[c]
        \/ removeConnectionInLoop(c) /\ l = Base

Next ==
    \/ \E n \in AnyLoop : setThreadNum(n)
    \/ \E inLoop \in BOOLEAN : start(inLoop)
    \/ listen \/ ClientConnects \/ newConnection
    \/ \E l \in AnyLoop : Functors(l)
    \/ \E c \in Conn : handleClose(c) \/ DestroyConnection(c)
    \/ LoopReturns \/ DestroyPool \/ DestroyAcceptor
    \/ \E l \in 1..MaxThreads : StopLoop(l)

\* Every loop goes on running the functors queued in it, and the base loop handles the
\* acceptor's channel in every iteration in which it is ready
Fairness ==
    /\ WF_vars(listen) /\ WF_vars(newConnection)
    /\ \A l \in AnyLoop : WF_vars(Functors(l))

Spec == Init /\ [][Next]_vars

FairSpec == Spec /\ Fairness

-----------------------------------------------------------------------------
(* Properties *)

\* Functor f is in queue q exactly once, or not at all
Once(q, f) == \E i \in DOMAIN q : \A j \in DOMAIN q : q[j] = f <=> j = i
Absent(q, f) == \A i \in DOMAIN q : q[i] # f

Before(q, f, g) == \A i, j \in DOMAIN q : q[i] = f /\ q[j] = g => i < j

\* What still happens to c in its own loop, whose queue is q
Rest(c, q) ==
    LET establish == Fn("connectEstablished", c)
        destroy == Fn("connectDestroyed", c)
    IN  /\ IF state[c] = "kConnecting" THEN Once(q, establish) ELSE Absent(q, establish)
        /\ IF c \in connections \/ state[c] = "removed" THEN Absent(q, destroy)
                                                         ELSE Once(q, destroy)
        /\ Before(q, establish, destroy)

\* Whatever way a connection ends - closed by its loop, removed by the base loop, or by
\* the destructor while either is under way - connectDestroyed is queued for it exactly once
\* when it leaves connections_, in its own loop and behind its connectEstablished, and nothing
\* is left to be done for it afterwards.
OneTeardown ==
    \A c \in Accepted :
        /\ ioLoop[c] \notin stopped => Rest(c, queue[ioLoop[c]])
        /\ \A l \in (1..loops) \ {ioLoop[c]} : \A i \in DOMAIN queue[l] : queue[l][i].c # c
        /\ state[c] = "removed" => c \notin connections

\* Every client that connects is accepted, also when the descriptors run out: closing a
\* connection gives its descriptor back after its way through both loops.  Peers that never
\* close may keep all of them.
ClientsAccepted ==
    (\A c \in Conn : WF_vars(handleClose(c))) =>
        \A n \in Conn : requested >= n ~> (nextConnId > n \/ phase # "running")
=============================================================================
