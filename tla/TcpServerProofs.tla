--------------------------- MODULE TcpServerProofs ---------------------------
(***************************************************************************)
(* Proofs about TcpServer for any number of I/O threads, connections and   *)
(* descriptors: the type invariant, and that a connection is torn down     *)
(* once and in its own loop, whoever begins with it.                       *)
(***************************************************************************)
EXTENDS TcpServer, SequenceTheorems, TLAPS

\* The pool has no loops before start()
Types == TypeOK /\ (started = 0 => loops = 0)

\* A functor is on a connection that has been accepted and in the loop it belongs to
InPlace(l, f) ==
    f.op # "listen" =>
        /\ f.c \in Accepted
        /\ l = IF f.op = "removeConnectionInLoop" THEN Base ELSE ioLoop[f.c]

Placed == \A l \in AnyLoop : \A i \in DOMAIN queue[l] : InPlace(l, queue[l][i])

\* While the base loop runs, the base loop's own functor is the only one that takes a
\* connection out of the map, and only one is on its way
Removal(c) == Fn("removeConnectionInLoop", c)

Mapped(c) ==
    phase = "running" =>
        /\ c \notin connections => state[c] \in {"kDisconnected", "removed"}
        /\ \/ Absent(queue[Base], Removal(c))
           \/ /\ Once(queue[Base], Removal(c))
              /\ c \in connections /\ state[c] = "kDisconnected" /\ ioLoop[c] # Base

\* A connection of the base loop is established at once
Established(c) == ioLoop[c] = Base => state[c] # "kConnecting"

\* Its own loop does what remains to be done
Torn(c) ==
    /\ ioLoop[c] \notin stopped => Rest(c, queue[ioLoop[c]])
    /\ state[c] = "removed" => c \notin connections

Unborn == \A c \in Conn \ Accepted : state[c] = "none"

\* The inductive invariant
Inv == Types /\ Placed /\ Unborn /\ \A c \in Accepted : Mapped(c) /\ Established(c) /\ Torn(c)

-----------------------------------------------------------------------------
(* Queues *)

LEMMA AppendQueue ==
    ASSUME NEW q \in Seq(Functor), NEW e \in Functor
    PROVE  /\ Append(q, e) \in Seq(Functor)
           /\ \A f : e # f => /\ Absent(q, f) => Absent(Append(q, e), f)
                              /\ Once(q, f) => Once(Append(q, e), f)
           /\ Absent(q, e) => Once(Append(q, e), e)
           /\ \A f, g : e # f /\ Before(q, f, g) => Before(Append(q, e), f, g)
           /\ \A i \in DOMAIN Append(q, e) : Append(q, e)[i] = e \/ \E j \in DOMAIN q : Append(q, e)[i] = q[j]
<1>1. PICK n \in Nat : n = Len(q)
  BY LenProperties
<1>2. PICK a : a = Append(q, e)
  OBVIOUS
<1>3. /\ a \in Seq(Functor) /\ DOMAIN a = 1..(n + 1) /\ DOMAIN q = 1..n
      /\ \A i \in 1..n : a[i] = q[i]
      /\ a[n + 1] = e
  BY <1>1, <1>2, AppendProperties
<1>4. n + 1 \in 1..(n + 1) /\ n + 1 \notin 1..n /\ \A i \in 1..(n + 1) : i = n + 1 \/ i \in 1..n
  OBVIOUS
<1>5. \A i \in 1..n : i \in 1..(n + 1) /\ i < n + 1
  OBVIOUS
<1>6. ASSUME NEW f, e # f
      PROVE  /\ Absent(q, f) => Absent(a, f)
             /\ Once(q, f) => Once(a, f)
  BY <1>3, <1>4, <1>5, <1>6 DEF Absent, Once
<1>7. Absent(q, e) => Once(a, e)
  BY <1>3, <1>4, <1>5 DEF Absent, Once
<1>8. ASSUME NEW f, NEW g, e # f, Before(q, f, g) PROVE Before(a, f, g)
  BY <1>3, <1>4, <1>5, <1>8 DEF Before
<1>9. \A i \in DOMAIN a : a[i] = e \/ \E j \in DOMAIN q : a[i] = q[j]
  BY <1>3, <1>4
<1>. QED
  BY <1>2, <1>3, <1>6, <1>7, <1>8, <1>9, Zenon

LEMMA TailQueue ==
    ASSUME NEW q \in Seq(Functor), q # << >>
    PROVE  /\ Tail(q) \in Seq(Functor) /\ Head(q) \in Functor
           /\ 1 \in DOMAIN q /\ q[1] = Head(q)
           /\ \A f : Absent(q, f) => Absent(Tail(q), f)
           /\ \A f : Head(q) # f /\ Once(q, f) => Once(Tail(q), f)
           /\ ~Absent(q, Head(q))
           /\ Once(q, Head(q)) => Absent(Tail(q), Head(q))
           /\ \A f, g : Before(q, f, g) => Before(Tail(q), f, g)
           /\ \A f : Before(q, f, Head(q)) /\ f # Head(q) => Absent(q, f)
           /\ \A i \in DOMAIN Tail(q) : \E j \in DOMAIN q : Tail(q)[i] = q[j]
<1>1. PICK n \in Nat : n = Len(q) /\ n > 0
  BY LenProperties, EmptySeq
<1>2. PICK t, h : t = Tail(q) /\ h = Head(q)
  OBVIOUS
<1>3. /\ t \in Seq(Functor) /\ h \in Functor /\ DOMAIN t = 1..(n - 1) /\ DOMAIN q = 1..n
      /\ \A i \in 1..(n - 1) : t[i] = q[i + 1]
      /\ q[1] = h
  BY <1>1, <1>2, HeadTailProperties
<1>4. 1 \in 1..n /\ \A i \in 1..(n - 1) : i + 1 \in 1..n /\ i + 1 # 1
  BY <1>1
<1>5. \A f : Absent(q, f) => Absent(t, f)
  BY <1>3, <1>4 DEF Absent
<1>6. ASSUME NEW f, h # f, Once(q, f) PROVE Once(t, f)
  <2>0. PICK k \in DOMAIN q : \A j \in DOMAIN q : q[j] = f <=> j = k
    BY <1>6, Zenon DEF Once
  <2>1. k \in 1..n /\ \A j \in 1..n : q[j] = f <=> j = k
    BY <1>3, <2>0
  <2>2. k # 1
    BY <1>3, <1>4, <1>6, <2>1
  <2>3. PICK i \in 1..(n - 1) : k = i + 1
    <3>1. k - 1 \in 1..(n - 1) /\ k = (k - 1) + 1
      BY <1>1, <2>2
    <3>. QED
      BY <3>1
  <2>4. ASSUME NEW j \in 1..(n - 1) PROVE t[j] = f <=> j = i
    <3>1. t[j] = q[j + 1] /\ j + 1 \in 1..n
      BY <1>3, <1>4, Zenon
    <3>2. q[j + 1] = f <=> j + 1 = k
      BY <2>1, <3>1, Zenon
    <3>3. j + 1 = k <=> j = i
      BY <2>3
    <3>. QED
      BY <3>1, <3>2, <3>3, Zenon
  <2>5. i \in DOMAIN t /\ \A j \in DOMAIN t : t[j] = f <=> j = i
    BY <1>3, <2>4
  <2>. QED
    BY <2>5, Zenon DEF Once
<1>7. ~Absent(q, h)
  BY <1>3, <1>4 DEF Absent
<1>8. ASSUME Once(q, h) PROVE Absent(t, h)
  <2>0. PICK k \in DOMAIN q : \A j \in DOMAIN q : q[j] = h <=> j = k
    BY <1>8, Zenon DEF Once
  <2>1. k \in 1..n /\ \A j \in 1..n : q[j] = h <=> j = k
    BY <1>3, <2>0
  <2>2. \A i \in 1..(n - 1) : q[i + 1] # h
    BY <1>3, <1>4, <2>1, Zenon
  <2>. QED
    BY <1>3, <2>2, Zenon DEF Absent
<1>9. ASSUME NEW f, NEW g, Before(q, f, g) PROVE Before(t, f, g)
  <2>1. ASSUME NEW i \in 1..(n - 1), NEW j \in 1..(n - 1), t[i] = f, t[j] = g PROVE i < j
    <3>1. i + 1 \in 1..n /\ j + 1 \in 1..n /\ q[i + 1] = f /\ q[j + 1] = g
      BY <1>3, <1>4, <2>1, Zenon
    <3>2. i + 1 < j + 1
      BY <1>3, <1>9, <3>1, Zenon DEF Before
    <3>. QED
      BY <3>2
  <2>. QED
    BY <1>3, <2>1, Zenon DEF Before
<1>10. ASSUME NEW f, Before(q, f, h), f # h PROVE Absent(q, f)
  <2>1. \A i \in 1..n : ~(i < 1)
    OBVIOUS
  <2>. QED
    BY <1>3, <1>4, <1>10, <2>1 DEF Before, Absent
<1>11. \A i \in DOMAIN t : \E j \in DOMAIN q : t[i] = q[j]
  BY <1>3, <1>4, Zenon
<1>. QED
  BY <1>2, <1>3, <1>4, <1>5, <1>6, <1>7, <1>8, <1>9, <1>10, <1>11, Zenon

LEMMA FnProperties ==
    ASSUME ServerAssumption
    PROVE  /\ \A op \in {"connectEstablished", "connectDestroyed", "removeConnectionInLoop"},
                 c \in Conn : Fn(op, c) \in Functor
           /\ Fn("listen", 0) \in Functor
           /\ \A op, p, c, d : Fn(op, c) = Fn(p, d) <=> op = p /\ c = d
           /\ \A op, c : Fn(op, c).op = op /\ Fn(op, c).c = c
BY DEF Fn, Functor

-----------------------------------------------------------------------------
(* Types *)

LEMMA TypeStep ==
    ASSUME ServerAssumption, Types, [Next]_vars
    PROVE  Types'
<1>0. /\ MaxThreads \in Nat /\ MaxConns \in Nat /\ TypeOK /\ (started = 0 => loops = 0)
      /\ \A c \in Conn : ioLoop[c] \in AnyLoop
  BY DEF ServerAssumption, Types, TypeOK, AnyLoop
<1>1. ASSUME NEW l \in AnyLoop, NEW f \in Functor
      PROVE  Queued(l, f) \in [AnyLoop -> Seq(Functor)]
  BY <1>0, AppendQueue DEF Queued, TypeOK
<1>2. ASSUME NEW l \in AnyLoop, NEW f, RunNext(l, f)
      PROVE  [queue EXCEPT ![l] = Tail(@)] \in [AnyLoop -> Seq(Functor)]
  BY <1>0, <1>2, TailQueue DEF RunNext, TypeOK
<1>3. Base \in AnyLoop
  BY <1>0 DEF Base, AnyLoop
<1>4. ASSUME NEW n \in AnyLoop, setThreadNum(n) PROVE Types'
  BY <1>0, <1>4 DEF setThreadNum, Types, TypeOK, connVars, Accepted
<1>5. ASSUME NEW inLoop \in BOOLEAN, start(inLoop) PROVE Types'
  <2>1. Queued(Base, Fn("listen", 0)) \in [AnyLoop -> Seq(Functor)]
    BY <1>1, <1>3, FnProperties
  <2>2. queue' \in [AnyLoop -> Seq(Functor)]
    BY <1>0, <1>5, <2>1 DEF start, TypeOK
  <2>3. CASE started = 0
    <3>1. /\ loops = 0 /\ loops' = numThreads /\ numThreads \in AnyLoop /\ numThreads \in Nat
          /\ next = 0 /\ next' = next /\ ioLoop' = ioLoop /\ stopped' = stopped
      BY <1>0, <1>5, <2>3 DEF start, TypeOK, connVars, AnyLoop
    <3>2. ioLoop \in [Conn -> 0..loops'] /\ stopped \subseteq 1..loops' /\ started' # 0
      BY <1>0, <1>5, <2>3, <3>1 DEF TypeOK, start
    <3>3. /\ listenning' \in BOOLEAN /\ started' \in Nat
          /\ UNCHANGED <<numThreads, next, connVars, requested, stopped, phase>>
      <4>1. listenning' = TRUE \/ listenning' = listenning
        BY <1>5, <2>3, Zenon DEF start
      <4>2. listenning \in BOOLEAN /\ started \in Nat
        BY <1>0 DEF TypeOK
      <4>3. /\ started' = started + 1
            /\ UNCHANGED <<numThreads, next, connVars, requested, stopped, phase>>
        BY <1>5, Zenon DEF start
      <4>4. listenning' \in BOOLEAN
        BY <4>1, <4>2, Zenon
      <4>5. started' \in Nat
        BY <4>2, <4>3
      <4>. QED
        BY <4>3, <4>4, <4>5, Zenon
    <3>. QED
      BY <1>0, <2>2, <3>1, <3>2, <3>3 DEF Types, TypeOK, connVars, Accepted
  <2>4. CASE started # 0
    BY <1>0, <1>5, <2>2, <2>4 DEF start, Types, TypeOK, connVars, Accepted
  <2>. QED
    BY <2>3, <2>4
<1>6. CASE listen
  <2>1. queue' \in [AnyLoop -> Seq(Functor)]
    BY <1>2, <1>3, <1>6 DEF listen
  <2>. QED
    BY <1>0, <1>6, <2>1 DEF listen, Types, TypeOK, poolVars, connVars, Accepted
<1>7. CASE ClientConnects
  BY <1>0, <1>7 DEF ClientConnects, Types, TypeOK, poolVars, connVars, Accepted
<1>8. CASE newConnection
  <2>1. PICK c \in Conn : c = nextConnId /\ c <= requested /\ nextConnId' = c + 1
    BY <1>0, <1>8 DEF newConnection, CanAccept, AcceptSucceeds, TypeOK, Conn
  <2>2. PICK l \in 0..loops : l = IF loops = 0 THEN Base ELSE next + 1
    BY <1>0 DEF TypeOK, Base, AnyLoop
  <2>3. /\ ioLoop' = [ioLoop EXCEPT ![c] = l]
        /\ connections' = connections \cup {c}
        /\ IF l = Base
           THEN state' = [state EXCEPT ![c] = "kConnected"] /\ queue' = queue
           ELSE /\ state' = [state EXCEPT ![c] = "kConnecting"]
                /\ queue' = Queued(l, Fn("connectEstablished", c))
        /\ next' = NextIndex
        /\ UNCHANGED <<numThreads, loops, started, listenning, requested, stopped, phase>>
    BY <1>8, <2>1, <2>2 DEF newConnection
  <2>4. l \in AnyLoop
    BY <1>0, <2>2 DEF TypeOK, AnyLoop
  <2>5. queue' \in [AnyLoop -> Seq(Functor)]
    <3>1. Fn("connectEstablished", c) \in Functor
      BY FnProperties
    <3>2. Queued(l, Fn("connectEstablished", c)) \in [AnyLoop -> Seq(Functor)]
      BY <1>1, <2>4, <3>1, Zenon
    <3>3. queue \in [AnyLoop -> Seq(Functor)]
      BY <1>0 DEF TypeOK
    <3>. QED
      BY <2>3, <3>2, <3>3, Zenon
  <2>6. next' \in AnyLoop /\ (next' = 0 \/ next' < loops)
    BY <1>0, <2>3 DEF NextIndex, TypeOK, AnyLoop
  <2>7. ioLoop' \in [Conn -> 0..loops]
    BY <1>0, <2>3 DEF TypeOK
  <2>8. connections' \subseteq 1..(nextConnId' - 1)
    BY <1>0, <2>1, <2>3 DEF TypeOK, Accepted, Conn
  <2>9. state' \in [Conn -> {"none", "kConnecting", "kConnected", "kDisconnected", "removed"}]
    BY <1>0, <2>3 DEF TypeOK
  <2>10. nextConnId' \in 1..(requested + 1)
    BY <1>0, <2>1 DEF TypeOK, Conn
  <2>. QED
    BY <1>0, <2>3, <2>5, <2>6, <2>7, <2>8, <2>9, <2>10 DEF Types, TypeOK, Accepted
<1>9. ASSUME NEW c \in Conn, connectEstablished(c) \/ connectDestroyed(c) PROVE Types'
  <2>1. queue' \in [AnyLoop -> Seq(Functor)]
    <3>1. /\ \E f : RunNext(ioLoop[c], f)
          /\ queue' = [queue EXCEPT ![ioLoop[c]] = Tail(@)]
      BY <1>9 DEF connectEstablished, connectDestroyed
    <3>. QED
      BY <1>0, <1>2, <3>1, Zenon
  <2>. QED
    BY <1>0, <1>9, <2>1
    DEF connectEstablished, connectDestroyed, Types, TypeOK, poolVars, Accepted
<1>10. ASSUME NEW c \in Conn, removeConnectionInLoop(c) PROVE Types'
  <2>1. PICK q : q = Queued(ioLoop[c], Fn("connectDestroyed", c))
    OBVIOUS
  <2>2. q \in [AnyLoop -> Seq(Functor)]
    BY <1>0, <1>1, <2>1, FnProperties
  <2>3. q[Base] # << >>
    <3>1. queue[Base] # << >> /\ queue[Base] \in Seq(Functor)
      BY <1>0, <1>3, <1>10 DEF removeConnectionInLoop, RunNext, TypeOK
    <3>2. Append(queue[Base], Fn("connectDestroyed", c)) # << >>
      BY <3>1, FnProperties
    <3>. QED
      BY <1>0, <1>3, <2>1, <3>1, <3>2 DEF Queued, TypeOK
  <2>4. Tail(q[Base]) \in Seq(Functor)
    BY <1>3, <2>2, <2>3, TailQueue
  <2>5. queue' \in [AnyLoop -> Seq(Functor)]
    BY <1>10, <2>1, <2>2, <2>4 DEF removeConnectionInLoop
  <2>6. connections' \subseteq Accepted
    BY <1>0, <1>10 DEF removeConnectionInLoop, EntryErased, TypeOK
  <2>. QED
    BY <1>0, <1>10, <2>5, <2>6 DEF removeConnectionInLoop, Types, TypeOK, poolVars, Accepted
<1>11. ASSUME NEW c \in Conn, handleClose(c) \/ DestroyConnection(c) PROVE Types'
  <2>1. queue' \in [AnyLoop -> Seq(Functor)]
    <3>1. /\ Fn("connectDestroyed", c) \in Functor /\ Fn("removeConnectionInLoop", c) \in Functor
          /\ queue \in [AnyLoop -> Seq(Functor)] /\ ioLoop[c] \in AnyLoop
      BY <1>0, FnProperties DEF TypeOK
    <3>2. \/ queue' = Queued(Base, Fn("connectDestroyed", c))
          \/ queue' = Queued(Base, Fn("removeConnectionInLoop", c))
          \/ queue' = Queued(ioLoop[c], Fn("connectDestroyed", c))
          \/ queue' = queue
      BY <1>11 DEF handleClose, DestroyConnection
    <3>. QED
      BY <1>1, <1>3, <3>1, <3>2, Zenon
  <2>. QED
    BY <1>0, <1>11, <2>1 DEF handleClose, DestroyConnection, Types, TypeOK, poolVars, Accepted
<1>12. ASSUME NEW l \in 1..MaxThreads, StopLoop(l) PROVE Types'
  <2>1. queue' \in [AnyLoop -> Seq(Functor)] /\ l \in 1..loops
    <3>1. << >> \in Seq(Functor) /\ l # Base
      BY EmptySeq DEF Base
    <3>. QED
      BY <1>0, <1>12, <3>1 DEF StopLoop, TypeOK, Runs
  <2>. QED
    BY <1>0, <1>12, <2>1 DEF StopLoop, Types, TypeOK, poolVars, connVars, Accepted
<1>13. CASE LoopReturns \/ DestroyPool \/ DestroyAcceptor \/ UNCHANGED vars
  BY <1>0, <1>13
  DEF LoopReturns, DestroyPool, DestroyAcceptor, Types, TypeOK, vars, poolVars, connVars, Accepted
<1>. QED
  BY <1>4, <1>5, <1>6, <1>7, <1>8, <1>9, <1>10, <1>11, <1>12, <1>13 DEF Next, Functors

-----------------------------------------------------------------------------
(* What a step does not disturb *)

\* Queue r has of the functors on c what queue q has
Same(q, r, c) ==
    /\ \A op \in {"connectEstablished", "connectDestroyed", "removeConnectionInLoop"} :
           /\ Absent(q, Fn(op, c)) => Absent(r, Fn(op, c))
           /\ Once(q, Fn(op, c)) => Once(r, Fn(op, c))
    /\ LET establish == Fn("connectEstablished", c)
           destroy == Fn("connectDestroyed", c)
       IN  Before(q, establish, destroy) => Before(r, establish, destroy)

\* A step of the queue of loop l on connection c: none, a functor more, or the first one less
Change(l, c) ==
    \/ queue'[l] = queue[l]
    \/ \E op : /\ Fn(op, c) \in Functor /\ InPlace(l, Fn(op, c))'
               /\ queue'[l] = Append(queue[l], Fn(op, c))
    \/ queue[l] # << >> /\ Head(queue[l]).c = c /\ queue'[l] = Tail(queue[l])

LEMMA OthersSame ==
    ASSUME ServerAssumption, NEW l \in AnyLoop, queue[l] \in Seq(Functor), NEW c, Change(l, c),
           NEW d, d # c
    PROVE  Same(queue[l], queue'[l], d)
<1>1. CASE queue'[l] = queue[l]
  BY <1>1, Zenon DEF Same
<1>2. ASSUME NEW op, Fn(op, c) \in Functor, queue'[l] = Append(queue[l], Fn(op, c))
      PROVE  Same(queue[l], queue'[l], d)
  <2>1. \A p : Fn(op, c) # Fn(p, d)
    BY FnProperties
  <2>2. PICK q \in Seq(Functor), e \in Functor : q = queue[l] /\ e = Fn(op, c)
    BY <1>2
  <2>3. Same(q, Append(q, e), d)
    BY <2>1, <2>2, AppendQueue, Zenon DEF Same
  <2>. QED
    BY <1>2, <2>2, <2>3, Zenon
<1>3. ASSUME queue[l] # << >>, Head(queue[l]).c = c, queue'[l] = Tail(queue[l])
      PROVE  Same(queue[l], queue'[l], d)
  <2>1. \A p : Head(queue[l]) # Fn(p, d)
    BY <1>3, FnProperties
  <2>2. PICK q \in Seq(Functor) : q = queue[l] /\ q # << >>
    BY <1>3
  <2>3. Same(q, Tail(q), d)
    BY <2>1, <2>2, TailQueue, Zenon DEF Same
  <2>. QED
    BY <1>3, <2>2, <2>3, Zenon
<1>. QED
  BY <1>1, <1>2, <1>3, Zenon DEF Change

\* The step leaves c, and what is queued for it, alone
Untouched(c) ==
    /\ state'[c] = state[c] /\ ioLoop'[c] = ioLoop[c]
    /\ c \in connections' <=> c \in connections
    /\ phase' = "running" => phase = "running"
    /\ Same(queue[Base], queue'[Base], c)
    /\ ioLoop[c] \notin stopped' =>
           ioLoop[c] \notin stopped /\ Same(queue[ioLoop[c]], queue'[ioLoop[c]], c)

Good(c) == Mapped(c) /\ Established(c) /\ Torn(c)

LEMMA UntouchedStays ==
    ASSUME NEW c, Untouched(c), Good(c)
    PROVE  Good(c)'
<1>1. Mapped(c)'
  BY Zenon DEF Good, Untouched, Mapped, Same, Removal
<1>2. Established(c)'
  BY Zenon DEF Good, Untouched, Established
<1>3. Torn(c)'
  BY Zenon DEF Good, Untouched, Torn, Same, Rest
<1>. QED
  BY <1>1, <1>2, <1>3, Zenon DEF Good

LEMMA PlacedStays ==
    ASSUME Types', Placed, Accepted \subseteq Accepted',
           \A c \in Accepted : ioLoop'[c] = ioLoop[c],
           \A l \in AnyLoop : \A i \in DOMAIN queue'[l] :
               \/ InPlace(l, queue[l][i])'
               \/ \E j \in DOMAIN queue[l] : queue'[l][i] = queue[l][j]
    PROVE  Placed'
<1>. SUFFICES ASSUME NEW l \in AnyLoop, NEW i \in DOMAIN queue'[l]
              PROVE  InPlace(l, queue[l][i])'
  BY Zenon DEF Placed, AnyLoop
<1>1. ASSUME NEW j \in DOMAIN queue[l], queue'[l][i] = queue[l][j]
      PROVE  InPlace(l, queue[l][i])'
  <2>1. InPlace(l, queue[l][j])
    BY Zenon DEF Placed
  <2>. QED
    BY <1>1, <2>1 DEF InPlace
<1>. QED
  BY <1>1, Zenon

LEMMA LoopExists ==
    ASSUME ServerAssumption, Types
    PROVE  /\ Base \in AnyLoop /\ \A l \in AnyLoop : queue[l] \in Seq(Functor)
           /\ \A c \in Accepted : c \in Conn
           /\ \A c \in Conn : ioLoop[c] \in AnyLoop
<1>1. MaxThreads \in Nat /\ MaxConns \in Nat /\ loops \in AnyLoop
  BY DEF ServerAssumption, Types, TypeOK
<1>2. Base \in AnyLoop /\ \A l \in 0..loops : l \in AnyLoop
  BY <1>1 DEF Base, AnyLoop
<1>3. \A c \in Conn : ioLoop[c] \in 0..loops
  BY DEF Types, TypeOK
<1>4. \A c \in Accepted : c \in Conn
  <2>1. requested \in 0..MaxConns /\ nextConnId \in 1..(requested + 1)
    BY DEF Types, TypeOK
  <2>. QED
    BY <1>1, <2>1 DEF Accepted, Conn
<1>5. \A l \in AnyLoop : queue[l] \in Seq(Functor)
  BY DEF Types, TypeOK
<1>. QED
  BY <1>2, <1>3, <1>4, <1>5

\* A step that concerns connection c only
LEMMA OthersStay ==
    ASSUME ServerAssumption, Types, NEW c, \A l \in AnyLoop : Change(l, c),
           \A d \in Accepted \ {c} : state'[d] = state[d] /\ ioLoop'[d] = ioLoop[d]
                                     /\ (d \in connections' <=> d \in connections),
           stopped \subseteq stopped', phase' = "running" => phase = "running",
           NEW d \in Accepted \ {c}, Good(d)
    PROVE  Good(d)'
<1>1. /\ ioLoop[d] \in AnyLoop /\ Base \in AnyLoop
      /\ \A l \in AnyLoop : queue[l] \in Seq(Functor)
  BY LoopExists
<1>2. Same(queue[Base], queue'[Base], d) /\ Same(queue[ioLoop[d]], queue'[ioLoop[d]], d)
  BY <1>1, OthersSame
<1>3. Untouched(d)
  BY <1>2 DEF Untouched
<1>. QED
  BY <1>3, UntouchedStays

\* What Change adds to the queues
LEMMA ChangePlaced ==
    ASSUME ServerAssumption, Types, NEW c, NEW l \in AnyLoop, Change(l, c)
    PROVE  \A i \in DOMAIN queue'[l] :
               \/ \E j \in DOMAIN queue[l] : queue'[l][i] = queue[l][j]
               \/ InPlace(l, queue[l][i])'
<1>1. PICK q \in Seq(Functor) : q = queue[l]
  BY DEF Types, TypeOK
<1>2. PICK r : r = queue'[l]
  OBVIOUS
<1>3. r = q => \A i \in DOMAIN r : \E j \in DOMAIN q : r[i] = q[j]
  BY Zenon
<1>4. ASSUME NEW op, Fn(op, c) \in Functor, r = Append(q, Fn(op, c))
      PROVE  \A i \in DOMAIN r : r[i] = Fn(op, c) \/ \E j \in DOMAIN q : r[i] = q[j]
  <2>1. PICK e \in Functor : e = Fn(op, c)
    BY <1>4
  <2>. QED
    BY <1>4, <2>1, AppendQueue, Zenon
<1>5. ASSUME q # << >>, r = Tail(q) PROVE \A i \in DOMAIN r : \E j \in DOMAIN q : r[i] = q[j]
  <2>1. \A i \in DOMAIN Tail(q) : \E j \in DOMAIN q : Tail(q)[i] = q[j]
    BY <1>5, TailQueue
  <2>. QED
    BY <1>5, <2>1, Zenon
<1>6. \/ r = q
      \/ \E op : Fn(op, c) \in Functor /\ InPlace(l, Fn(op, c))' /\ r = Append(q, Fn(op, c))
      \/ q # << >> /\ r = Tail(q)
  BY <1>1, <1>2, Zenon DEF Change
<1>7. \A i \in DOMAIN r : \/ \E j \in DOMAIN q : r[i] = q[j]
                         \/ \E op : InPlace(l, Fn(op, c))' /\ r[i] = Fn(op, c)
  BY <1>3, <1>4, <1>5, <1>6, Zenon
<1>8. ASSUME NEW i, NEW op, InPlace(l, Fn(op, c))', queue'[l][i] = Fn(op, c)
      PROVE  InPlace(l, queue[l][i])'
  BY <1>8, Zenon DEF InPlace
<1>. QED
  BY <1>1, <1>2, <1>7, <1>8, Zenon

-----------------------------------------------------------------------------
(* The steps *)

\* Steps that concern no connection: setThreadNum, start, listen, a client, the end of loops
LEMMA QuietStep ==
    ASSUME ServerAssumption, Inv, Types', UNCHANGED connVars,
           phase' = "running" => phase = "running",
           \/ (\A l \in AnyLoop : Change(l, 0)) /\ stopped' = stopped
           \/ \E l \in AnyLoop \ {Base} : stopped' = stopped \cup {l} /\ queue' = [queue EXCEPT ![l] = << >>]
    PROVE  Inv'
<1>0. /\ Types /\ Placed /\ Unborn' /\ \A c \in Accepted : Good(c)
      /\ Accepted' = Accepted /\ ioLoop' = ioLoop /\ state' = state /\ connections' = connections
  BY DEF Inv, Good, connVars, Accepted, Unborn, Conn
<1>1. CASE (\A l \in AnyLoop : Change(l, 0)) /\ stopped' = stopped
  <2>1. \A c \in Accepted : c \in Accepted \ {0}
    BY <1>0 DEF Accepted, Types, TypeOK
  <2>2. \A c \in Accepted : Good(c)'
    BY <1>0, <1>1, <2>1, OthersStay
  <2>3. ASSUME NEW l \in AnyLoop, NEW i \in DOMAIN queue'[l]
        PROVE  \/ InPlace(l, queue[l][i])'
               \/ \E j \in DOMAIN queue[l] : queue'[l][i] = queue[l][j]
    BY <1>0, <1>1, ChangePlaced
  <2>4. Placed'
    BY <1>0, <2>3, PlacedStays
  <2>. QED
    BY <1>0, <2>2, <2>4 DEF Inv, Good
<1>2. ASSUME NEW l \in AnyLoop \ {Base}, stopped' = stopped \cup {l},
             queue' = [queue EXCEPT ![l] = << >>]
      PROVE  Inv'
  <2>1. /\ \A k \in AnyLoop \ {l} : queue'[k] = queue[k]
        /\ queue'[l] = << >> /\ Base \in AnyLoop \ {l}
    BY <1>0, <1>2 DEF Types, TypeOK, AnyLoop, Base, ServerAssumption
  <2>2. ASSUME NEW c \in Accepted PROVE Good(c)'
    <3>1. ioLoop[c] \in AnyLoop
      BY <1>0, LoopExists
    <3>2. ASSUME ioLoop[c] \notin stopped'
          PROVE  ioLoop[c] \notin stopped /\ queue'[ioLoop[c]] = queue[ioLoop[c]]
      BY <1>2, <2>1, <3>1, <3>2
    <3>3. Same(queue[Base], queue'[Base], c)
      BY <2>1, Zenon DEF Same
    <3>4. ioLoop[c] \notin stopped' => Same(queue[ioLoop[c]], queue'[ioLoop[c]], c)
      BY <3>2, Zenon DEF Same
    <3>5. Untouched(c)
      BY <1>0, <3>2, <3>3, <3>4 DEF Untouched
    <3>. QED
      BY <1>0, <3>5, UntouchedStays
  <2>3. ASSUME NEW k \in AnyLoop, NEW i \in DOMAIN queue'[k]
        PROVE  \E j \in DOMAIN queue[k] : queue'[k][i] = queue[k][j]
    <3>1. k # l
      BY <2>1
    <3>. QED
      BY <2>1, <3>1
  <2>4. Placed'
    BY <1>0, <2>3, PlacedStays
  <2>. QED
    BY <1>0, <2>2, <2>4 DEF Inv, Good
<1>. QED
  BY <1>1, <1>2

\* A step of connection c keeps the invariant when it keeps that of c
LEMMA ConnStep ==
    ASSUME ServerAssumption, Inv, Types', NEW c \in Accepted,
           \A l \in AnyLoop : Change(l, c),
           \A d \in Conn \ {c} : state'[d] = state[d] /\ (d \in connections' <=> d \in connections),
           UNCHANGED <<nextConnId, ioLoop, stopped, phase>>, Good(c)'
    PROVE  Inv'
<1>0. /\ Types /\ Placed /\ Unborn /\ \A d \in Accepted : Good(d)
      /\ Accepted' = Accepted /\ ioLoop' = ioLoop /\ stopped' = stopped /\ phase' = phase
  BY DEF Inv, Good, Accepted
<1>1. ASSUME NEW d \in Accepted PROVE Good(d)'
  <2>1. CASE d = c
    BY <2>1
  <2>2. CASE d # c
    <3>1. d \in Accepted \ {c}
      BY <2>2
    <3>2. /\ \A e \in Accepted \ {c} : state'[e] = state[e] /\ ioLoop'[e] = ioLoop[e]
                                       /\ (e \in connections' <=> e \in connections)
          /\ stopped \subseteq stopped' /\ (phase' = "running" => phase = "running")
      BY <1>0, LoopExists
    <3>. QED
      BY <1>0, <3>1, <3>2, OthersStay
  <2>. QED
    BY <2>1, <2>2
<1>2. \A l \in AnyLoop : \A i \in DOMAIN queue'[l] :
          \/ InPlace(l, queue[l][i])'
          \/ \E j \in DOMAIN queue[l] : queue'[l][i] = queue[l][j]
  BY <1>0, ChangePlaced
<1>3. Placed'
  BY <1>0, <1>2, PlacedStays
<1>4. Unborn'
  BY <1>0, LoopExists DEF Unborn, Accepted, Conn
<1>. QED
  BY <1>0, <1>1, <1>3, <1>4 DEF Inv, Good

\* The functors on an accepted connection, and their places
LEMMA RunNextPlaced ==
    ASSUME ServerAssumption, Types, Placed, NEW l \in AnyLoop, NEW c \in Conn,
           NEW op \in {"connectEstablished", "connectDestroyed", "removeConnectionInLoop"},
           RunNext(l, Fn(op, c))
    PROVE  c \in Accepted /\ queue[l] # << >> /\ Head(queue[l]) = Fn(op, c)
<1>1. queue[l] # << >> /\ Head(queue[l]) = Fn(op, c) /\ queue[l] \in Seq(Functor)
  BY LoopExists DEF RunNext
<1>2. 1 \in DOMAIN queue[l] /\ queue[l][1] = Fn(op, c)
  BY <1>1, TailQueue
<1>3. InPlace(l, Fn(op, c))
  BY <1>2, Zenon DEF Placed
<1>4. Fn(op, c).op = op /\ Fn(op, c).c = c
  BY FnProperties
<1>. QED
  BY <1>1, <1>3, <1>4 DEF InPlace

\* A running loop has not been stopped
LEMMA RunsGoesOn ==
    ASSUME Types, NEW l \in AnyLoop, Runs(l)
    PROVE  l \notin stopped
BY DEF Types, TypeOK, Runs, Base

LEMMA EstablishStep ==
    ASSUME ServerAssumption, Inv, Types', NEW c \in Conn, connectEstablished(c)
    PROVE  Inv'
<1>0. /\ Types /\ Placed /\ \A d \in Accepted : Good(d)
  BY DEF Inv, Good
<1>1. PICK l \in AnyLoop : l = ioLoop[c]
  BY <1>0, LoopExists
<1>2. PICK e, z, m : e = Fn("connectEstablished", c) /\ z = Fn("connectDestroyed", c) /\ m = Removal(c)
  OBVIOUS
<1>3. e # z /\ e # m /\ e.c = c
  BY <1>2, FnProperties DEF Removal
<1>4. /\ c \in Accepted /\ queue[l] # << >> /\ Head(queue[l]) = e
  BY <1>0, <1>1, <1>2, RunNextPlaced DEF connectEstablished
<1>5. l \notin stopped
  BY <1>0, <1>1, RunsGoesOn DEF connectEstablished, RunNext
<1>6. PICK q \in Seq(Functor), t \in Seq(Functor) : q = queue[l] /\ t = Tail(q)
  BY <1>0, <1>4, LoopExists, TailQueue
<1>7. /\ ~Absent(q, e) /\ (Once(q, e) => Absent(t, e))
      /\ \A f : f # e => (Absent(q, f) => Absent(t, f)) /\ (Once(q, f) => Once(t, f))
      /\ Before(q, e, z) => Before(t, e, z)
  BY <1>4, <1>6, TailQueue
<1>8. /\ queue'[l] = t /\ \A k \in AnyLoop \ {l} : queue'[k] = queue[k]
      /\ state'[c] = "kConnected" /\ \A d \in Conn \ {c} : state'[d] = state[d]
      /\ UNCHANGED <<nextConnId, connections, ioLoop, stopped, phase>>
  BY <1>0, <1>1, <1>6 DEF connectEstablished, Types, TypeOK
<1>9. \A k \in AnyLoop : Change(k, c)
  BY <1>3, <1>4, <1>6, <1>8 DEF Change
<1>10. Good(c) /\ Rest(c, q)
  BY <1>0, <1>1, <1>4, <1>5, <1>6 DEF Good, Torn
<1>11. /\ state[c] = "kConnecting" /\ Once(q, e) /\ Before(q, e, z)
       /\ IF c \in connections THEN Absent(q, z) ELSE Once(q, z)
  BY <1>2, <1>7, <1>10 DEF Rest
<1>12. Torn(c)'
  <2>1. Rest(c, t)'
    BY <1>2, <1>3, <1>7, <1>8, <1>11 DEF Rest
  <2>. QED
    BY <1>1, <1>8, <2>1 DEF Torn
<1>13. Mapped(c)'
  <2>. SUFFICES ASSUME phase = "running" PROVE Mapped(c)'
    BY <1>8 DEF Mapped
  <2>1. c \in connections /\ Absent(queue[Base], m)
    BY <1>2, <1>10, <1>11 DEF Good, Mapped
  <2>2. Absent(queue'[Base], m)
    <3>1. CASE l = Base
      BY <1>3, <1>6, <1>7, <1>8, <2>1, <3>1
    <3>2. CASE l # Base
      <4>1. Base \in AnyLoop \ {l}
        BY <1>0, <3>2, LoopExists
      <4>. QED
        BY <1>8, <2>1, <4>1
    <3>. QED
      BY <3>1, <3>2
  <2>. QED
    BY <1>2, <1>8, <2>1, <2>2 DEF Mapped, Removal
<1>14. Established(c)'
  BY <1>8 DEF Established
<1>. QED
  BY <1>4, <1>8, <1>9, <1>12, <1>13, <1>14, ConnStep DEF Good

LEMMA DestroyedStep ==
    ASSUME ServerAssumption, Inv, Types', NEW c \in Conn, connectDestroyed(c)
    PROVE  Inv'
<1>0. /\ Types /\ Placed /\ \A d \in Accepted : Good(d)
  BY DEF Inv, Good
<1>1. PICK l \in AnyLoop : l = ioLoop[c]
  BY <1>0, LoopExists
<1>2. PICK e, z, m : e = Fn("connectEstablished", c) /\ z = Fn("connectDestroyed", c) /\ m = Removal(c)
  OBVIOUS
<1>3. e # z /\ z # m /\ z.c = c
  BY <1>2, FnProperties DEF Removal
<1>4. /\ c \in Accepted /\ queue[l] # << >> /\ Head(queue[l]) = z
  BY <1>0, <1>1, <1>2, RunNextPlaced DEF connectDestroyed
<1>5. l \notin stopped
  BY <1>0, <1>1, RunsGoesOn DEF connectDestroyed, RunNext
<1>6. PICK q \in Seq(Functor), t \in Seq(Functor) : q = queue[l] /\ t = Tail(q)
  BY <1>0, <1>4, LoopExists, TailQueue
<1>7. /\ ~Absent(q, z) /\ (Once(q, z) => Absent(t, z))
      /\ \A f : Absent(q, f) => Absent(t, f)
      /\ Before(q, e, z) => Before(t, e, z) /\ Absent(q, e)
  BY <1>3, <1>4, <1>6, TailQueue
<1>8. /\ queue'[l] = t /\ \A k \in AnyLoop \ {l} : queue'[k] = queue[k]
      /\ state'[c] = "removed" /\ \A d \in Conn \ {c} : state'[d] = state[d]
      /\ UNCHANGED <<nextConnId, connections, ioLoop, stopped, phase>>
  BY <1>0, <1>1, <1>6 DEF connectDestroyed, Types, TypeOK
<1>9. \A k \in AnyLoop : Change(k, c)
  BY <1>3, <1>4, <1>6, <1>8 DEF Change
<1>10. Good(c) /\ Rest(c, q)
  BY <1>0, <1>1, <1>4, <1>5, <1>6 DEF Good, Torn
<1>11. c \notin connections /\ Once(q, z) /\ Before(q, e, z)
  BY <1>2, <1>7, <1>10 DEF Rest
<1>12. Torn(c)'
  <2>1. Rest(c, t)'
    BY <1>2, <1>7, <1>8, <1>11 DEF Rest
  <2>. QED
    BY <1>1, <1>8, <1>11, <2>1 DEF Torn
<1>13. Mapped(c)'
  <2>. SUFFICES ASSUME phase = "running" PROVE Mapped(c)'
    BY <1>8 DEF Mapped
  <2>1. Absent(queue[Base], m)
    BY <1>2, <1>10, <1>11 DEF Good, Mapped
  <2>2. Absent(queue'[Base], m)
    <3>1. CASE l = Base
      BY <1>6, <1>7, <1>8, <2>1, <3>1
    <3>2. CASE l # Base
      <4>1. Base \in AnyLoop \ {l}
        BY <1>0, <3>2, LoopExists
      <4>. QED
        BY <1>8, <2>1, <4>1
    <3>. QED
      BY <3>1, <3>2
  <2>. QED
    BY <1>2, <1>8, <2>2 DEF Mapped, Removal
<1>14. Established(c)'
  BY <1>8 DEF Established
<1>. QED
  BY <1>4, <1>8, <1>9, <1>12, <1>13, <1>14, ConnStep DEF Good

LEMMA RemoveStep ==
    ASSUME ServerAssumption, Inv, Types', NEW c \in Conn, removeConnectionInLoop(c)
    PROVE  Inv'
<1>0. /\ Types /\ Placed /\ (\A d \in Accepted : Good(d)) /\ Base \in AnyLoop
      /\ phase = "running"
  BY LoopExists DEF Inv, Good, removeConnectionInLoop, RunNext, Runs
<1>1. PICK l \in AnyLoop : l = ioLoop[c]
  BY <1>0, LoopExists
<1>2. PICK e, z, m : e = Fn("connectEstablished", c) /\ z = Fn("connectDestroyed", c) /\ m = Removal(c)
  OBVIOUS
<1>3. /\ e # z /\ z # m /\ m.c = c /\ z.op = "connectDestroyed" /\ z.c = c /\ z \in Functor
  BY <1>2, FnProperties DEF Removal
<1>4. /\ c \in Accepted /\ queue[Base] # << >> /\ Head(queue[Base]) = m
  BY <1>0, <1>2, RunNextPlaced DEF removeConnectionInLoop, Removal
<1>5. PICK q \in Seq(Functor), b \in Seq(Functor), a \in Seq(Functor), t \in Seq(Functor) :
          q = queue[l] /\ b = queue[Base] /\ a = Append(q, z) /\ t = Tail(b)
  BY <1>0, <1>3, <1>4, LoopExists, TailQueue, AppendQueue
<1>6. ~Absent(b, m) /\ (Once(b, m) => Absent(t, m))
  BY <1>4, <1>5, TailQueue
<1>7. /\ Once(b, m) /\ c \in connections /\ state[c] = "kDisconnected" /\ l # Base
  BY <1>0, <1>1, <1>2, <1>4, <1>5, <1>6 DEF Good, Mapped
<1>8. /\ Absent(q, e) => Absent(a, e)
      /\ Absent(q, z) => Once(a, z)
      /\ Before(q, e, z) => Before(a, e, z)
  BY <1>3, <1>5, AppendQueue
<1>9. /\ queue'[l] = a /\ queue'[Base] = t
      /\ \A k \in AnyLoop \ {l, Base} : queue'[k] = queue[k]
  BY <1>0, <1>1, <1>2, <1>5, <1>7 DEF removeConnectionInLoop, Queued, Types, TypeOK
<1>10. /\ connections' = connections \ {c} /\ state' = state
       /\ UNCHANGED <<nextConnId, ioLoop, stopped, phase>>
  BY DEF removeConnectionInLoop, EntryErased
<1>11. \A k \in AnyLoop : Change(k, c)
  <2>1. InPlace(l, z)'
    BY <1>1, <1>3, <1>4, <1>10 DEF InPlace, Accepted
  <2>2. Change(l, c)
    BY <1>2, <1>3, <1>5, <1>9, <2>1 DEF Change
  <2>3. Change(Base, c)
    BY <1>3, <1>4, <1>5, <1>9 DEF Change
  <2>. QED
    BY <1>9, <2>2, <2>3 DEF Change
<1>12. Torn(c)'
  <2>1. ASSUME l \notin stopped PROVE Rest(c, a)'
    <3>1. Absent(q, e) /\ Absent(q, z) /\ Before(q, e, z)
      BY <1>0, <1>1, <1>2, <1>4, <1>5, <1>7, <2>1 DEF Good, Torn, Rest
    <3>. QED
      BY <1>2, <1>7, <1>8, <1>10, <3>1 DEF Rest
  <2>. QED
    BY <1>1, <1>7, <1>9, <1>10, <2>1 DEF Torn
<1>13. Mapped(c)'
  BY <1>2, <1>6, <1>7, <1>9, <1>10 DEF Mapped, Removal
<1>14. Established(c)'
  BY <1>7, <1>10 DEF Established
<1>15. \A d \in Conn \ {c} : state'[d] = state[d] /\ (d \in connections' <=> d \in connections)
  BY <1>10
<1>. QED
  BY <1>4, <1>10, <1>11, <1>12, <1>13, <1>14, <1>15, ConnStep DEF Good

LEMMA CloseStep ==
    ASSUME ServerAssumption, Inv, Types', NEW c \in Conn, handleClose(c)
    PROVE  Inv'
<1>0. /\ Types /\ Placed /\ (\A d \in Accepted : Good(d)) /\ Base \in AnyLoop
      /\ c \in Accepted /\ state[c] = "kConnected"
  BY LoopExists DEF Inv, Good, Unborn, handleClose
<1>1. PICK l \in AnyLoop : l = ioLoop[c]
  BY <1>0, LoopExists
<1>2. PICK e, z, m : e = Fn("connectEstablished", c) /\ z = Fn("connectDestroyed", c) /\ m = Removal(c)
  OBVIOUS
<1>3. /\ e # z /\ z # m /\ z.op = "connectDestroyed" /\ z.c = c /\ z \in Functor
      /\ m.op = "removeConnectionInLoop" /\ m.c = c /\ m \in Functor
  BY <1>2, FnProperties DEF Removal
<1>4. l \notin stopped
  BY <1>0, <1>1, RunsGoesOn DEF handleClose
<1>5. PICK q \in Seq(Functor), b \in Seq(Functor) : q = queue[l] /\ b = queue[Base]
  BY <1>0, LoopExists
<1>6. Good(c) /\ Rest(c, q) /\ Absent(q, e) /\ Before(q, e, z)
  <2>1. Good(c) /\ Rest(c, q)
    BY <1>0, <1>1, <1>4, <1>5 DEF Good, Torn
  <2>. QED
    BY <1>0, <1>2, <2>1 DEF Rest
<1>7. phase = "running" => c \in connections /\ Absent(b, m)
  BY <1>0, <1>2, <1>5, <1>6 DEF Good, Mapped
<1>8. /\ state'[c] = "kDisconnected" /\ \A d \in Conn \ {c} : state'[d] = state[d]
      /\ UNCHANGED <<nextConnId, ioLoop, stopped, phase>>
  BY <1>0 DEF handleClose, Types, TypeOK
<1>9. Established(c)'
  BY <1>8 DEF Established
<1>10. CASE l = Base
  <2>1. phase = "running"
    BY <1>1, <1>10 DEF handleClose, Runs
  <2>2. c \in connections /\ Absent(q, m) /\ Absent(q, z)
    BY <1>0, <1>2, <1>5, <1>6, <1>7, <1>10, <2>1 DEF Rest
  <2>3. PICK a : a = Append(q, z)
    OBVIOUS
  <2>4. Absent(a, e) /\ Absent(a, m) /\ Once(a, z) /\ Before(a, e, z)
    BY <1>3, <1>6, <2>2, <2>3, AppendQueue
  <2>5. /\ connections' = connections \ {c}
        /\ queue'[l] = a /\ \A k \in AnyLoop \ {l} : queue'[k] = queue[k]
    BY <1>0, <1>1, <1>2, <1>5, <1>10, <2>3 DEF handleClose, Queued, Types, TypeOK
  <2>6. InPlace(l, z)'
    BY <1>0, <1>1, <1>3, <1>8 DEF InPlace, Accepted
  <2>7. \A k \in AnyLoop : Change(k, c)
    BY <1>2, <1>3, <1>5, <2>3, <2>5, <2>6 DEF Change
  <2>8. Torn(c)'
    <3>1. Rest(c, a)'
      BY <1>2, <1>8, <2>4, <2>5 DEF Rest
    <3>. QED
      BY <1>1, <1>8, <2>5, <3>1 DEF Torn
  <2>9. Mapped(c)'
    BY <1>2, <1>8, <1>10, <2>4, <2>5 DEF Mapped, Removal
  <2>10. \A d \in Conn \ {c} : d \in connections' <=> d \in connections
    BY <2>5
  <2>. QED
    BY <1>0, <1>8, <1>9, <2>7, <2>8, <2>9, <2>10, ConnStep DEF Good
<1>11. CASE l # Base
  <2>1. PICK a : a = Append(b, m)
    OBVIOUS
  <2>2. Absent(b, m) => Once(a, m)
    BY <1>3, <2>1, AppendQueue
  <2>3. /\ connections' = connections
        /\ queue'[Base] = a /\ \A k \in AnyLoop \ {Base} : queue'[k] = queue[k]
    BY <1>0, <1>1, <1>2, <1>5, <1>11, <2>1 DEF handleClose, Queued, Types, TypeOK, Removal
  <2>4. InPlace(Base, m)'
    BY <1>0, <1>3, <1>8 DEF InPlace, Accepted
  <2>5. \A k \in AnyLoop : Change(k, c)
    BY <1>2, <1>3, <1>5, <2>1, <2>3, <2>4 DEF Change, Removal
  <2>6. Torn(c)'
    <3>1. Rest(c, q)'
      BY <1>0, <1>2, <1>6, <1>8, <2>3 DEF Rest
    <3>. QED
      BY <1>1, <1>5, <1>8, <1>11, <2>3, <3>1 DEF Torn
  <2>7. Mapped(c)'
    BY <1>1, <1>2, <1>7, <1>8, <1>11, <2>2, <2>3 DEF Mapped, Removal
  <2>. QED
    BY <1>0, <1>8, <1>9, <2>3, <2>5, <2>6, <2>7, ConnStep DEF Good
<1>. QED
  BY <1>10, <1>11

LEMMA DestroyStep ==
    ASSUME ServerAssumption, Inv, Types', NEW c \in Conn, DestroyConnection(c)
    PROVE  Inv'
<1>0. /\ Types /\ Placed /\ (\A d \in Accepted : Good(d)) /\ Base \in AnyLoop
      /\ c \in Accepted /\ c \in connections
  BY LoopExists DEF Inv, Good, Types, TypeOK, DestroyConnection
<1>1. PICK l \in AnyLoop : l = ioLoop[c]
  BY <1>0, LoopExists
<1>2. PICK e, z : e = Fn("connectEstablished", c) /\ z = Fn("connectDestroyed", c)
  OBVIOUS
<1>3. e # z /\ z.op = "connectDestroyed" /\ z.c = c /\ z \in Functor
  BY <1>2, FnProperties
<1>4. PICK q \in Seq(Functor) : q = queue[l]
  BY <1>0, LoopExists
<1>5. /\ connections' = connections \ {c} /\ phase = "ended"
      /\ UNCHANGED <<nextConnId, ioLoop, stopped, phase>>
  BY DEF DestroyConnection
<1>6. Mapped(c)'
  BY <1>5 DEF Mapped
<1>7. ASSUME l \notin stopped
      PROVE  /\ Rest(c, q) /\ Absent(q, z) /\ Before(q, e, z)
             /\ IF state[c] = "kConnecting" THEN Once(q, e) ELSE Absent(q, e)
  <2>1. Rest(c, q)
    BY <1>0, <1>1, <1>4, <1>7 DEF Good, Torn
  <2>. QED
    BY <1>0, <1>2, <2>1 DEF Rest
<1>8. \A d \in Conn \ {c} : d \in connections' <=> d \in connections
  BY <1>5
<1>9. Established(c) /\ state[c] # "removed"
  BY <1>0 DEF Good, Torn
<1>10. CASE l = Base
  <2>1. /\ queue' = queue
        /\ state'[c] = "removed" /\ \A d \in Conn \ {c} : state'[d] = state[d]
    BY <1>0, <1>1, <1>10 DEF DestroyConnection, RunsHere, Types, TypeOK
  <2>2. state[c] # "kConnecting"
    BY <1>1, <1>9, <1>10 DEF Established
  <2>3. Torn(c)'
    <3>1. ASSUME l \notin stopped PROVE Rest(c, q)'
      BY <1>2, <1>7, <2>1, <2>2, <3>1 DEF Rest
    <3>. QED
      BY <1>1, <1>4, <1>5, <2>1, <3>1 DEF Torn
  <2>4. Established(c)'
    BY <2>1 DEF Established
  <2>5. \A k \in AnyLoop : Change(k, c)
    BY <2>1 DEF Change
  <2>. QED
    BY <1>0, <1>5, <1>6, <1>8, <2>1, <2>3, <2>4, <2>5, ConnStep DEF Good
<1>11. CASE l # Base
  <2>1. PICK a : a = Append(q, z)
    OBVIOUS
  <2>2. /\ Absent(q, e) => Absent(a, e)
        /\ Once(q, e) => Once(a, e)
        /\ Absent(q, z) => Once(a, z)
        /\ Before(q, e, z) => Before(a, e, z)
    BY <1>3, <2>1, AppendQueue
  <2>3. /\ state' = state
        /\ queue'[l] = a /\ \A k \in AnyLoop \ {l} : queue'[k] = queue[k]
    BY <1>0, <1>1, <1>2, <1>4, <1>11, <2>1
    DEF DestroyConnection, RunsHere, Queued, Types, TypeOK
  <2>4. InPlace(l, z)'
    BY <1>0, <1>1, <1>3, <1>5 DEF InPlace, Accepted
  <2>5. \A k \in AnyLoop : Change(k, c)
    BY <1>2, <1>3, <1>4, <2>1, <2>3, <2>4 DEF Change
  <2>6. Torn(c)'
    <3>1. ASSUME l \notin stopped PROVE Rest(c, a)'
      BY <1>2, <1>5, <1>7, <1>9, <2>2, <2>3, <3>1 DEF Rest
    <3>. QED
      BY <1>1, <1>5, <2>3, <3>1 DEF Torn
  <2>7. Established(c)'
    BY <1>5, <1>9, <2>3 DEF Established
  <2>. QED
    BY <1>0, <1>5, <1>6, <1>8, <2>3, <2>5, <2>6, <2>7, ConnStep DEF Good
<1>. QED
  BY <1>10, <1>11

LEMMA NewStep ==
    ASSUME ServerAssumption, Inv, Types', newConnection
    PROVE  Inv'
<1>0. /\ Types /\ Placed /\ Unborn /\ (\A d \in Accepted : Good(d)) /\ Base \in AnyLoop
  BY LoopExists DEF Inv, Good
<1>1. PICK c \in Conn : /\ c = nextConnId /\ nextConnId' = c + 1
                        /\ c \notin Accepted /\ Accepted' = Accepted \cup {c}
  <2>1. /\ nextConnId <= requested /\ nextConnId' = nextConnId + 1
        /\ requested \in 0..MaxConns /\ nextConnId \in 1..(requested + 1) /\ MaxConns \in Nat
    BY <1>0 DEF newConnection, CanAccept, AcceptSucceeds, Types, TypeOK, ServerAssumption
  <2>. QED
    BY <2>1 DEF Accepted, Conn
<1>2. PICK l \in AnyLoop : l = IF loops = 0 THEN Base ELSE next + 1
  <2>1. /\ loops \in 0..MaxThreads /\ next \in 0..MaxThreads /\ (next = 0 \/ next < loops)
        /\ MaxThreads \in Nat
    BY <1>0 DEF Types, TypeOK, AnyLoop, ServerAssumption
  <2>2. (IF loops = 0 THEN Base ELSE next + 1) \in 0..MaxThreads
    BY <2>1 DEF Base
  <2>. QED
    BY <2>2 DEF AnyLoop
<1>3. PICK e, z, m : e = Fn("connectEstablished", c) /\ z = Fn("connectDestroyed", c) /\ m = Removal(c)
  OBVIOUS
<1>4. /\ e # z /\ e # m /\ e.op = "connectEstablished" /\ e.c = c /\ e \in Functor
      /\ z.op # "listen" /\ z.c = c /\ m.op # "listen" /\ m.c = c
  BY <1>3, FnProperties DEF Removal
<1>5. ASSUME NEW k \in AnyLoop PROVE Absent(queue[k], e) /\ Absent(queue[k], z) /\ Absent(queue[k], m)
  <2>1. \A i \in DOMAIN queue[k] : queue[k][i].op # "listen" => queue[k][i].c # c
    BY <1>0, <1>1 DEF Placed, InPlace
  <2>. QED
    BY <1>4, <2>1 DEF Absent
<1>6. PICK q \in Seq(Functor) : q = queue[l]
  BY <1>0, LoopExists
<1>7. /\ ioLoop'[c] = l /\ \A d \in Conn \ {c} : ioLoop'[d] = ioLoop[d]
      /\ connections' = connections \cup {c}
      /\ \A d \in Conn \ {c} : state'[d] = state[d]
      /\ stopped' = stopped /\ phase' = phase
  BY <1>0, <1>1, <1>2 DEF newConnection, Types, TypeOK
<1>8. IF l = Base
      THEN state'[c] = "kConnected" /\ queue' = queue
      ELSE state'[c] = "kConnecting" /\ queue' = Queued(l, e)
  BY <1>0, <1>1, <1>2, <1>3 DEF newConnection, Types, TypeOK
<1>9. PICK r : r = IF l = Base THEN q ELSE Append(q, e)
  OBVIOUS
<1>10. queue'[l] = r /\ \A k \in AnyLoop \ {l} : queue'[k] = queue[k]
  BY <1>0, <1>6, <1>8, <1>9 DEF Queued, Types, TypeOK
<1>11. \A k \in AnyLoop : Change(k, c)
  <2>1. InPlace(l, e)'
    BY <1>1, <1>4, <1>7 DEF InPlace
  <2>. QED
    BY <1>3, <1>4, <1>6, <1>9, <1>10, <2>1 DEF Change
<1>12. /\ Absent(r, z) /\ Before(r, e, z)
       /\ IF l = Base THEN Absent(r, e) ELSE Once(r, e)
  <2>1. Absent(q, z) /\ Absent(q, e)
    BY <1>5, <1>6
  <2>2. CASE l = Base
    BY <1>9, <2>1, <2>2 DEF Absent, Before
  <2>3. CASE l # Base
    <3>1. Absent(r, z) /\ Once(r, e)
      BY <1>4, <1>9, <2>1, <2>3, AppendQueue
    <3>. QED
      BY <2>3, <3>1 DEF Absent, Before
  <2>. QED
    BY <2>2, <2>3
<1>13. Good(c)'
  <2>1. Rest(c, r)'
    BY <1>3, <1>7, <1>8, <1>12 DEF Rest
  <2>2. Torn(c)'
    BY <1>7, <1>8, <1>10, <2>1 DEF Torn
  <2>3. Absent(queue'[Base], m)
    <3>1. CASE l = Base
      BY <1>5, <1>8, <3>1
    <3>2. CASE l # Base
      BY <1>0, <1>5, <1>10, <3>2
    <3>. QED
      BY <3>1, <3>2
  <2>4. Mapped(c)'
    BY <1>3, <1>7, <2>3 DEF Mapped, Removal
  <2>5. Established(c)'
    BY <1>7, <1>8 DEF Established
  <2>. QED
    BY <2>2, <2>4, <2>5 DEF Good
<1>14. ASSUME NEW d \in Accepted PROVE Good(d)'
  <2>1. d \in Accepted \ {c}
    BY <1>1
  <2>2. /\ \A a \in Accepted \ {c} : state'[a] = state[a] /\ ioLoop'[a] = ioLoop[a]
                                     /\ (a \in connections' <=> a \in connections)
        /\ stopped \subseteq stopped' /\ (phase' = "running" => phase = "running")
    BY <1>0, <1>7, LoopExists
  <2>. QED
    BY <1>0, <1>11, <2>1, <2>2, OthersStay
<1>15. Placed'
  <2>1. \A k \in AnyLoop : \A i \in DOMAIN queue'[k] :
            \/ InPlace(k, queue[k][i])'
            \/ \E j \in DOMAIN queue[k] : queue'[k][i] = queue[k][j]
    BY <1>0, <1>11, ChangePlaced
  <2>2. Accepted \subseteq Accepted' /\ \A a \in Accepted : ioLoop'[a] = ioLoop[a]
    BY <1>0, <1>1, <1>7, LoopExists
  <2>. QED
    BY <1>0, <2>1, <2>2, PlacedStays
<1>16. Unborn'
  BY <1>0, <1>1, <1>7 DEF Unborn, Conn
<1>. QED
  BY <1>1, <1>13, <1>14, <1>15, <1>16 DEF Inv, Good

LEMMA InvStep ==
    ASSUME ServerAssumption, Inv, [Next]_vars
    PROVE  Inv'
<1>0. /\ Types /\ Types' /\ Base \in AnyLoop
      /\ queue \in [AnyLoop -> Seq(Functor)]
  BY TypeStep, LoopExists DEF Inv, Types, TypeOK
<1>1. ASSUME UNCHANGED connVars, phase' = "running" => phase = "running", stopped' = stopped,
             \/ queue' = queue
             \/ queue' = Queued(Base, Fn("listen", 0))
             \/ /\ RunNext(Base, Fn("listen", 0))
                /\ queue' = [queue EXCEPT ![Base] = Tail(@)]
      PROVE  Inv'
  <2>1. Fn("listen", 0) \in Functor /\ Fn("listen", 0).op = "listen" /\ Fn("listen", 0).c = 0
    BY FnProperties
  <2>2. InPlace(Base, Fn("listen", 0))'
    BY <2>1 DEF InPlace
  <2>3. \A l \in AnyLoop : Change(l, 0)
    <3>1. CASE queue' = queue
      BY <3>1 DEF Change
    <3>2. CASE queue' = Queued(Base, Fn("listen", 0))
      <4>1. queue'[Base] = Append(queue[Base], Fn("listen", 0))
            /\ \A l \in AnyLoop \ {Base} : queue'[l] = queue[l]
        BY <1>0, <3>2 DEF Queued
      <4>. QED
        BY <2>1, <2>2, <4>1 DEF Change
    <3>3. CASE RunNext(Base, Fn("listen", 0)) /\ queue' = [queue EXCEPT ![Base] = Tail(@)]
      <4>1. /\ queue[Base] # << >> /\ Head(queue[Base]) = Fn("listen", 0)
            /\ queue'[Base] = Tail(queue[Base])
            /\ \A l \in AnyLoop \ {Base} : queue'[l] = queue[l]
        BY <1>0, <3>3 DEF RunNext
      <4>. QED
        BY <2>1, <4>1 DEF Change
    <3>. QED
      BY <1>1, <3>1, <3>2, <3>3
  <2>. QED
    BY <1>0, <1>1, <2>3, QuietStep
<1>2. ASSUME NEW n \in AnyLoop, setThreadNum(n) PROVE Inv'
  BY <1>1, <1>2 DEF setThreadNum
<1>3. ASSUME NEW inLoop \in BOOLEAN, start(inLoop) PROVE Inv'
  BY <1>1, <1>3 DEF start
<1>4. CASE listen
  BY <1>1, <1>4 DEF listen
<1>5. CASE ClientConnects \/ LoopReturns \/ DestroyPool \/ DestroyAcceptor \/ UNCHANGED vars
  BY <1>1, <1>5 DEF ClientConnects, LoopReturns, DestroyPool, DestroyAcceptor, vars
<1>6. CASE newConnection
  BY <1>0, <1>6, NewStep
<1>7. ASSUME NEW c \in Conn, connectEstablished(c) PROVE Inv'
  BY <1>0, <1>7, EstablishStep
<1>8. ASSUME NEW c \in Conn, connectDestroyed(c) PROVE Inv'
  BY <1>0, <1>8, DestroyedStep
<1>9. ASSUME NEW c \in Conn, removeConnectionInLoop(c) PROVE Inv'
  BY <1>0, <1>9, RemoveStep
<1>10. ASSUME NEW c \in Conn, handleClose(c) PROVE Inv'
  BY <1>0, <1>10, CloseStep
<1>11. ASSUME NEW c \in Conn, DestroyConnection(c) PROVE Inv'
  BY <1>0, <1>11, DestroyStep
<1>12. ASSUME NEW l \in 1..MaxThreads, StopLoop(l) PROVE Inv'
  <2>1. l \in AnyLoop \ {Base}
    BY DEF AnyLoop, Base, ServerAssumption
  <2>2. /\ UNCHANGED connVars /\ (phase' = "running" => phase = "running")
        /\ stopped' = stopped \cup {l} /\ queue' = [queue EXCEPT ![l] = << >>]
    BY <1>12 DEF StopLoop
  <2>. QED
    BY <1>0, <2>1, <2>2, QuietStep
<1>. QED
  BY <1>2, <1>3, <1>4, <1>5, <1>6, <1>7, <1>8, <1>9, <1>10, <1>11, <1>12 DEF Next, Functors

LEMMA InitInv ==
    ASSUME ServerAssumption, Init
    PROVE  Inv
<1>0. MaxThreads \in Nat /\ MaxConns \in Nat
  BY DEF ServerAssumption
<1>1. Accepted = {}
  BY DEF Init, Accepted
<1>2. Types
  <2>1. << >> \in Seq(Functor) /\ 0 \in AnyLoop /\ 0 \in 0..MaxConns /\ 1 \in 1..(0 + 1)
    BY <1>0, EmptySeq DEF AnyLoop
  <2>2. /\ ioLoop \in [Conn -> 0..0]
        /\ state \in [Conn -> {"none", "kConnecting", "kConnected", "kDisconnected", "removed"}]
        /\ queue \in [AnyLoop -> Seq(Functor)]
    BY <2>1 DEF Init, Base
  <2>. QED
    BY <1>1, <2>1, <2>2 DEF Init, Types, TypeOK
<1>3. Placed
  BY DEF Init, Placed
<1>4. Unborn
  BY DEF Init, Unborn
<1>. QED
  BY <1>1, <1>2, <1>3, <1>4 DEF Inv

LEMMA InvHolds ==
    ASSUME ServerAssumption
    PROVE  Spec => []Inv
<1>1. Init => Inv
  BY InitInv
<1>2. Inv /\ [Next]_vars => Inv'
  BY InvStep
<1>. QED
  BY <1>1, <1>2, PTL DEF Spec

-----------------------------------------------------------------------------
(* Theorems *)

\* The variables of the server and the acceptor keep their types: next_ stays an index of
\* loops_, and every connection belongs to a loop that exists.
THEOREM TypeCorrect ==
    ASSUME ServerAssumption
    PROVE  Spec => []TypeOK
<1>1. Inv => TypeOK
  BY DEF Inv, Types
<1>. QED
  BY <1>1, InvHolds, PTL

\* A connection that leaves connections_ - closed in its loop, or taken by ~TcpServer while
\* that is under way - has connectDestroyed queued once, in its own loop and behind its
\* connectEstablished.
THEOREM TornDownOnce ==
    ASSUME ServerAssumption
    PROVE  Spec => []OneTeardown
<1>1. ASSUME Inv PROVE OneTeardown
  <2>0. Types /\ Placed /\ \A c \in Accepted : Torn(c)
    BY <1>1 DEF Inv
  <2>1. ASSUME NEW c \in Accepted, NEW l \in (1..loops) \ {ioLoop[c]}, NEW i \in DOMAIN queue[l]
        PROVE  queue[l][i].c # c
    <3>1. l \in AnyLoop /\ l # Base
      BY <2>0 DEF Types, TypeOK, AnyLoop, Base, ServerAssumption
    <3>2. InPlace(l, queue[l][i]) /\ queue[l][i] \in Functor
      BY <2>0, <3>1, LoopExists DEF Placed
    <3>3. c # 0
      BY <2>0 DEF Types, TypeOK, Accepted
    <3>4. queue[l][i].op = "listen" => queue[l][i].c = 0
      BY <3>2 DEF Functor
    <3>. QED
      BY <3>1, <3>2, <3>3, <3>4 DEF InPlace
  <2>. QED
    BY <2>0, <2>1 DEF OneTeardown, Torn
<1>. QED
  BY <1>1, InvHolds, PTL

=============================================================================
