------------------------- MODULE TcpConnectionProofs -------------------------
(***************************************************************************)
(* Proofs about TcpConnection, for any number of application threads and   *)
(* any bounds on what they send: the channel's registration, the teardown, *)
(* the references that keep the connection alive, and the output.          *)
(***************************************************************************)
EXTENDS TcpConnection, SequenceTheorems, FiniteSetTheorems, TLAPS

Functor == RawFunctor \cup StrongFunctor

StrongOps == {"connectEstablished", "connectDestroyed", "writeComplete", "highWater"}

\* What the functors in q call
Ops(q) == {q[i].op : i \in DOMAIN q}

Sock == [wrShut : BOOLEAN, peer : {"open", "fin", "rst"},
         inbound : 0..MaxInbound, err : BOOLEAN]

\* TypeOK without the bound on the bytes; user code runs exactly when it has a place to
\* return to, and send() has a message
Types ==
    /\ state \in State
    /\ channel \in Channel
    /\ outputBuffer \in Seq(Nat) /\ sent \in Seq(Nat) /\ accepted \in Nat
    /\ sock \in Sock
    /\ pc \in {"poll", "events", "user", "closeCallback", "functors", "remove"}
    /\ todo \subseteq {"close", "error", "read", "write"}
    /\ ret \in {"none", "events", "closeCallback", "functors", "remove"}
    /\ pc = "user" <=> ret # "none"
    /\ pending \in Seq(Functor) /\ batch \in Seq(Functor)
    /\ {batchRef, inMap, serverUp} \subseteq BOOLEAN
    /\ removals \in Nat
    /\ holds \in [Remote -> BOOLEAN]
    /\ rcall \in [Remote -> RCall]
    /\ \A r \in Remote : rcall[r].at = "sendChecked" => rcall[r].n \in 1..MaxMessage
    /\ downs \in Nat

\* connectEstablished is the first functor of q and no other one is
EstablishedFirst(q) ==
    q # << >> /\ \A i \in DOMAIN q : q[i].op = "connectEstablished" <=> i = 1

\* connectEstablished runs before anything else happens on the connection, and only once
BornOnce ==
    IF state = "kConnecting"
    THEN /\ channel = NewChannel /\ outputBuffer = << >> /\ ~sock.wrShut /\ downs = 0
         /\ \A r \in Remote : ~holds[r]
         /\ ret = "none"
         /\ \/ pc = "poll" /\ batch = << >> /\ EstablishedFirst(pending)
            \/ pc = "functors" /\ EstablishedFirst(batch)
               /\ "connectEstablished" \notin Ops(pending)
    ELSE "connectEstablished" \notin Ops(pending) \cup Ops(batch)

\* The states of the registration: in the epoll set while the connection is up, parked
\* once its end has been reported, unknown to the poller before and after
Registration ==
    /\ state = "kConnected" => channel.index = "kAdded"
    /\ channel.index = "kAdded" =>
          downs = 0 /\ "read" \in channel.events /\ state \in {"kConnected", "kDisconnecting"}
    /\ channel.index = "kDeleted" => downs = 1 /\ channel.events = {}
    /\ pc = "remove" \/ ret = "remove" => channel.index # "kAdded"
    /\ downs <= 1

\* handleEvent has handlers left only in its own call; those that may close find the
\* channel registered, and there is only one of them
HandlersLeft ==
    /\ ~Guarded => todo = {}
    /\ Guarded => channel.index # "kNew"
    /\ todo \cap {"close", "read"} # {} => channel.index = "kAdded"
    /\ ~({"close", "read"} \subseteq todo)

\* doPendingFunctors leaves nothing of its batch behind
BatchRuns == batch # << >> => pc \in {"functors", "remove"} \/ ret \in {"functors", "remove"}

\* No send() is between its test of state_ and the end of its functor
NoSends ==
    /\ \A r \in Remote : rcall[r].at # "sendChecked"
    /\ (Ops(pending) \cup Ops(batch)) \cap SendOps = {}

\* From shutdown()'s test of state_ on no send() is in flight
Quiet ==
    state = "kDisconnecting" \/ (\E r \in Remote : rcall[r].at = "shutdownChecked") => NoSends

\* The connection is half-closed only after shutdown() has changed state_
ShutDown ==
    sock.wrShut \/ (\E r \in Remote : rcall[r].at = "shutdownSet")
      \/ "shutdownInLoop" \in Ops(pending) \cup Ops(batch)
    => state \notin {"kConnecting", "kConnected"}

\* Until connectDestroyed has run somebody will see to it that it does
Owned ==
    channel.index # "kNew" \/ state = "kConnecting" =>
        \/ inMap
        \/ "connectDestroyed" \in Ops(pending) \cup Ops(batch)
        \/ pc = "remove" \/ ret = "remove"

\* The batch that user code or the second half of connectDestroyed is called from, or
\* that has functors with a TcpConnectionPtr left, has such a functor
BatchHolds ==
    Ops(batch) \cap StrongOps # {} \/ pc = "remove" \/ ret \in {"functors", "remove"} => batchRef

\* Threads that hold a TcpConnectionPtr call send() and shutdown() ...
CallersHold == \A r \in Remote : rcall[r].at # "idle" => holds[r]

\* ... and they wait for the functors with the raw pointer
RawHeld ==
    (Ops(pending) \cup Ops(batch)) \ StrongOps # {} => \E r \in Remote : holds[r]

\* While there is output of a registered connection EPOLLOUT is wanted
OutputWanted == channel.index = "kAdded" => (outputBuffer # << >> => isWriting(channel))

\* While the peer stays and the server exists nothing leads to the end of the connection:
\* no hang-up, no end of the stream, no closeCallback_, no connectDestroyed
EndHasCause ==
    sock.peer = "open" /\ serverUp =>
        /\ downs = 0 /\ removals = 0
        /\ {pc, ret} \cap {"closeCallback", "remove"} = {}
        /\ "connectDestroyed" \notin Ops(pending) \cup Ops(batch)
        /\ "close" \notin todo
        /\ "read" \in todo => sock.inbound > 0
        /\ state # "kConnecting" => channel.index = "kAdded"

-----------------------------------------------------------------------------

Lifecycle ==
    CallersHold /\ BornOnce /\ Registration /\ HandlersLeft /\ BatchRuns /\ Quiet /\ ShutDown

References == Owned /\ BatchHolds /\ RawHeld

Output == OutputWanted /\ FlushBeforeShutdown

\* q holds the bytes that follow the first k
Counts(q, k) == \A i \in 1..Len(q) : q[i] = k + i

\* The n-th byte is n, in the kernel and in outputBuffer_
Numbered == Counts(sent, 0) /\ Counts(outputBuffer, Len(sent))

\* A byte is dropped only on a connection the peer has reset, which takes no other
Dropped ==
    \/ Len(sent) + Len(outputBuffer) = accepted
    \/ sock.peer = "rst" /\ outputBuffer = << >> /\ ~isWriting(channel)

-----------------------------------------------------------------------------
(* The poller's operators *)

\* Channel's enable and disable methods set events_ and update the registration
LEMMA WithEvents ==
    ASSUME NEW ch \in Channel, NEW ev \in SUBSET Event
    PROVE  LET u == updateChannel([ch EXCEPT !.events = ev])
           IN  /\ u \in Channel /\ u.events = ev
               /\ u.index = IF ch.index # "kAdded" \/ ev # {} THEN "kAdded" ELSE "kDeleted"
               /\ BooksAgree(ch) => BooksAgree(u)
<1>u. PICK u : u = updateChannel([ch EXCEPT !.events = ev])
  OBVIOUS
<1>0. /\ ch.index \in Index /\ ch.mapped \in BOOLEAN /\ {} \in SUBSET Event
      /\ "kAdded" \in Index /\ "kDeleted" \in Index
      /\ BooksAgree(ch) /\ ch.index # "kNew" => ch.mapped = TRUE
  BY DEF BooksAgree, Channel, Index
<1>1. CASE ch.index = "kNew"
  <2>1. u = [events |-> ev, index |-> "kAdded", mapped |-> TRUE,
             added |-> TRUE, interest |-> ev]
    BY <1>u, <1>1 DEF updateChannel, Ctl, Channel
  <2>2. u \in Channel
    BY <1>0, <2>1 DEF Channel
  <2>3. /\ u.events = ev /\ u.index = "kAdded" /\ u.mapped = TRUE
        /\ u.added = TRUE /\ u.interest = ev
    BY <2>1
  <2>. QED
    BY <1>u, <1>0, <1>1, <2>2, <2>3 DEF BooksAgree
<1>2. CASE ch.index = "kDeleted"
  <2>1. u = [events |-> ev, index |-> "kAdded", mapped |-> ch.mapped,
             added |-> TRUE, interest |-> ev]
    BY <1>u, <1>2 DEF updateChannel, Ctl, Channel
  <2>2. u \in Channel
    BY <1>0, <2>1 DEF Channel
  <2>3. /\ u.events = ev /\ u.index = "kAdded" /\ u.mapped = ch.mapped
        /\ u.added = TRUE /\ u.interest = ev
    BY <2>1
  <2>. QED
    BY <1>u, <1>0, <1>2, <2>2, <2>3 DEF BooksAgree
<1>3. CASE ch.index = "kAdded" /\ ev = {}
  <2>1. u = [events |-> {}, index |-> "kDeleted", mapped |-> ch.mapped,
             added |-> FALSE, interest |-> {}]
    BY <1>u, <1>3 DEF updateChannel, CtlDel, isNoneEvent, Channel
  <2>2. u \in Channel
    BY <1>0, <2>1 DEF Channel
  <2>3. /\ u.events = {} /\ u.index = "kDeleted" /\ u.mapped = ch.mapped
        /\ u.added = FALSE /\ u.interest = {}
    BY <2>1
  <2>. QED
    BY <1>u, <1>0, <1>3, <2>2, <2>3 DEF BooksAgree
<1>4. CASE ch.index = "kAdded" /\ ev # {}
  <2>1. u = [events |-> ev, index |-> "kAdded", mapped |-> ch.mapped,
             added |-> TRUE, interest |-> ev]
    BY <1>u, <1>4 DEF updateChannel, Ctl, isNoneEvent, Channel
  <2>2. u \in Channel
    BY <1>0, <2>1 DEF Channel
  <2>3. /\ u.events = ev /\ u.index = "kAdded" /\ u.mapped = ch.mapped
        /\ u.added = TRUE /\ u.interest = ev
    BY <2>1
  <2>. QED
    BY <1>u, <1>0, <1>4, <2>2, <2>3 DEF BooksAgree
<1>. QED
  BY <1>0, <1>1, <1>2, <1>3, <1>4 DEF Index

LEMMA RemoveProperties ==
    ASSUME NEW ch \in Channel
    PROVE  LET u == removeChannel(ch)
           IN  /\ u \in Channel /\ u.index = "kNew" /\ u.events = ch.events
               /\ BooksAgree(ch) => BooksAgree(u)
<1>u. PICK u : u = removeChannel(ch)
  OBVIOUS
<1>0. /\ ch.events \in SUBSET Event /\ ch.interest \in SUBSET Event
      /\ ch.added \in BOOLEAN /\ {} \in SUBSET Event /\ "kNew" \in Index
      /\ BooksAgree(ch) /\ ch.index # "kAdded" => ch.added = FALSE
  BY DEF BooksAgree, Channel, Index
<1>1. CASE ch.index = "kAdded"
  <2>1. u = [events |-> ch.events, index |-> "kNew", mapped |-> FALSE,
             added |-> FALSE, interest |-> {}]
    BY <1>u, <1>1 DEF removeChannel, CtlDel, Channel
  <2>2. u \in Channel
    BY <1>0, <2>1 DEF Channel
  <2>3. /\ u.events = ch.events /\ u.index = "kNew" /\ u.mapped = FALSE
        /\ u.added = FALSE /\ u.interest = {}
    BY <2>1
  <2>. QED
    BY <1>u, <1>0, <1>1, <2>2, <2>3 DEF BooksAgree
<1>2. CASE ch.index # "kAdded"
  <2>1. u = [events |-> ch.events, index |-> "kNew", mapped |-> FALSE,
             added |-> ch.added, interest |-> ch.interest]
    BY <1>u, <1>2 DEF removeChannel, CtlDel, Channel
  <2>2. u \in Channel
    BY <1>0, <2>1 DEF Channel
  <2>3. /\ u.events = ch.events /\ u.index = "kNew" /\ u.mapped = FALSE
        /\ u.added = ch.added /\ u.interest = ch.interest
    BY <2>1
  <2>. QED
    BY <1>u, <1>0, <1>2, <2>2, <2>3 DEF BooksAgree
<1>. QED
  BY <1>1, <1>2

\* The five ways in which a connection changes its channel
LEMMA ChannelProperties ==
    ASSUME NEW ch \in Channel, BooksAgree(ch)
    PROVE  /\ LET u == enableReading(ch)
              IN  /\ u \in Channel /\ BooksAgree(u)
                  /\ u.index = "kAdded" /\ u.events = ch.events \cup {"read"}
           /\ LET u == enableWriting(ch)
              IN  /\ u \in Channel /\ BooksAgree(u)
                  /\ u.index = "kAdded" /\ u.events = ch.events \cup {"write"}
           /\ LET u == disableWriting(ch)
              IN  /\ u \in Channel /\ BooksAgree(u)
                  /\ ch.index # "kAdded" \/ "read" \in ch.events => u.index = "kAdded"
                  /\ u.events = ch.events \ {"write"}
           /\ LET u == disableAll(ch)
              IN  /\ u \in Channel /\ BooksAgree(u)
                  /\ u.index = IF ch.index = "kAdded" THEN "kDeleted" ELSE "kAdded"
                  /\ u.events = {}
           /\ LET u == removeChannel(ch)
              IN  /\ u \in Channel /\ BooksAgree(u)
                  /\ u.index = "kNew" /\ u.events = ch.events
<1>1. ch.events \in SUBSET Event
  BY DEF Channel
<1>2. PICK r \in SUBSET Event : r = ch.events \cup {"read"}
  BY <1>1 DEF Event
<1>3. PICK w \in SUBSET Event : w = ch.events \cup {"write"}
  BY <1>1 DEF Event
<1>4. PICK n \in SUBSET Event : n = ch.events \ {"write"}
  BY <1>1
<1>5. PICK z \in SUBSET Event : z = {}
  OBVIOUS
<1>6. enableReading(ch) = updateChannel([ch EXCEPT !.events = r])
  BY <1>2 DEF enableReading
<1>7. enableWriting(ch) = updateChannel([ch EXCEPT !.events = w])
  BY <1>3 DEF enableWriting
<1>8. disableWriting(ch) = updateChannel([ch EXCEPT !.events = n])
  BY <1>4 DEF disableWriting
<1>9. disableAll(ch) = updateChannel([ch EXCEPT !.events = z])
  BY <1>5 DEF disableAll
<1>10. LET u == enableReading(ch)
       IN  /\ u \in Channel /\ BooksAgree(u)
           /\ u.index = "kAdded" /\ u.events = ch.events \cup {"read"}
  BY <1>2, <1>6, WithEvents
<1>11. LET u == enableWriting(ch)
       IN  /\ u \in Channel /\ BooksAgree(u)
           /\ u.index = "kAdded" /\ u.events = ch.events \cup {"write"}
  BY <1>3, <1>7, WithEvents
<1>12. LET u == disableWriting(ch)
       IN  /\ u \in Channel /\ BooksAgree(u)
           /\ ch.index # "kAdded" \/ "read" \in ch.events => u.index = "kAdded"
           /\ u.events = ch.events \ {"write"}
  BY <1>4, <1>8, WithEvents
<1>13. LET u == disableAll(ch)
       IN  /\ u \in Channel /\ BooksAgree(u)
           /\ u.index = IF ch.index = "kAdded" THEN "kDeleted" ELSE "kAdded"
           /\ u.events = {}
  BY <1>5, <1>9, WithEvents
<1>. QED
  BY <1>10, <1>11, <1>12, <1>13, RemoveProperties

-----------------------------------------------------------------------------
(* The functor queue *)

LEMMA OpsEmpty == Ops(<< >>) = {}
BY EmptySeq DEF Ops

LEMMA OpsAppend ==
    ASSUME NEW q \in Seq(Functor), NEW f \in Functor
    PROVE  Append(q, f) \in Seq(Functor) /\ Ops(Append(q, f)) = Ops(q) \cup {f.op}
<1>1. /\ Append(q, f) \in Seq(Functor)
      /\ Len(Append(q, f)) = Len(q) + 1
      /\ \A i \in 1..Len(q) : Append(q, f)[i] = q[i]
      /\ Append(q, f)[Len(q) + 1] = f
  BY AppendProperties
<1>2. DOMAIN Append(q, f) = 1..(Len(q) + 1) /\ DOMAIN q = 1..Len(q) /\ Len(q) \in Nat
  BY <1>1, LenProperties
<1>. QED
  BY <1>1, <1>2 DEF Ops

LEMMA OpsConcat ==
    ASSUME NEW q \in Seq(Functor), NEW r \in Seq(Functor)
    PROVE  q \o r \in Seq(Functor) /\ Ops(q \o r) = Ops(q) \cup Ops(r)
<1>1. PICK c : c = q \o r
  OBVIOUS
<1>2. /\ c \in Seq(Functor) /\ Len(c) = Len(q) + Len(r)
      /\ \A i \in 1..(Len(q) + Len(r)) : c[i] = IF i <= Len(q) THEN q[i] ELSE r[i - Len(q)]
  BY <1>1, ConcatProperties
<1>3. /\ DOMAIN c = 1..(Len(q) + Len(r)) /\ DOMAIN q = 1..Len(q) /\ DOMAIN r = 1..Len(r)
      /\ Len(q) \in Nat /\ Len(r) \in Nat
  BY <1>2, LenProperties
<1>4. \A i \in DOMAIN q : i \in DOMAIN c /\ c[i] = q[i]
  BY <1>2, <1>3
<1>5. \A i \in DOMAIN r : i + Len(q) \in DOMAIN c /\ c[i + Len(q)] = r[i]
  BY <1>2, <1>3
<1>6. \A i \in DOMAIN c : \/ i \in DOMAIN q /\ c[i] = q[i]
                          \/ i - Len(q) \in DOMAIN r /\ c[i] = r[i - Len(q)]
  BY <1>2, <1>3
<1>7. Ops(c) = Ops(q) \cup Ops(r)
  BY <1>4, <1>5, <1>6 DEF Ops
<1>. QED
  BY <1>1, <1>2, <1>7

LEMMA OpsTail ==
    ASSUME NEW q \in Seq(Functor), q # << >>
    PROVE  /\ Head(q) \in Functor /\ Tail(q) \in Seq(Functor)
           /\ Ops(q) = {Head(q).op} \cup Ops(Tail(q))
<1>1. PICK h : h = Head(q)
  OBVIOUS
<1>2. PICK t : t = Tail(q)
  OBVIOUS
<1>3. /\ h = q[1] /\ h \in Functor /\ t \in Seq(Functor)
      /\ Len(t) = Len(q) - 1
      /\ \A i \in 1..Len(t) : t[i] = q[i + 1]
  BY <1>1, <1>2, HeadTailProperties
<1>4. /\ DOMAIN t = 1..(Len(q) - 1) /\ DOMAIN q = 1..Len(q)
      /\ Len(q) \in Nat /\ Len(q) > 0
  BY <1>3, LenProperties, EmptySeq
<1>5. ASSUME NEW i \in DOMAIN q, i # 1 PROVE i - 1 \in DOMAIN t /\ t[i - 1] = q[i]
  <2>1. i - 1 \in 1..Len(t) /\ (i - 1) + 1 = i
    BY <1>3, <1>4, <1>5
  <2>. QED
    BY <1>3, <1>4, <2>1
<1>6. \A i \in DOMAIN t : i + 1 \in DOMAIN q /\ t[i] = q[i + 1]
  BY <1>3, <1>4
<1>7. 1 \in DOMAIN q
  BY <1>4
<1>8. Ops(q) = {h.op} \cup Ops(t)
  <2>1. \A i \in DOMAIN q : q[i].op \in {h.op} \cup Ops(t)
    BY <1>3, <1>5 DEF Ops
  <2>2. \A i \in DOMAIN t : t[i].op \in Ops(q)
    BY <1>6 DEF Ops
  <2>3. h.op \in Ops(q)
    BY <1>3, <1>7 DEF Ops
  <2>. QED
    BY <2>1, <2>2, <2>3 DEF Ops
<1>. QED
  BY <1>1, <1>2, <1>3, <1>8

\* A functor is known by its op
LEMMA FunctorOps ==
    ASSUME BoundsAssumption, NEW f \in Functor
    PROVE  /\ f.op \in StrongOps \cup SendOps \cup {"shutdownInLoop"}
           /\ f \in StrongFunctor <=> f.op \in StrongOps
           /\ f \in RawFunctor <=> f.op \notin StrongOps
           /\ f.op \in SendOps => f.n \in 1..MaxMessage
BY DEF Functor, StrongFunctor, RawFunctor, StrongOps, SendOps

LEMMA FnProperties ==
    ASSUME NEW op \in StrongOps \cup {"shutdownInLoop"}
    PROVE  Fn(op) \in Functor /\ Fn(op).op = op
BY DEF Functor, StrongFunctor, RawFunctor, StrongOps, Fn

LEMMA QueueRefs ==
    ASSUME BoundsAssumption, NEW q \in Seq(Functor)
    PROVE  /\ HasRef(q) <=> Ops(q) \cap StrongOps # {}
           /\ HasRaw(q) <=> Ops(q) \ StrongOps # {}
           /\ Ops(q) \subseteq StrongOps \cup SendOps \cup {"shutdownInLoop"}
           /\ q # << >> <=> Ops(q) # {}
<1>1. \A i \in DOMAIN q : q[i] \in Functor
  OBVIOUS
<1>2. \A i \in DOMAIN q : /\ q[i].op \in StrongOps \cup SendOps \cup {"shutdownInLoop"}
                          /\ q[i] \in StrongFunctor <=> q[i].op \in StrongOps
                          /\ q[i] \in RawFunctor <=> q[i].op \notin StrongOps
  BY <1>1, FunctorOps
<1>3. q # << >> <=> Ops(q) # {}
  BY OpsEmpty, OpsTail
<1>. QED
  BY <1>2, <1>3 DEF HasRef, HasRaw, Ops

LEMMA EstablishedAppend ==
    ASSUME NEW q \in Seq(Functor), NEW f \in Functor, EstablishedFirst(q),
           f.op # "connectEstablished"
    PROVE  EstablishedFirst(Append(q, f))
<1>1. PICK a : a = Append(q, f)
  OBVIOUS
<1>2. /\ a \in Seq(Functor) /\ Len(a) = Len(q) + 1
      /\ \A i \in 1..Len(q) : a[i] = q[i]
      /\ a[Len(q) + 1] = f
  BY <1>1, AppendProperties
<1>3. /\ DOMAIN a = 1..(Len(q) + 1) /\ DOMAIN q = 1..Len(q)
      /\ Len(q) \in Nat /\ Len(q) > 0
  BY <1>2, LenProperties, EmptySeq DEF EstablishedFirst
<1>4. a # << >>
  BY <1>2, <1>3, EmptySeq
<1>5. \A i \in DOMAIN a : a[i].op = "connectEstablished" <=> i = 1
  BY <1>2, <1>3 DEF EstablishedFirst
<1>. QED
  BY <1>1, <1>4, <1>5 DEF EstablishedFirst

LEMMA EstablishedHead ==
    ASSUME NEW q \in Seq(Functor), EstablishedFirst(q)
    PROVE  Head(q).op = "connectEstablished" /\ "connectEstablished" \notin Ops(Tail(q))
<1>1. PICK t : t = Tail(q)
  OBVIOUS
<1>2. /\ Head(q) = q[1] /\ t \in Seq(Functor) /\ Len(t) = Len(q) - 1
      /\ \A i \in 1..Len(t) : t[i] = q[i + 1]
  BY <1>1, HeadTailProperties DEF EstablishedFirst
<1>3. /\ DOMAIN t = 1..(Len(q) - 1) /\ DOMAIN q = 1..Len(q)
      /\ Len(q) \in Nat /\ Len(q) > 0
  BY <1>2, LenProperties, EmptySeq DEF EstablishedFirst
<1>4. \A i \in DOMAIN t : t[i].op # "connectEstablished"
  BY <1>2, <1>3 DEF EstablishedFirst
<1>. QED
  BY <1>1, <1>2, <1>3, <1>4 DEF EstablishedFirst, Ops

\* Nothing is in flight when its count is zero
LEMMA NothingInFlight ==
    ASSUME BoundsAssumption, Types, InFlight = 0
    PROVE  NoSends
<1>. DEFINE R == {r \in Remote : rcall[r].at = "sendChecked"}
<1>1. R \in SUBSET Remote /\ IsFiniteSet(Remote)
  BY DEF BoundsAssumption
<1>2. IsFiniteSet(R)
  BY <1>1, FS_Subset
<1>3. ASSUME NEW q \in Seq(Functor)
      PROVE  /\ IsFiniteSet(SendsIn(q))
             /\ SendsIn(q) = {} => Ops(q) \cap SendOps = {}
  <2>1. SendsIn(q) \in SUBSET (1..Len(q)) /\ Len(q) \in Int /\ 1 \in Int
    BY LenProperties DEF SendsIn
  <2>2. IsFiniteSet(1..Len(q))
    BY <2>1, FS_Interval
  <2>3. IsFiniteSet(SendsIn(q))
    BY <2>1, <2>2, FS_Subset
  <2>. QED
    BY <2>3 DEF SendsIn, Ops
<1>4. PICK a \in Nat, b \in Nat, c \in Nat :
          a = Cardinality(R) /\ b = Cardinality(SendsIn(pending)) /\ c = Cardinality(SendsIn(batch))
  BY <1>2, <1>3, FS_CardinalityType DEF Types
<1>5. a = 0 /\ b = 0 /\ c = 0
  <2>1. InFlight = a + b + c
    BY <1>4, Zenon DEF InFlight
  <2>. QED
    BY <2>1
<1>6. R = {} /\ SendsIn(pending) = {} /\ SendsIn(batch) = {}
  BY <1>2, <1>3, <1>4, <1>5, FS_EmptySet DEF Types
<1>. QED
  BY <1>3, <1>6 DEF NoSends, Types

-----------------------------------------------------------------------------
(* What the parts of an action do *)

Typed == Types /\ PollerAgrees

LEMMA NextFunctorEffect ==
    ASSUME BoundsAssumption, Types, NEW op, NextFunctor(op)
    PROVE  /\ pc = "functors" /\ ret = "none" /\ batchRef' = batchRef
           /\ Head(batch) \in Functor /\ Head(batch).op = op
           /\ op \in SendOps => Head(batch).n \in 1..MaxMessage
           /\ batch' \in Seq(Functor) /\ Ops(batch) = {op} \cup Ops(batch')
<1>1. /\ pc = "functors" /\ batch \in Seq(Functor) /\ batch # << >>
      /\ Head(batch).op = op /\ batch' = Tail(batch) /\ batchRef' = batchRef
  BY DEF NextFunctor, Types
<1>2. ret = "none"
  BY <1>1 DEF Types
<1>. QED
  BY <1>1, <1>2, OpsTail, FunctorOps

LEMMA QueueEffect ==
    ASSUME Types, NEW op \in StrongOps \cup {"shutdownInLoop"},
           pending' = Append(pending, Fn(op))
    PROVE  /\ pending' \in Seq(Functor) /\ Ops(pending') = Ops(pending) \cup {op}
           /\ EstablishedFirst(pending) /\ op # "connectEstablished" => EstablishedFirst(pending')
<1>1. PICK f \in Functor : f = Fn(op) /\ f.op = op
  BY FnProperties
<1>2. pending' = Append(pending, f) /\ pending \in Seq(Functor)
  BY <1>1 DEF Types
<1>. QED
  BY <1>1, <1>2, OpsAppend, EstablishedAppend

LEMMA SendQueueEffect ==
    ASSUME BoundsAssumption, Types, NEW r \in Remote, NEW op \in SendOps, RemoteSendQueue(r, op)
    PROVE  pending' \in Seq(Functor) /\ Ops(pending') = Ops(pending) \cup {op}
<1>1. rcall[r].n \in 1..MaxMessage /\ pending \in Seq(Functor)
  BY DEF RemoteSendQueue, Types
<1>2. PICK f \in Functor : f = [op |-> op, n |-> rcall[r].n]
  BY <1>1 DEF Functor, RawFunctor
<1>3. f.op = op /\ pending' = Append(pending, f)
  BY <1>2 DEF RemoteSendQueue
<1>. QED
  BY <1>1, <1>3, OpsAppend

\* The functor of a callback that is due, if the callback is set
LEMMA ToldProperties ==
    ASSUME NEW op \in {"writeComplete", "highWater"}, NEW isDue, NEW q \in Told(op, isDue)
    PROVE  q \in Seq(Functor) /\ Ops(q) \subseteq {op}
<1>1. PICK f \in Functor : f = Fn(op) /\ f.op = op
  BY FnProperties DEF StrongOps
<1>2. q = << >> \/ q = <<f>>
  BY <1>1, Zenon DEF Told
<1>3. CASE q = <<f>>
  BY <1>1, <1>3 DEF Ops
<1>4. CASE q = << >>
  BY <1>4, OpsEmpty, EmptySeq
<1>. QED
  BY <1>2, <1>3, <1>4

\* writeComplete and highWater functors at the end of the queue
LEMMA NoticesEffect ==
    ASSUME NEW p \in Seq(Functor), NEW isDone, NEW isHigh,
           NEW done \in Told("writeComplete", isDone), NEW high \in Told("highWater", isHigh)
    PROVE  /\ p \o done \o high \in Seq(Functor) /\ Ops(p) \subseteq Ops(p \o done \o high)
           /\ Ops(p \o done \o high) \subseteq Ops(p) \cup {"writeComplete", "highWater"}
           /\ p \o done \in Seq(Functor) /\ Ops(p) \subseteq Ops(p \o done)
           /\ Ops(p \o done) \subseteq Ops(p) \cup {"writeComplete"}
<1>1. done \in Seq(Functor) /\ Ops(done) \subseteq {"writeComplete"}
  BY ToldProperties
<1>2. high \in Seq(Functor) /\ Ops(high) \subseteq {"highWater"}
  BY ToldProperties
<1>3. p \o done \in Seq(Functor) /\ Ops(p \o done) = Ops(p) \cup Ops(done)
  BY <1>1, OpsConcat
<1>4. PICK s \in Seq(Functor) : s = p \o done
  BY <1>3
<1>5. s \o high \in Seq(Functor) /\ Ops(s \o high) = Ops(s) \cup Ops(high)
  BY <1>2, <1>4, OpsConcat
<1>. QED
  BY <1>1, <1>2, <1>3, <1>4, <1>5

\* The queue after handleWrite
LEMMA WriteNotice ==
    ASSUME Types, HandleWriteSome
    PROVE  /\ pending' \in Seq(Functor) /\ Ops(pending) \subseteq Ops(pending')
           /\ Ops(pending') \subseteq Ops(pending) \cup {"writeComplete"}
<1>1. PICK isDone : \E done \in Told("writeComplete", isDone) : pending' = pending \o done
  BY Zenon DEF HandleWriteSome
<1>2. PICK done \in Told("writeComplete", isDone) : pending' = pending \o done
  BY <1>1
<1>3. PICK high : high \in Told("highWater", FALSE)
  BY DEF Told
<1>4. pending \in Seq(Functor)
  BY DEF Types
<1>. QED
  BY <1>2, <1>3, <1>4, NoticesEffect

\* The n bytes of a message
LEMMA BytesProperties ==
    ASSUME Types, NEW n \in Nat, NEW intact
    PROVE  /\ Bytes(n, intact) \in Seq(Nat) /\ Len(Bytes(n, intact)) = n
           /\ \A i \in 1..n : Bytes(n, TRUE)[i] = accepted + i
BY DEF Bytes, Types

LEMMA Prefix ==
    ASSUME NEW s \in Seq(Nat), NEW k \in 0..Len(s)
    PROVE  /\ SubSeq(s, 1, k) \in Seq(Nat) /\ Len(SubSeq(s, 1, k)) = k
           /\ \A i \in 1..k : SubSeq(s, 1, k)[i] = s[i]
<1>1. Len(s) \in Nat /\ k \in Nat /\ k <= Len(s)
  BY LenProperties
<1>. QED
  BY <1>1

LEMMA Suffix ==
    ASSUME NEW s \in Seq(Nat), NEW k \in 0..Len(s)
    PROVE  /\ SubSeq(s, k + 1, Len(s)) \in Seq(Nat)
           /\ Len(SubSeq(s, k + 1, Len(s))) = Len(s) - k
           /\ \A i \in 1..(Len(s) - k) : SubSeq(s, k + 1, Len(s))[i] = s[k + i]
<1>1. Len(s) \in Nat /\ k \in Nat /\ k <= Len(s)
  BY LenProperties
<1>. QED
  BY <1>1

\* sendInLoop that writes: the bytes a go to the kernel, the rest r to outputBuffer_
LEMMA WritesEffect ==
    ASSUME BoundsAssumption, Typed, NEW n \in 1..MaxMessage, NEW intact,
           SendWrites(n, intact)
    PROVE  \E nwrote \in 0..n, a \in Seq(Nat), r \in Seq(Nat) :
             /\ Direct \/ nwrote = 0
             /\ Len(a) = nwrote /\ \A i \in 1..nwrote : a[i] = Bytes(n, intact)[i]
             /\ Len(r) = n - nwrote
             /\ \A i \in 1..(n - nwrote) : r[i] = Bytes(n, intact)[nwrote + i]
             /\ sent' = sent \o a /\ outputBuffer' = outputBuffer \o r
             /\ channel' = Interest(r)
             /\ pending' \in Seq(Functor) /\ Ops(pending) \subseteq Ops(pending')
             /\ Ops(pending') \subseteq Ops(pending) \cup {"writeComplete", "highWater"}
<1>0. n \in Nat /\ Types
  BY DEF BoundsAssumption, Typed
<1>1. PICK nwrote \in 0..(IF Direct THEN n ELSE 0) :
         LET remaining == SubSeq(Bytes(n, intact), nwrote + 1, n)
             oldLen == Len(outputBuffer)
             newLen == oldLen + n - nwrote
             crossing == remaining # << >> /\ newLen >= HighWaterMark /\ oldLen < HighWaterMark
         IN  /\ sent' = sent \o SubSeq(Bytes(n, intact), 1, nwrote)
             /\ outputBuffer' = outputBuffer \o remaining
             /\ channel' = Interest(remaining)
             /\ \E done \in Told("writeComplete", remaining = << >>),
                   high \in Told("highWater", crossing) : pending' = pending \o done \o high
  BY DEF SendWrites
<1>2. nwrote \in 0..n /\ (Direct \/ nwrote = 0)
  BY <1>0
<1>3. PICK a : a = SubSeq(Bytes(n, intact), 1, nwrote)
  OBVIOUS
<1>4. PICK r : r = SubSeq(Bytes(n, intact), nwrote + 1, n)
  OBVIOUS
<1>5. /\ a \in Seq(Nat) /\ Len(a) = nwrote /\ \A i \in 1..nwrote : a[i] = Bytes(n, intact)[i]
      /\ r \in Seq(Nat) /\ Len(r) = n - nwrote
      /\ \A i \in 1..(n - nwrote) : r[i] = Bytes(n, intact)[nwrote + i]
  <2>1. PICK b : b = Bytes(n, intact)
    OBVIOUS
  <2>2. b \in Seq(Nat) /\ Len(b) = n
    <3>1. Bytes(n, intact) \in Seq(Nat) /\ Len(Bytes(n, intact)) = n
      BY <1>0, BytesProperties
    <3>. QED
      BY <2>1, <3>1, Zenon
  <2>3. PICK k \in 0..Len(b) : k = nwrote
    BY <1>2, <2>2
  <2>4. a = SubSeq(b, 1, k) /\ r = SubSeq(b, k + 1, Len(b))
    BY <1>3, <1>4, <2>1, <2>2, <2>3, Zenon
  <2>5. /\ a \in Seq(Nat) /\ Len(a) = k /\ \A i \in 1..k : a[i] = b[i]
        /\ r \in Seq(Nat) /\ Len(r) = Len(b) - k
        /\ \A i \in 1..(Len(b) - k) : r[i] = b[k + i]
    BY <2>2, <2>4, Prefix, Suffix, Zenon
  <2>. QED
    BY <2>1, <2>2, <2>3, <2>5, Zenon
<1>6. sent' = sent \o a /\ outputBuffer' = outputBuffer \o r /\ channel' = Interest(r)
  BY <1>1, <1>3, <1>4, Zenon
<1>7. PICK w, h : /\ w = (r = << >>)
                  /\ h = (r # << >> /\ Len(outputBuffer) + n - nwrote >= HighWaterMark
                                     /\ Len(outputBuffer) < HighWaterMark)
  BY Zenon
<1>8. PICK done \in Told("writeComplete", w), high \in Told("highWater", h) :
           pending' = pending \o done \o high
  BY <1>1, <1>4, <1>7, Zenon
<1>9. pending \in Seq(Functor)
  BY <1>0 DEF Types
<1>10. /\ pending' \in Seq(Functor) /\ Ops(pending) \subseteq Ops(pending')
       /\ Ops(pending') \subseteq Ops(pending) \cup {"writeComplete", "highWater"}
  BY <1>8, <1>9, NoticesEffect
<1>. QED
  BY <1>2, <1>5, <1>6, <1>10

LEMMA SendEffect ==
    ASSUME BoundsAssumption, Typed, NEW n \in 1..MaxMessage, NEW intact,
           sendInLoop(n, intact)
    PROVE  /\ state' = state /\ sock' = sock /\ downs' = downs
           /\ pending' \in Seq(Functor) /\ Ops(pending) \subseteq Ops(pending')
           /\ Ops(pending') \subseteq Ops(pending) \cup {"writeComplete", "highWater"}
           /\ outputBuffer' \in Seq(Nat) /\ sent' \in Seq(Nat) /\ accepted' \in Nat
           /\ channel' \in Channel /\ BooksAgree(channel')
           /\ state = "kDisconnected" => channel' = channel /\ outputBuffer' = outputBuffer
           /\ channel.index = "kAdded" =>
                 channel'.index = "kAdded" /\ channel.events \subseteq channel'.events
           /\ (outputBuffer # << >> => isWriting(channel)) =>
                 (outputBuffer' # << >> => isWriting(channel'))
<1>0. /\ n \in Nat /\ Types /\ channel \in Channel /\ BooksAgree(channel)
      /\ outputBuffer \in Seq(Nat) /\ sent \in Seq(Nat) /\ accepted \in Nat
      /\ pending \in Seq(Functor)
  BY DEF BoundsAssumption, Typed, Types, PollerAgrees
<1>1. state' = state /\ sock' = sock /\ downs' = downs
  BY DEF sendInLoop
<1>2. CASE SendRefused
  BY <1>0, <1>1, <1>2 DEF SendRefused
<1>3. CASE SendFault(n)
  <2>1. /\ outputBuffer' = outputBuffer /\ sent' = sent /\ channel' = channel
        /\ pending' = pending /\ accepted' = accepted + n /\ state # "kDisconnected"
    BY <1>3 DEF SendFault
  <2>. QED
    BY <1>0, <1>1, <2>1
<1>4. CASE SendWrites(n, intact)
  <2>1. PICK nwrote \in 0..n, a \in Seq(Nat), r \in Seq(Nat) :
             /\ Direct \/ nwrote = 0
             /\ Len(a) = nwrote /\ \A i \in 1..nwrote : a[i] = Bytes(n, intact)[i]
             /\ Len(r) = n - nwrote
             /\ \A i \in 1..(n - nwrote) : r[i] = Bytes(n, intact)[nwrote + i]
             /\ sent' = sent \o a /\ outputBuffer' = outputBuffer \o r
             /\ channel' = Interest(r)
             /\ pending' \in Seq(Functor) /\ Ops(pending) \subseteq Ops(pending')
             /\ Ops(pending') \subseteq Ops(pending) \cup {"writeComplete", "highWater"}
    BY <1>4, WritesEffect, Zenon
  <2>2. accepted' = accepted + n /\ state # "kDisconnected"
    BY <1>4 DEF SendWrites
  <2>3. accepted' \in Nat
    BY <1>0, <2>2
  <2>4. sent' \in Seq(Nat) /\ outputBuffer' \in Seq(Nat)
    BY <1>0, <2>1
  <2>5. outputBuffer' # << >> => outputBuffer # << >> \/ r # << >>
    BY <1>0, <2>1
  <2>6. CASE r = << >> \/ isWriting(channel)
    <3>1. channel' = channel
      BY <2>1, <2>6 DEF Interest
    <3>. QED
      BY <1>0, <1>1, <2>1, <2>2, <2>3, <2>4, <2>5, <2>6, <3>1
  <2>7. CASE ~(r = << >> \/ isWriting(channel))
    <3>1. channel' = enableWriting(channel)
      BY <2>1, <2>7 DEF Interest
    <3>2. /\ channel' \in Channel /\ BooksAgree(channel')
          /\ channel'.index = "kAdded" /\ channel'.events = channel.events \cup {"write"}
      BY <1>0, <3>1, ChannelProperties
    <3>. QED
      BY <1>0, <1>1, <2>1, <2>2, <2>3, <2>4, <3>2 DEF isWriting
  <2>. QED
    BY <2>6, <2>7
<1>. QED
  BY <1>2, <1>3, <1>4 DEF sendInLoop

LEMMA ShutdownEffect ==
    ASSUME Typed, shutdownInLoop
    PROVE  /\ sock' \in Sock
           /\ sock'.wrShut = (sock.wrShut \/ ~isWriting(channel))
           /\ sock'.peer = sock.peer
           /\ channel' = channel /\ outputBuffer' = outputBuffer /\ sent' = sent
           /\ accepted' = accepted /\ pending' = pending /\ downs' = downs
<1>1. PICK b \in BOOLEAN : b = (sock.wrShut \/ MayHalfClose)
  OBVIOUS
<1>2. sock' = [sock EXCEPT !.wrShut = b]
  BY <1>1 DEF shutdownInLoop
<1>3. sock' \in Sock /\ sock'.wrShut = b /\ sock'.peer = sock.peer
  BY <1>2 DEF Typed, Types, Sock
<1>. QED
  BY <1>1, <1>3 DEF shutdownInLoop, MayHalfClose

\* What epoll_wait reports: EPOLLHUP alone is handled as a close, and EPOLLIN as a read
LEMMA ReportsProperties ==
    ASSUME NEW x \in Reports
    PROVE  /\ x \subseteq {"close", "error", "read", "write"} /\ ~({"close", "read"} \subseteq x)
           /\ sock.peer = "open" => "close" \notin x /\ ("read" \in x => sock.inbound > 0)
<1>. DEFINE readable == sock.inbound > 0 \/ sock.peer # "open"
            hangup == sock.peer = "rst" \/ (sock.peer = "fin" /\ sock.wrShut)
            in == IF "read" \in channel.interest /\ readable THEN {"read"} ELSE {}
            err == IF sock.err THEN {"error"} ELSE {}
            out == IF "write" \in channel.interest THEN {{}, {"write"}} ELSE {{}}
            alone == IF hangup /\ sock.inbound = 0 THEN {{"close"}} ELSE {}
<1>1. x \in {y \cup err \cup o : y \in {in} \cup alone, o \in out}
  BY DEF Reports
<1>2. /\ in \in {{}, {"read"}} /\ err \in {{}, {"error"}}
      /\ out \subseteq {{}, {"write"}} /\ alone \subseteq {{"close"}}
      /\ sock.peer = "open" => alone = {} /\ (in # {} => sock.inbound > 0)
  OBVIOUS
<1>. HIDE DEF in, err, out, alone
<1>3. PICK y \in {in} \cup alone, o \in out : x = y \cup err \cup o
  BY <1>1
<1>4. y \in {{}, {"read"}, {"close"}} /\ o \in {{}, {"write"}}
  BY <1>2
<1>5. ~({"close", "read"} \subseteq y) /\ y \subseteq {"close", "read"}
  BY <1>4
<1>6. err \subseteq {"error"} /\ o \subseteq {"write"}
  BY <1>2, <1>4
<1>7. sock.peer = "open" => y = in
  BY <1>2
<1>8. sock.peer = "open" => "close" \notin y /\ ("read" \in y => sock.inbound > 0)
  BY <1>2, <1>7
<1>. QED
  BY <1>3, <1>5, <1>6, <1>8

-----------------------------------------------------------------------------
(* Types, and the poller's books *)

LEMMA TypedStep ==
    ASSUME BoundsAssumption, Typed, [Next]_vars
    PROVE  Typed'
<1>. USE DEF Typed, Types, PollerAgrees, connVars, loopVars, serverVars, remoteVars
<1>0. MaxInbound \in Nat /\ MaxMessage \in Nat
  BY DEF BoundsAssumption
<1>1. CASE PeerSend \/ PeerFin \/ PeerReset
  <2>1. CASE PeerSend
    <3>1. PICK k \in 0..MaxInbound : k = sock.inbound + 1
      BY <1>0, <2>1 DEF PeerSend, Sock
    <3>2. sock' = [sock EXCEPT !.inbound = k]
      BY <2>1, <3>1 DEF PeerSend, PeerStep
    <3>3. sock' \in Sock
      BY <3>2 DEF Sock
    <3>. QED
      BY <2>1, <3>3 DEF PeerSend, PeerStep
  <2>2. CASE PeerFin \/ PeerReset
    <3>1. 0 \in 0..MaxInbound
      BY <1>0
    <3>2. sock' \in Sock
      BY <2>2, <3>1 DEF PeerFin, PeerReset, PeerStep, Sock
    <3>. QED
      BY <2>2, <3>2 DEF PeerFin, PeerReset, PeerStep
  <2>. QED
    BY <1>1, <2>1, <2>2
<1>2. ASSUME NEW n \in 1..MaxMessage, LoopSend(n) PROVE Typed'
  <2>1. sendInLoop(n, TRUE)
    BY <1>2 DEF LoopSend
  <2>. QED
    BY <1>2, <2>1, SendEffect DEF LoopSend
<1>3. CASE LoopShutdown
  BY <1>3, ShutdownEffect DEF LoopShutdown, ShuttingDown, State
<1>4. ASSUME NEW r \in Remote, LoopShares(r) PROVE Typed'
  BY <1>4 DEF LoopShares
<1>5. CASE UserReturns
  BY <1>5 DEF UserReturns
<1>6. CASE Dispatch
  <2>1. todo' \subseteq {"close", "error", "read", "write"}
    BY <1>6, ReportsProperties DEF Dispatch
  <2>. QED
    BY <1>6, <2>1 DEF Dispatch
<1>7. CASE HandleHangup \/ HandleReadEnd
  <2>1. channel' \in Channel /\ BooksAgree(channel')
    BY <1>7, ChannelProperties
       DEF HandleHangup, HandleReadEnd, handleClose, ChannelClosed
  <2>. QED
    BY <1>7, <2>1 DEF HandleHangup, HandleReadEnd, handleClose, NextHandler, EnterUser, State
<1>8. CASE CloseCallback
  BY <1>8 DEF CloseCallback
<1>9. CASE HandleError \/ HandleReadError
  <2>1. sock' \in Sock
    BY <1>9 DEF HandleError, HandleReadError, Sock
  <2>. QED
    BY <1>9, <2>1 DEF HandleError, HandleReadError, NextHandler
<1>10. CASE HandleReadData
  <2>1. 0 \in 0..MaxInbound
    BY <1>0
  <2>2. sock' \in Sock
    BY <1>10, <2>1 DEF HandleReadData, Sock
  <2>. QED
    BY <1>10, <2>2 DEF HandleReadData, NextHandler, EnterUser
<1>11. CASE HandleWriteNothing
  BY <1>11 DEF HandleWriteNothing, NextHandler
<1>12. CASE HandleWriteSome
  <2>1. PICK n \in 1..Len(outputBuffer) :
         LET drained == n = Len(outputBuffer)
         IN  /\ sent' = sent \o SubSeq(outputBuffer, 1, n)
             /\ outputBuffer' = SubSeq(outputBuffer, n + 1, Len(outputBuffer))
             /\ channel' = IF drained THEN disableWriting(channel) ELSE channel
             /\ sock' = [sock EXCEPT !.wrShut = @ \/ (drained /\ ShutdownDue)]
    BY <1>12 DEF HandleWriteSome
  <2>2. n \in 0..Len(outputBuffer)
    BY LenProperties
  <2>3. outputBuffer' \in Seq(Nat)
    BY <2>1, <2>2, Suffix
  <2>4. sent' \in Seq(Nat)
    BY <2>1, <2>2, Prefix, ConcatProperties
  <2>5. channel' \in Channel /\ BooksAgree(channel')
    BY <2>1, ChannelProperties
  <2>6. pending' \in Seq(Functor)
    BY <1>12, WriteNotice
  <2>7. sock' \in Sock
    BY <2>1 DEF Sock
  <2>. QED
    BY <1>12, <2>3, <2>4, <2>5, <2>6, <2>7 DEF HandleWriteSome, NextHandler
<1>13. CASE SwapFunctors
  <2>1. batchRef' \in BOOLEAN
    BY <1>13, Zenon DEF SwapFunctors, HasRef
  <2>. QED
    BY <1>13, <2>1, EmptySeq DEF SwapFunctors
<1>14. CASE ConnectEstablished
  <2>1. channel' \in Channel /\ BooksAgree(channel')
    BY <1>14, ChannelProperties DEF ConnectEstablished
  <2>2. batch' \in Seq(Functor) /\ batchRef' = batchRef
    BY <1>14, NextFunctorEffect DEF ConnectEstablished
  <2>. QED
    BY <1>14, <2>1, <2>2 DEF ConnectEstablished, EnterUser, State
<1>15. CASE ConnectDestroyedUp
  <2>1. channel' \in Channel /\ BooksAgree(channel')
    BY <1>15, ChannelProperties DEF ConnectDestroyedUp
  <2>2. batch' \in Seq(Functor) /\ batchRef' = batchRef
    BY <1>15, NextFunctorEffect DEF ConnectDestroyedUp
  <2>. QED
    BY <1>15, <2>1, <2>2 DEF ConnectDestroyedUp, EnterUser, State
<1>16. CASE ConnectDestroyed
  <2>1. channel' \in Channel /\ BooksAgree(channel')
    BY <1>16, ChannelProperties DEF ConnectDestroyed
  <2>2. batch' \in Seq(Functor) /\ batchRef' = batchRef /\ ret = "none"
    BY <1>16, NextFunctorEffect DEF ConnectDestroyed
  <2>. QED
    BY <1>16, <2>1, <2>2 DEF ConnectDestroyed
<1>17. ASSUME NEW op \in SendOps, RunSendInLoop(op) PROVE Typed'
  <2>1. PICK intact : sendInLoop(Head(batch).n, intact)
    BY <1>17 DEF RunSendInLoop
  <2>2. NextFunctor(op)
    BY <1>17 DEF RunSendInLoop
  <2>3. /\ batch' \in Seq(Functor) /\ batchRef' = batchRef
        /\ Head(batch).n \in 1..MaxMessage
    BY <2>2, NextFunctorEffect
  <2>. QED
    BY <1>17, <2>1, <2>3, SendEffect DEF RunSendInLoop
<1>18. CASE RunShutdownInLoop
  <2>1. batch' \in Seq(Functor) /\ batchRef' = batchRef
    BY <1>18, NextFunctorEffect DEF RunShutdownInLoop
  <2>. QED
    BY <1>18, <2>1, ShutdownEffect DEF RunShutdownInLoop
<1>19. CASE RunUserCallback
  <2>1. batch' \in Seq(Functor) /\ batchRef' = batchRef
    BY <1>19, NextFunctorEffect DEF RunUserCallback
  <2>. QED
    BY <1>19, <2>1 DEF RunUserCallback, EnterUser
<1>20. CASE EndFunctors
  <2>1. batchRef' \in BOOLEAN
    BY <1>20, Zenon DEF EndFunctors
  <2>. QED
    BY <1>20, <2>1 DEF EndFunctors
<1>21. CASE RemoveConnectionInLoop
  <2>1. pending' \in Seq(Functor)
    BY <1>21, QueueEffect DEF RemoveConnectionInLoop, StrongOps
  <2>2. inMap' \in BOOLEAN
    BY <1>21, Zenon DEF RemoveConnectionInLoop, EntryErased
  <2>. QED
    BY <1>21, <2>1, <2>2 DEF RemoveConnectionInLoop
<1>22. CASE DestroyServer
  <2>1. pending' \in Seq(Functor)
    BY <1>22, QueueEffect DEF DestroyServer, StrongOps
  <2>2. inMap' \in BOOLEAN /\ serverUp' \in BOOLEAN
    BY <1>22, Zenon DEF DestroyServer
  <2>. QED
    BY <1>22, <2>1, <2>2 DEF DestroyServer
<1>23. ASSUME NEW r \in Remote, NEW n \in 1..MaxMessage, RemoteSend(r, n) PROVE Typed'
  <2>1. rcall' \in [Remote -> RCall]
    BY <1>0, <1>23 DEF RemoteSend, RemoteMoves, RCall
  <2>. QED
    BY <1>23, <2>1 DEF RemoteSend, RemoteMoves
<1>24. ASSUME NEW r \in Remote, NEW op \in SendOps, RemoteSendQueue(r, op) PROVE Typed'
  <2>1. pending' \in Seq(Functor)
    BY <1>24, SendQueueEffect
  <2>2. rcall' \in [Remote -> RCall]
    BY <1>0, <1>24 DEF RemoteSendQueue, RemoteMoves, RCall
  <2>. QED
    BY <1>24, <2>1, <2>2 DEF RemoteSendQueue, RemoteMoves
<1>25. ASSUME NEW r \in Remote, RemoteShutdown(r) PROVE Typed'
  <2>1. rcall' \in [Remote -> RCall]
    BY <1>0, <1>25 DEF RemoteShutdown, RemoteMoves, RCall
  <2>. QED
    BY <1>25, <2>1 DEF RemoteShutdown, RemoteMoves
<1>26. ASSUME NEW r \in Remote, RemoteShutdownSet(r) PROVE Typed'
  <2>1. rcall' \in [Remote -> RCall]
    BY <1>0, <1>26 DEF RemoteShutdownSet, RemoteMoves, RCall
  <2>. QED
    BY <1>26, <2>1 DEF RemoteShutdownSet, RemoteMoves, ShuttingDown, State
<1>27. ASSUME NEW r \in Remote, RemoteShutdownQueue(r) PROVE Typed'
  <2>1. rcall' \in [Remote -> RCall]
    BY <1>0, <1>27 DEF RemoteShutdownQueue, RemoteMoves, RCall
  <2>2. pending' \in Seq(Functor)
    BY <1>27, QueueEffect DEF RemoteShutdownQueue
  <2>. QED
    BY <1>27, <2>1, <2>2 DEF RemoteShutdownQueue, RemoteMoves
<1>28. ASSUME NEW r \in Remote, RemoteRelease(r) PROVE Typed'
  BY <1>28 DEF RemoteRelease
<1>29. CASE DestroyMainLoop
  BY <1>29 DEF DestroyMainLoop
<1>30. CASE UNCHANGED vars
  BY <1>30 DEF vars
<1>. QED
  BY <1>1, <1>2, <1>3, <1>4, <1>5, <1>6, <1>7, <1>8, <1>9, <1>10, <1>11, <1>12, <1>13, <1>14,
     <1>15, <1>16, <1>17, <1>18, <1>19, <1>20, <1>21, <1>22, <1>23, <1>24, <1>25, <1>26, <1>27,
     <1>28, <1>29, <1>30
     DEF Next, Handler, doPendingFunctors, RemoteFinishes

-----------------------------------------------------------------------------
(* From connectEstablished to connectDestroyed *)

\* A functor of send() runs before shutdown() has changed state_, or after the end
LEMMA SendFunctorState ==
    ASSUME BoundsAssumption, Typed, Lifecycle, NEW op \in SendOps, NextFunctor(op)
    PROVE  state \in {"kConnected", "kDisconnected"} /\ Head(batch).n \in 1..MaxMessage
<1>1. Types /\ BornOnce /\ Quiet
  BY DEF Typed, Lifecycle
<1>2. /\ Head(batch).n \in 1..MaxMessage /\ op \in Ops(batch)
      /\ pc = "functors" /\ Head(batch).op = op
  BY <1>1, NextFunctorEffect
<1>3. state # "kConnecting"
  BY <1>1, <1>2, EstablishedHead DEF SendOps, BornOnce, Types
<1>4. state # "kDisconnecting"
  BY <1>1, <1>2 DEF Quiet, NoSends
<1>. QED
  BY <1>1, <1>2, <1>3, <1>4 DEF Types, State

LEMMA LifecycleStep ==
    ASSUME BoundsAssumption, Disciplined, Typed, Typed', Lifecycle, [Next]_vars
    PROVE  Lifecycle'
<1>. USE DEF Lifecycle, CallersHold, BornOnce, Registration, HandlersLeft, BatchRuns, Quiet,
             NoSends, ShutDown, Guarded, connVars, loopVars, serverVars, remoteVars
<1>0. /\ Types /\ BooksAgree(channel) /\ channel \in Channel /\ channel.index \in Index
      /\ pending \in Seq(Functor) /\ batch \in Seq(Functor)
      /\ holds \in [Remote -> BOOLEAN] /\ rcall \in [Remote -> RCall] /\ downs \in Nat
      /\ pc = "user" <=> ret # "none"
  BY DEF Typed, Types, PollerAgrees, Channel
<1>1. CASE PeerSend \/ PeerFin \/ PeerReset
  <2>1. sock'.wrShut = sock.wrShut
    BY <1>1 DEF PeerSend, PeerFin, PeerReset, PeerStep, Typed, Types, Sock
  <2>. QED
    BY <1>1, <2>1 DEF PeerSend, PeerFin, PeerReset, PeerStep
<1>2. ASSUME NEW n \in 1..MaxMessage, LoopSend(n) PROVE Lifecycle'
  <2>1. sendInLoop(n, TRUE) /\ state = "kConnected"
    BY <1>2 DEF LoopSend
  <2>2. /\ state' = state /\ sock' = sock /\ downs' = downs
        /\ Ops(pending') \subseteq Ops(pending) \cup {"writeComplete", "highWater"}
        /\ channel.index = "kAdded" =>
              channel'.index = "kAdded" /\ channel.events \subseteq channel'.events
    BY <2>1, SendEffect
  <2>. QED
    BY <1>2, <2>1, <2>2 DEF LoopSend, SendOps
<1>3. CASE LoopShutdown
  <2>1. NoSends
    BY <1>0, <1>3, NothingInFlight DEF LoopShutdown, MayShutdown
  <2>2. /\ channel' = channel /\ pending' = pending /\ downs' = downs
    BY <1>3, ShutdownEffect DEF LoopShutdown
  <2>. QED
    BY <1>3, <2>1, <2>2 DEF LoopShutdown, ShuttingDown
<1>4. ASSUME NEW r \in Remote, LoopShares(r) PROVE Lifecycle'
  BY <1>0, <1>4 DEF LoopShares
<1>5. CASE UserReturns
  BY <1>0, <1>5 DEF UserReturns
<1>6. CASE Dispatch
  <2>1. ~({"close", "read"} \subseteq todo')
    BY <1>6, ReportsProperties DEF Dispatch
  <2>2. channel.index = "kAdded"
    BY <1>0, <1>6 DEF Dispatch, BooksAgree
  <2>. QED
    BY <1>0, <1>6, <2>1, <2>2 DEF Dispatch
<1>7. CASE HandleHangup \/ HandleReadEnd
  <2>1. channel.index = "kAdded" /\ todo' \cap {"close", "read"} = {} /\ state # "kConnecting"
    BY <1>7 DEF HandleHangup, HandleReadEnd, NextHandler
  <2>2. channel'.index = "kDeleted" /\ channel'.events = {}
    BY <1>0, <1>7, <2>1, ChannelProperties
       DEF HandleHangup, HandleReadEnd, handleClose, ChannelClosed
  <2>. QED
    BY <1>0, <1>7, <2>1, <2>2 DEF HandleHangup, HandleReadEnd, handleClose, NextHandler, EnterUser
<1>8. CASE CloseCallback
  BY <1>0, <1>8 DEF CloseCallback
<1>9. CASE HandleError \/ HandleReadError
  <2>1. sock'.wrShut = sock.wrShut
    BY <1>9 DEF HandleError, HandleReadError, Typed, Types, Sock
  <2>. QED
    BY <1>0, <1>9, <2>1 DEF HandleError, HandleReadError, NextHandler
<1>10. CASE HandleReadData
  <2>1. sock'.wrShut = sock.wrShut
    BY <1>10 DEF HandleReadData, Typed, Types, Sock
  <2>. QED
    BY <1>0, <1>10, <2>1 DEF HandleReadData, NextHandler, EnterUser
<1>11. CASE HandleWriteNothing
  BY <1>0, <1>11 DEF HandleWriteNothing, NextHandler
<1>12. CASE HandleWriteSome
  <2>1. /\ channel' = channel \/ channel' = disableWriting(channel)
        /\ sock'.wrShut => sock.wrShut \/ state = "kDisconnecting"
    <3>1. PICK n \in 1..Len(outputBuffer) :
             LET drained == n = Len(outputBuffer)
             IN  /\ channel' = IF drained THEN disableWriting(channel) ELSE channel
                 /\ sock' = [sock EXCEPT !.wrShut = @ \/ (drained /\ ShutdownDue)]
      BY <1>12 DEF HandleWriteSome
    <3>2. sock'.wrShut = (sock.wrShut \/ (n = Len(outputBuffer) /\ ShutdownDue))
      BY <3>1 DEF Typed, Types, Sock
    <3>. QED
      BY <3>1, <3>2 DEF ShutdownDue
  <2>2. Ops(pending') \subseteq Ops(pending) \cup {"writeComplete"}
    BY <1>0, <1>12, WriteNotice
  <2>3. channel.index = "kAdded" /\ "read" \in channel.events
    <3>1. channel.index # "kNew" /\ channel.events # {}
      BY <1>12 DEF HandleWriteSome, NextHandler, isWriting
    <3>. QED
      BY <1>0, <3>1 DEF Index
  <2>4. channel'.index = "kAdded" /\ "read" \in channel'.events
    BY <1>0, <2>1, <2>3, ChannelProperties
  <2>. QED
    BY <1>0, <1>12, <2>1, <2>2, <2>3, <2>4 DEF HandleWriteSome, NextHandler, SendOps
<1>13. CASE SwapFunctors
  BY <1>0, <1>13, OpsEmpty DEF SwapFunctors
<1>14. CASE ConnectEstablished
  <2>1. /\ pc = "functors" /\ ret = "none" /\ Ops(batch) = {"connectEstablished"} \cup Ops(batch')
    BY <1>0, <1>14, NextFunctorEffect DEF ConnectEstablished
  <2>2. state = "kConnecting" /\ EstablishedFirst(batch)
    BY <2>1
  <2>3. "connectEstablished" \notin Ops(batch') \cup Ops(pending')
    BY <1>0, <1>14, <2>1, <2>2, EstablishedHead DEF ConnectEstablished, NextFunctor
  <2>4. channel'.index = "kAdded" /\ "read" \in channel'.events
    BY <1>0, <1>14, ChannelProperties DEF ConnectEstablished
  <2>. QED
    BY <1>0, <1>14, <2>1, <2>2, <2>3, <2>4 DEF ConnectEstablished, EnterUser
<1>15. CASE ConnectDestroyedUp
  <2>1. /\ pc = "functors" /\ ret = "none" /\ Ops(batch) = {"connectDestroyed"} \cup Ops(batch')
    BY <1>0, <1>15, NextFunctorEffect DEF ConnectDestroyedUp
  <2>2. channel'.index = "kDeleted" /\ channel'.events = {}
    BY <1>0, <1>15, ChannelProperties DEF ConnectDestroyedUp
  <2>. QED
    BY <1>0, <1>15, <2>1, <2>2 DEF ConnectDestroyedUp, EnterUser
<1>16. CASE ConnectDestroyed
  <2>1. /\ ret = "none" /\ Ops(batch') \subseteq Ops(batch) /\ pc \in {"functors", "remove"}
    BY <1>0, <1>16, NextFunctorEffect DEF ConnectDestroyed
  <2>2. state \notin {"kConnecting", "kConnected"}
    <3>1. CASE pc = "remove"
      BY <1>0, <3>1
    <3>2. CASE NextFunctor("connectDestroyed") /\ state # "kConnected"
      BY <1>0, <3>2, EstablishedHead DEF NextFunctor
    <3>. QED
      BY <1>16, <3>1, <3>2 DEF ConnectDestroyed
  <2>3. channel'.index = "kNew"
    BY <1>0, <1>16, ChannelProperties DEF ConnectDestroyed
  <2>. QED
    BY <1>0, <1>16, <2>1, <2>2, <2>3 DEF ConnectDestroyed
<1>17. ASSUME NEW op \in SendOps, RunSendInLoop(op) PROVE Lifecycle'
  <2>1. PICK intact : sendInLoop(Head(batch).n, intact)
    BY <1>17 DEF RunSendInLoop
  <2>2. NextFunctor(op)
    BY <1>17 DEF RunSendInLoop
  <2>3. /\ pc = "functors" /\ ret = "none" /\ Head(batch).n \in 1..MaxMessage
        /\ Ops(batch) = {op} \cup Ops(batch')
    BY <1>0, <2>2, NextFunctorEffect
  <2>4. /\ state' = state /\ sock' = sock /\ downs' = downs
        /\ Ops(pending') \subseteq Ops(pending) \cup {"writeComplete", "highWater"}
        /\ state = "kDisconnected" => channel' = channel
        /\ channel.index = "kAdded" =>
              channel'.index = "kAdded" /\ channel.events \subseteq channel'.events
    BY <2>1, <2>3, SendEffect
  <2>5. state \in {"kConnected", "kDisconnected"}
    BY <2>2, SendFunctorState
  <2>. QED
    BY <1>0, <1>17, <2>3, <2>4, <2>5 DEF RunSendInLoop, SendOps
<1>18. CASE RunShutdownInLoop
  <2>1. /\ pc = "functors" /\ ret = "none" /\ Ops(batch) = {"shutdownInLoop"} \cup Ops(batch')
    BY <1>0, <1>18, NextFunctorEffect DEF RunShutdownInLoop
  <2>2. channel' = channel /\ pending' = pending /\ downs' = downs
    BY <1>18, ShutdownEffect DEF RunShutdownInLoop
  <2>. QED
    BY <1>0, <1>18, <2>1, <2>2 DEF RunShutdownInLoop
<1>19. CASE RunUserCallback
  <2>1. /\ pc = "functors" /\ ret = "none" /\ Ops(batch') \subseteq Ops(batch)
        /\ Head(batch).op \in {"writeComplete", "highWater"}
    BY <1>0, <1>19, NextFunctorEffect DEF RunUserCallback
  <2>2. state # "kConnecting"
    BY <1>0, <2>1, EstablishedHead
  <2>. QED
    BY <1>0, <1>19, <2>1, <2>2 DEF RunUserCallback, EnterUser
<1>20. CASE EndFunctors
  <2>1. state # "kConnecting"
    BY <1>20 DEF EndFunctors, EstablishedFirst
  <2>. QED
    BY <1>0, <1>20, <2>1 DEF EndFunctors
<1>21. CASE RemoveConnectionInLoop \/ DestroyServer
  <2>1. /\ Ops(pending') = Ops(pending) \cup {"connectDestroyed"}
        /\ EstablishedFirst(pending) => EstablishedFirst(pending')
    BY <1>0, <1>21, QueueEffect DEF RemoveConnectionInLoop, DestroyServer, StrongOps
  <2>. QED
    BY <1>0, <1>21, <2>1 DEF RemoveConnectionInLoop, DestroyServer, SendOps
<1>22. ASSUME NEW r \in Remote, NEW n \in 1..MaxMessage, RemoteSend(r, n) PROVE Lifecycle'
  BY <1>0, <1>22 DEF RemoteSend, RemoteMoves, RemoteIdle, MaySend, RCall
<1>23. ASSUME NEW r \in Remote, NEW op \in SendOps, RemoteSendQueue(r, op) PROVE Lifecycle'
  <2>1. Ops(pending') = Ops(pending) \cup {op}
    BY <1>0, <1>23, SendQueueEffect
  <2>. QED
    BY <1>0, <1>23, <2>1 DEF RemoteSendQueue, RemoteMoves, SendOps
<1>24. ASSUME NEW r \in Remote, RemoteShutdown(r) PROVE Lifecycle'
  <2>1. NoSends
    BY <1>0, <1>24, NothingInFlight DEF RemoteShutdown, MayShutdown
  <2>. QED
    BY <1>0, <1>24, <2>1 DEF RemoteShutdown, RemoteMoves, RemoteIdle
<1>25. ASSUME NEW r \in Remote, RemoteShutdownSet(r) PROVE Lifecycle'
  BY <1>0, <1>25 DEF RemoteShutdownSet, RemoteMoves, ShuttingDown
<1>26. ASSUME NEW r \in Remote, RemoteShutdownQueue(r) PROVE Lifecycle'
  <2>1. Ops(pending') = Ops(pending) \cup {"shutdownInLoop"}
    BY <1>0, <1>26, QueueEffect DEF RemoteShutdownQueue
  <2>. QED
    BY <1>0, <1>26, <2>1 DEF RemoteShutdownQueue, RemoteMoves, SendOps
<1>27. ASSUME NEW r \in Remote, RemoteRelease(r) PROVE Lifecycle'
  BY <1>0, <1>27 DEF RemoteRelease, RemoteIdle, Idle
<1>28. CASE DestroyMainLoop
  BY <1>28 DEF DestroyMainLoop
<1>29. CASE UNCHANGED vars
  BY <1>29 DEF vars
<1>. QED
  BY <1>1, <1>2, <1>3, <1>4, <1>5, <1>6, <1>7, <1>8, <1>9, <1>10, <1>11, <1>12, <1>13, <1>14,
     <1>15, <1>16, <1>17, <1>18, <1>19, <1>20, <1>21, <1>22, <1>23, <1>24, <1>25, <1>26, <1>27,
     <1>28, <1>29
     DEF Next, Handler, doPendingFunctors, RemoteFinishes

-----------------------------------------------------------------------------
(* Who keeps the connection *)

LEMMA ReferencesStep ==
    ASSUME BoundsAssumption, Disciplined, Typed, Lifecycle, References, [Next]_vars
    PROVE  References'
<1>. USE DEF References, Owned, BatchHolds, RawHeld, connVars, loopVars, serverVars, remoteVars
<1>0. /\ Types /\ BooksAgree(channel) /\ channel \in Channel
      /\ pending \in Seq(Functor) /\ batch \in Seq(Functor)
      /\ holds \in [Remote -> BOOLEAN]
      /\ pc = "user" <=> ret # "none"
      /\ CallersHold /\ BornOnce /\ Registration /\ HandlersLeft /\ BatchRuns
  BY DEF Typed, Types, PollerAgrees, Lifecycle
<1>1. CASE PeerSend \/ PeerFin \/ PeerReset
  BY <1>1 DEF PeerSend, PeerFin, PeerReset, PeerStep
<1>2. ASSUME NEW n \in 1..MaxMessage, LoopSend(n) PROVE References'
  <2>1. sendInLoop(n, TRUE) /\ state = "kConnected"
    BY <1>2 DEF LoopSend
  <2>2. /\ state' = state /\ Ops(pending) \subseteq Ops(pending')
        /\ Ops(pending') \subseteq Ops(pending) \cup {"writeComplete", "highWater"}
    BY <2>1, SendEffect
  <2>3. channel.index # "kNew"
    BY <1>0, <2>1 DEF Registration
  <2>. QED
    BY <1>2, <2>2, <2>3 DEF LoopSend, StrongOps
<1>3. CASE LoopShutdown
  BY <1>3, ShutdownEffect DEF LoopShutdown, ShuttingDown
<1>4. ASSUME NEW r \in Remote, LoopShares(r) PROVE References'
  BY <1>0, <1>4 DEF LoopShares
<1>5. CASE UserReturns
  BY <1>0, <1>5 DEF UserReturns
<1>6. CASE Dispatch
  BY <1>6 DEF Dispatch
<1>7. CASE HandleHangup \/ HandleReadEnd
  <2>1. channel.index # "kNew"
    BY <1>0, <1>7 DEF HandleHangup, HandleReadEnd, NextHandler, HandlersLeft
  <2>. QED
    BY <1>0, <1>7, <2>1 DEF HandleHangup, HandleReadEnd, handleClose, NextHandler, EnterUser
<1>8. CASE CloseCallback
  BY <1>8 DEF CloseCallback
<1>9. CASE HandleError \/ HandleReadError \/ HandleWriteNothing
  BY <1>9 DEF HandleError, HandleReadError, HandleWriteNothing
<1>10. CASE HandleReadData
  BY <1>0, <1>10 DEF HandleReadData, NextHandler, EnterUser
<1>11. CASE HandleWriteSome
  <2>1. /\ Ops(pending) \subseteq Ops(pending')
        /\ Ops(pending') \subseteq Ops(pending) \cup {"writeComplete"}
    BY <1>0, <1>11, WriteNotice
  <2>2. channel.index # "kNew"
    BY <1>0, <1>11 DEF HandleWriteSome, NextHandler, HandlersLeft, Guarded
  <2>. QED
    BY <1>11, <2>1, <2>2 DEF HandleWriteSome, StrongOps
<1>12. CASE SwapFunctors
  <2>1. Ops(batch) = {} /\ Ops(batch') = Ops(pending) /\ Ops(pending') = {}
    BY <1>0, <1>12, OpsEmpty DEF SwapFunctors, BatchRuns
  <2>2. Ops(pending) \cap StrongOps # {} => batchRef'
    BY <1>0, <1>12, QueueRefs DEF SwapFunctors
  <2>. QED
    BY <1>0, <1>12, <2>1, <2>2 DEF SwapFunctors
<1>13. CASE ConnectEstablished
  <2>1. /\ pc = "functors" /\ ret = "none" /\ batchRef' = batchRef
        /\ Ops(batch) = {"connectEstablished"} \cup Ops(batch')
    BY <1>0, <1>13, NextFunctorEffect DEF ConnectEstablished
  <2>2. state = "kConnecting"
    BY <1>0, <2>1 DEF BornOnce
  <2>. QED
    BY <1>0, <1>13, <2>1, <2>2 DEF ConnectEstablished, EnterUser, StrongOps
<1>14. CASE ConnectDestroyedUp
  <2>1. /\ pc = "functors" /\ ret = "none" /\ batchRef' = batchRef
        /\ Ops(batch) = {"connectDestroyed"} \cup Ops(batch')
    BY <1>0, <1>14, NextFunctorEffect DEF ConnectDestroyedUp
  <2>. QED
    BY <1>0, <1>14, <2>1 DEF ConnectDestroyedUp, EnterUser, StrongOps
<1>15. CASE ConnectDestroyed
  <2>1. /\ ret = "none" /\ Ops(batch') \subseteq Ops(batch) /\ batchRef' = batchRef
        /\ channel'.index = "kNew"
    BY <1>0, <1>15, NextFunctorEffect, ChannelProperties DEF ConnectDestroyed
  <2>2. state # "kConnecting"
    <3>1. CASE pc = "remove"
      BY <1>0, <3>1 DEF BornOnce
    <3>2. CASE NextFunctor("connectDestroyed")
      BY <1>0, <3>2, EstablishedHead DEF NextFunctor, BornOnce
    <3>. QED
      BY <1>15, <3>1, <3>2 DEF ConnectDestroyed
  <2>. QED
    BY <1>15, <2>1, <2>2 DEF ConnectDestroyed
<1>16. ASSUME NEW op \in SendOps, RunSendInLoop(op) PROVE References'
  <2>1. PICK intact : sendInLoop(Head(batch).n, intact)
    BY <1>16 DEF RunSendInLoop
  <2>2. NextFunctor(op)
    BY <1>16 DEF RunSendInLoop
  <2>3. /\ pc = "functors" /\ Head(batch).n \in 1..MaxMessage /\ batchRef' = batchRef
        /\ Ops(batch) = {op} \cup Ops(batch')
    BY <1>0, <2>2, NextFunctorEffect
  <2>4. /\ state' = state /\ Ops(pending) \subseteq Ops(pending')
        /\ Ops(pending') \subseteq Ops(pending) \cup {"writeComplete", "highWater"}
        /\ state = "kDisconnected" => channel' = channel
    BY <2>1, <2>3, SendEffect
  <2>5. state \in {"kConnected", "kDisconnected"}
    BY <2>2, SendFunctorState
  <2>6. channel.index # "kNew" \/ channel' = channel
    BY <1>0, <2>4, <2>5 DEF Registration
  <2>. QED
    BY <1>16, <2>3, <2>4, <2>5, <2>6 DEF RunSendInLoop, SendOps, StrongOps
<1>17. CASE RunShutdownInLoop
  <2>1. /\ Ops(batch) = {"shutdownInLoop"} \cup Ops(batch') /\ batchRef' = batchRef
    BY <1>0, <1>17, NextFunctorEffect DEF RunShutdownInLoop
  <2>2. channel' = channel /\ pending' = pending
    BY <1>17, ShutdownEffect DEF RunShutdownInLoop
  <2>. QED
    BY <1>17, <2>1, <2>2 DEF RunShutdownInLoop
<1>18. CASE RunUserCallback
  <2>1. PICK op \in {"writeComplete", "highWater"} : NextFunctor(op)
    BY <1>18 DEF RunUserCallback
  <2>2. /\ pc = "functors" /\ ret = "none" /\ batchRef' = batchRef
        /\ Ops(batch) = {op} \cup Ops(batch')
    BY <1>0, <2>1, NextFunctorEffect
  <2>. QED
    BY <1>18, <2>2 DEF RunUserCallback, EnterUser, StrongOps
<1>19. CASE EndFunctors
  BY <1>0, <1>19, OpsEmpty DEF EndFunctors
<1>20. CASE RemoveConnectionInLoop \/ DestroyServer
  <2>1. Ops(pending') = Ops(pending) \cup {"connectDestroyed"}
    BY <1>0, <1>20, QueueEffect DEF RemoveConnectionInLoop, DestroyServer, StrongOps
  <2>. QED
    BY <1>20, <2>1 DEF RemoveConnectionInLoop, DestroyServer, StrongOps
<1>21. ASSUME NEW r \in Remote, NEW n \in 1..MaxMessage, RemoteSend(r, n) PROVE References'
  BY <1>21 DEF RemoteSend
<1>22. ASSUME NEW r \in Remote, NEW op \in SendOps, RemoteSendQueue(r, op) PROVE References'
  <2>1. Ops(pending') = Ops(pending) \cup {op}
    BY <1>0, <1>22, SendQueueEffect
  <2>2. holds[r]
    BY <1>0, <1>22 DEF RemoteSendQueue, CallersHold
  <2>. QED
    BY <1>22, <2>1, <2>2 DEF RemoteSendQueue
<1>23. ASSUME NEW r \in Remote, RemoteShutdown(r) PROVE References'
  BY <1>23 DEF RemoteShutdown
<1>24. ASSUME NEW r \in Remote, RemoteShutdownSet(r) PROVE References'
  BY <1>24 DEF RemoteShutdownSet, ShuttingDown
<1>25. ASSUME NEW r \in Remote, RemoteShutdownQueue(r) PROVE References'
  <2>1. Ops(pending') = Ops(pending) \cup {"shutdownInLoop"}
    BY <1>0, <1>25, QueueEffect DEF RemoteShutdownQueue
  <2>2. holds[r]
    BY <1>0, <1>25 DEF RemoteShutdownQueue, CallersHold
  <2>. QED
    BY <1>25, <2>1, <2>2 DEF RemoteShutdownQueue, StrongOps
<1>26. ASSUME NEW r \in Remote, RemoteRelease(r) PROVE References'
  <2>1. (Ops(pending) \cup Ops(batch)) \ StrongOps = {}
    BY <1>0, <1>26, QueueRefs DEF RemoteRelease
  <2>. QED
    BY <1>26, <2>1 DEF RemoteRelease
<1>27. CASE DestroyMainLoop
  BY <1>27 DEF DestroyMainLoop
<1>28. CASE UNCHANGED vars
  BY <1>28 DEF vars
<1>. QED
  BY <1>1, <1>2, <1>3, <1>4, <1>5, <1>6, <1>7, <1>8, <1>9, <1>10, <1>11, <1>12, <1>13, <1>14,
     <1>15, <1>16, <1>17, <1>18, <1>19, <1>20, <1>21, <1>22, <1>23, <1>24, <1>25, <1>26, <1>27,
     <1>28
     DEF Next, Handler, doPendingFunctors, RemoteFinishes

-----------------------------------------------------------------------------
(* The output *)

LEMMA OutputStep ==
    ASSUME BoundsAssumption, Disciplined, Typed, Lifecycle, Output, [Next]_vars
    PROVE  Output'
<1>. USE DEF Output, OutputWanted, FlushBeforeShutdown, connVars
<1>0. /\ Types /\ BooksAgree(channel) /\ channel \in Channel /\ channel.index \in Index
      /\ BornOnce /\ Registration /\ HandlersLeft /\ ShutDown
  BY DEF Typed, Types, PollerAgrees, Lifecycle, Channel
<1>1. CASE PeerSend \/ PeerFin \/ PeerReset
  <2>1. sock'.wrShut = sock.wrShut
    BY <1>1 DEF PeerSend, PeerFin, PeerReset, PeerStep, Typed, Types, Sock
  <2>. QED
    BY <1>1, <2>1 DEF PeerSend, PeerFin, PeerReset, PeerStep
<1>2. ASSUME NEW n \in 1..MaxMessage, LoopSend(n) PROVE Output'
  <2>1. sendInLoop(n, TRUE) /\ state = "kConnected"
    BY <1>2 DEF LoopSend
  <2>2. channel.index = "kAdded" /\ ~sock.wrShut
    BY <1>0, <2>1 DEF Registration, ShutDown
  <2>. QED
    BY <2>1, <2>2, SendEffect
<1>3. CASE LoopShutdown
  <2>1. channel.index = "kAdded" /\ shutdownInLoop
    BY <1>0, <1>3 DEF Registration, LoopShutdown
  <2>. QED
    BY <2>1, ShutdownEffect
<1>4. CASE HandleHangup \/ HandleReadEnd
  <2>1. channel.index = "kAdded"
    BY <1>0, <1>4 DEF HandleHangup, HandleReadEnd, NextHandler, HandlersLeft
  <2>2. channel'.index = "kDeleted"
    BY <1>0, <1>4, <2>1, ChannelProperties
       DEF HandleHangup, HandleReadEnd, handleClose, ChannelClosed
  <2>3. downs' # 0
    BY <1>4 DEF HandleHangup, HandleReadEnd, handleClose, Typed, Types
  <2>. QED
    BY <2>2, <2>3
<1>5. CASE HandleError \/ HandleReadError \/ HandleReadData
  <2>1. sock'.wrShut = sock.wrShut
    BY <1>5 DEF HandleError, HandleReadError, HandleReadData, Typed, Types, Sock
  <2>. QED
    BY <1>5, <2>1 DEF HandleError, HandleReadError, HandleReadData
<1>6. CASE HandleWriteSome
  <2>1. PICK n \in 1..Len(outputBuffer) :
           LET drained == n = Len(outputBuffer)
           IN  /\ outputBuffer' = SubSeq(outputBuffer, n + 1, Len(outputBuffer))
               /\ channel' = IF drained THEN disableWriting(channel) ELSE channel
               /\ sock' = [sock EXCEPT !.wrShut = @ \/ (drained /\ ShutdownDue)]
    BY <1>6 DEF HandleWriteSome
  <2>2. isWriting(channel) /\ ~sock.wrShut
    BY <1>6 DEF HandleWriteSome, Broken
  <2>3. sock'.wrShut => n = Len(outputBuffer)
    BY <2>1, <2>2 DEF Typed, Types, Sock
  <2>4. CASE n = Len(outputBuffer)
    <3>1. /\ outputBuffer \in Seq(Nat) /\ n \in 0..Len(outputBuffer) /\ n = Len(outputBuffer)
          /\ n \in Nat
      BY <1>0, <2>1, <2>4, LenProperties DEF Types
    <3>2. /\ SubSeq(outputBuffer, n + 1, Len(outputBuffer)) \in Seq(Nat)
          /\ Len(SubSeq(outputBuffer, n + 1, Len(outputBuffer))) = Len(outputBuffer) - n
      BY <3>1, Suffix
    <3>3. outputBuffer' \in Seq(Nat) /\ Len(outputBuffer') = 0
      BY <2>1, <3>1, <3>2
    <3>4. outputBuffer' = << >>
      BY <3>3, EmptySeq
    <3>. QED
      BY <3>4
  <2>5. CASE n # Len(outputBuffer)
    BY <2>1, <2>2, <2>3, <2>5
  <2>. QED
    BY <2>4, <2>5
<1>7. CASE ConnectEstablished
  <2>1. /\ pc = "functors" /\ ret = "none" /\ Ops(batch) = {"connectEstablished"} \cup Ops(batch')
    BY <1>0, <1>7, NextFunctorEffect DEF ConnectEstablished
  <2>2. outputBuffer = << >>
    BY <1>0, <2>1 DEF BornOnce
  <2>. QED
    BY <1>7, <2>2 DEF ConnectEstablished
<1>8. CASE ConnectDestroyedUp
  <2>1. channel'.index = "kDeleted"
    BY <1>0, <1>8, ChannelProperties DEF ConnectDestroyedUp, Registration
  <2>2. downs' # 0
    BY <1>8 DEF ConnectDestroyedUp, Typed, Types
  <2>. QED
    BY <2>1, <2>2
<1>9. CASE ConnectDestroyed
  <2>1. channel'.index = "kNew"
    BY <1>0, <1>9, ChannelProperties DEF ConnectDestroyed
  <2>. QED
    BY <2>1
<1>10. ASSUME NEW op \in SendOps, RunSendInLoop(op) PROVE Output'
  <2>1. PICK intact : sendInLoop(Head(batch).n, intact)
    BY <1>10 DEF RunSendInLoop
  <2>2. NextFunctor(op)
    BY <1>10 DEF RunSendInLoop
  <2>3. state \in {"kConnected", "kDisconnected"} /\ Head(batch).n \in 1..MaxMessage
    BY <2>2, SendFunctorState
  <2>4. CASE state = "kConnected"
    <3>1. channel.index = "kAdded" /\ ~sock.wrShut
      BY <1>0, <2>4 DEF Registration, ShutDown
    <3>. QED
      BY <2>1, <2>3, <3>1, SendEffect
  <2>5. CASE state = "kDisconnected"
    BY <2>1, <2>3, <2>5, SendEffect
  <2>. QED
    BY <2>3, <2>4, <2>5
<1>11. CASE RunShutdownInLoop
  <2>1. downs = 0 /\ channel.index # "kNew" => channel.index = "kAdded"
    BY <1>0 DEF Registration, Index
  <2>2. shutdownInLoop
    BY <1>11 DEF RunShutdownInLoop
  <2>. QED
    BY <2>1, <2>2, ShutdownEffect
<1>12. CASE UNCHANGED <<channel, outputBuffer, sock, downs>>
  BY <1>12
<1>. QED
  BY <1>1, <1>2, <1>3, <1>4, <1>5, <1>6, <1>7, <1>8, <1>9, <1>10, <1>11, <1>12
     DEF Next, vars, LoopShares, UserReturns, Dispatch, Handler, CloseCallback,
         HandleWriteNothing, doPendingFunctors, SwapFunctors, EndFunctors, RunUserCallback,
         RemoveConnectionInLoop, DestroyServer, DestroyMainLoop, RemoteSend, RemoteShutdown,
         RemoteFinishes,
         RemoteSendQueue, RemoteShutdownSet, RemoteShutdownQueue, RemoteRelease

Stream == Numbered /\ Dropped

LEMMA CountsConcat ==
    ASSUME NEW q \in Seq(Nat), NEW r \in Seq(Nat), NEW k \in Nat,
           Counts(q, k), Counts(r, k + Len(q))
    PROVE  Counts(q \o r, k) /\ Len(q \o r) = Len(q) + Len(r)
<1>1. PICK c : c = q \o r
  OBVIOUS
<1>2. PICK lq \in Nat, lr \in Nat : lq = Len(q) /\ lr = Len(r)
  BY LenProperties
<1>3. /\ Len(c) = lq + lr
      /\ \A i \in 1..(lq + lr) : c[i] = IF i <= lq THEN q[i] ELSE r[i - lq]
  BY <1>1, <1>2, ConcatProperties
<1>4. \A i \in 1..lq : q[i] = k + i
  BY <1>2, Zenon DEF Counts
<1>5. \A i \in 1..lr : r[i] = (k + lq) + i
  BY <1>2, Zenon DEF Counts
<1>6. ASSUME NEW i \in 1..(lq + lr) PROVE c[i] = k + i
  <2>1. CASE i <= lq
    <3>1. i \in 1..lq
      BY <2>1
    <3>2. c[i] = q[i]
      BY <1>3, <2>1, Zenon
    <3>. QED
      BY <1>4, <3>1, <3>2, Zenon
  <2>2. CASE ~(i <= lq)
    <3>1. PICK j \in 1..lr : j = i - lq
      BY <2>2
    <3>2. c[i] = r[j] /\ r[j] = (k + lq) + j
      BY <1>3, <1>5, <2>2, <3>1
    <3>. QED
      BY <3>1, <3>2
  <2>. QED
    BY <2>1, <2>2
<1>7. Counts(c, k)
  BY <1>3, <1>6 DEF Counts
<1>. QED
  BY <1>1, <1>2, <1>3, <1>7, Zenon

LEMMA CountsSplit ==
    ASSUME NEW q \in Seq(Nat), NEW k \in Nat, NEW n \in 0..Len(q), Counts(q, k)
    PROVE  /\ Counts(SubSeq(q, 1, n), k)
           /\ Counts(SubSeq(q, n + 1, Len(q)), k + n)
<1>1. PICK a : a = SubSeq(q, 1, n)
  OBVIOUS
<1>2. PICK r : r = SubSeq(q, n + 1, Len(q))
  OBVIOUS
<1>3. PICK lq \in Nat : lq = Len(q) /\ n \in 0..lq
  BY LenProperties
<1>4. Len(a) = n /\ \A i \in 1..n : a[i] = q[i]
  BY <1>1, Prefix, Zenon
<1>5. Len(r) = lq - n /\ \A i \in 1..(lq - n) : r[i] = q[n + i]
  BY <1>2, <1>3, Suffix, Zenon
<1>6. \A i \in 1..lq : q[i] = k + i
  BY <1>3, Zenon DEF Counts
<1>7. \A i \in 1..n : a[i] = k + i
  <2>1. \A i \in 1..n : i \in 1..lq
    BY <1>3
  <2>. QED
    BY <1>4, <1>6, <2>1, Zenon
<1>8. \A i \in 1..(lq - n) : n + i \in 1..lq /\ k + (n + i) = (k + n) + i
  BY <1>3
<1>9. \A i \in 1..(lq - n) : r[i] = (k + n) + i
  BY <1>5, <1>6, <1>8, Zenon
<1>. QED
  BY <1>1, <1>2, <1>4, <1>5, <1>7, <1>9, Zenon DEF Counts

\* sendInLoop with the message intact, on a connection that is not half-closed
LEMMA SendStream ==
    ASSUME BoundsAssumption, Typed, Stream, NEW n \in 1..MaxMessage,
           sendInLoop(n, TRUE), state # "kDisconnected" => ~sock.wrShut
    PROVE  Stream'
<1>0. /\ n \in Nat /\ Types /\ accepted \in Nat /\ sock' = sock
      /\ sent \in Seq(Nat) /\ outputBuffer \in Seq(Nat)
  BY DEF BoundsAssumption, Typed, Types, sendInLoop
<1>1. CASE SendRefused
  BY <1>0, <1>1 DEF SendRefused, Stream, Numbered, Dropped
<1>2. CASE SendFault(n)
  <2>1. /\ sock.peer = "rst" /\ outputBuffer = << >> /\ ~isWriting(channel)
        /\ outputBuffer' = outputBuffer /\ sent' = sent /\ channel' = channel
    BY <1>2 DEF SendFault, Broken, Direct
  <2>. QED
    BY <1>0, <2>1 DEF Stream, Numbered, Dropped
<1>3. CASE SendWrites(n, TRUE)
  <2>1. PICK nwrote \in 0..n, a \in Seq(Nat), r \in Seq(Nat) :
             /\ Direct \/ nwrote = 0
             /\ Len(a) = nwrote /\ \A i \in 1..nwrote : a[i] = Bytes(n, TRUE)[i]
             /\ Len(r) = n - nwrote
             /\ \A i \in 1..(n - nwrote) : r[i] = Bytes(n, TRUE)[nwrote + i]
             /\ sent' = sent \o a /\ outputBuffer' = outputBuffer \o r
             /\ channel' = Interest(r)
             /\ pending' \in Seq(Functor) /\ Ops(pending) \subseteq Ops(pending')
             /\ Ops(pending') \subseteq Ops(pending) \cup {"writeComplete", "highWater"}
    BY <1>3, WritesEffect, Zenon
  <2>2. PICK ls \in Nat, lb \in Nat : ls = Len(sent) /\ lb = Len(outputBuffer)
    BY <1>0, LenProperties
  <2>3. accepted = ls + lb
    BY <1>3, <2>2 DEF SendWrites, Broken, Direct, Stream, Dropped
  <2>4. \A i \in 1..n : Bytes(n, TRUE)[i] = accepted + i
    BY <1>0, BytesProperties
  <2>5. Counts(a, accepted)
    <3>1. \A i \in 1..nwrote : i \in 1..n
      BY <1>0
    <3>2. \A i \in 1..nwrote : a[i] = accepted + i
      BY <2>1, <2>4, <3>1, Zenon
    <3>. QED
      BY <2>1, <3>2, Zenon DEF Counts
  <2>6. Counts(r, accepted + nwrote)
    <3>1. \A i \in 1..(n - nwrote) :
             nwrote + i \in 1..n /\ accepted + (nwrote + i) = (accepted + nwrote) + i
      BY <1>0
    <3>2. \A i \in 1..(n - nwrote) : r[i] = (accepted + nwrote) + i
      BY <2>1, <2>4, <3>1, Zenon
    <3>. QED
      BY <2>1, <3>2, Zenon DEF Counts
  <2>7. Counts(sent, 0) /\ Counts(outputBuffer, ls)
    BY <2>2 DEF Stream, Numbered
  <2>8. lb = 0 \/ nwrote = 0
    BY <2>1, <2>2, EmptySeq DEF Direct
  <2>9. Counts(sent', 0) /\ Len(sent') = ls + nwrote
    <3>1. Counts(a, 0 + Len(sent))
      <4>1. CASE nwrote = 0
        BY <2>1, <4>1 DEF Counts
      <4>2. CASE lb = 0
        <5>1. accepted = 0 + ls
          BY <2>3, <4>2
        <5>. QED
          BY <2>2, <2>5, <5>1, Zenon
      <4>. QED
        BY <2>8, <4>1, <4>2
    <3>2. 0 \in Nat
      OBVIOUS
    <3>3. Counts(sent \o a, 0) /\ Len(sent \o a) = Len(sent) + Len(a)
      BY <1>0, <2>7, <3>1, <3>2, CountsConcat, Zenon
    <3>. QED
      BY <2>1, <2>2, <3>3, Zenon
  <2>10. Counts(outputBuffer', ls + nwrote) /\ Len(outputBuffer') = lb + (n - nwrote)
    <3>1. PICK m \in Nat : m = ls + nwrote
      OBVIOUS
    <3>2. Counts(outputBuffer, m)
      <4>1. CASE nwrote = 0
        <5>1. m = ls
          BY <3>1, <4>1
        <5>. QED
          BY <2>7, <5>1, Zenon
      <4>2. CASE lb = 0
        BY <2>2, <4>2 DEF Counts
      <4>. QED
        BY <2>8, <4>1, <4>2
    <3>3. accepted + nwrote = m + lb
      BY <2>3, <3>1
    <3>4. Counts(r, m + Len(outputBuffer))
      BY <2>2, <2>6, <3>3, Zenon
    <3>5. Counts(outputBuffer \o r, m) /\ Len(outputBuffer \o r) = Len(outputBuffer) + Len(r)
      BY <1>0, <3>2, <3>4, CountsConcat, Zenon
    <3>. QED
      BY <2>1, <2>2, <3>1, <3>5, Zenon
  <2>11. accepted' = (ls + nwrote) + (lb + (n - nwrote))
    <3>1. accepted' = accepted + n
      BY <1>3 DEF SendWrites
    <3>. QED
      BY <1>0, <2>3, <3>1
  <2>. QED
    BY <2>9, <2>10, <2>11, Zenon DEF Stream, Numbered, Dropped
<1>. QED
  BY <1>1, <1>2, <1>3 DEF sendInLoop

LEMMA StreamStep ==
    ASSUME BoundsAssumption, Disciplined, Typed, Lifecycle, Stream, [Next]_vars
    PROVE  Stream'
<1>. USE DEF connVars
<1>0. /\ Types /\ BooksAgree(channel) /\ channel \in Channel /\ sock \in Sock
      /\ sent \in Seq(Nat) /\ outputBuffer \in Seq(Nat) /\ accepted \in Nat
      /\ Registration /\ HandlersLeft /\ ShutDown
  BY DEF Typed, Types, PollerAgrees, Lifecycle
<1>1. CASE PeerSend \/ PeerFin \/ PeerReset
  <2>1. sock.peer = "rst" => sock'.peer = "rst"
    BY <1>0, <1>1 DEF PeerSend, PeerFin, PeerReset, PeerStep, Sock
  <2>. QED
    BY <1>1, <2>1 DEF PeerSend, PeerFin, PeerReset, PeerStep, Stream, Numbered, Dropped
<1>2. ASSUME NEW n \in 1..MaxMessage, LoopSend(n) PROVE Stream'
  <2>1. sendInLoop(n, TRUE) /\ ~sock.wrShut
    BY <1>0, <1>2 DEF LoopSend, ShutDown
  <2>. QED
    BY <2>1, SendStream
<1>3. CASE LoopShutdown \/ RunShutdownInLoop
  <2>1. shutdownInLoop
    BY <1>3 DEF LoopShutdown, RunShutdownInLoop
  <2>. QED
    BY <2>1, ShutdownEffect DEF Stream, Numbered, Dropped
<1>4. CASE HandleHangup \/ HandleReadEnd \/ ConnectDestroyedUp
  <2>1. channel' = disableAll(channel)
    BY <1>4 DEF HandleHangup, HandleReadEnd, handleClose, ChannelClosed, ConnectDestroyedUp
  <2>2. ~isWriting(channel')
    BY <1>0, <2>1, ChannelProperties DEF isWriting
  <2>. QED
    BY <1>4, <2>2 DEF HandleHangup, HandleReadEnd, handleClose, ConnectDestroyedUp,
                      Stream, Numbered, Dropped
<1>5. CASE HandleError \/ HandleReadError \/ HandleReadData
  <2>1. sock'.peer = sock.peer
    BY <1>0, <1>5 DEF HandleError, HandleReadError, HandleReadData, Sock
  <2>. QED
    BY <1>5, <2>1 DEF HandleError, HandleReadError, HandleReadData, Stream, Numbered, Dropped
<1>6. CASE HandleWriteSome
  <2>1. PICK n \in 1..Len(outputBuffer) :
           /\ sent' = sent \o SubSeq(outputBuffer, 1, n)
           /\ outputBuffer' = SubSeq(outputBuffer, n + 1, Len(outputBuffer))
    BY <1>6 DEF HandleWriteSome
  <2>2. PICK ls \in Nat, lb \in Nat : ls = Len(sent) /\ lb = Len(outputBuffer)
    BY <1>0, LenProperties
  <2>3. accepted = ls + lb /\ accepted' = accepted
    BY <1>6, <2>2 DEF HandleWriteSome, Stream, Dropped
  <2>4. PICK a : a = SubSeq(outputBuffer, 1, n)
    OBVIOUS
  <2>5. PICK r : r = SubSeq(outputBuffer, n + 1, Len(outputBuffer))
    OBVIOUS
  <2>6. n \in 0..Len(outputBuffer) /\ n \in Nat
    BY <2>2
  <2>7. a \in Seq(Nat) /\ Len(a) = n /\ Len(r) = lb - n
    BY <1>0, <2>2, <2>4, <2>5, <2>6, Prefix, Suffix, Zenon
  <2>8. Counts(sent, 0) /\ Counts(outputBuffer, ls)
    BY <2>2 DEF Stream, Numbered
  <2>9. Counts(a, ls) /\ Counts(r, ls + n)
    BY <1>0, <2>4, <2>5, <2>6, <2>8, CountsSplit, Zenon
  <2>10. 0 \in Nat /\ ls = 0 + ls
    BY <2>2
  <2>11. Counts(sent \o a, 0) /\ Len(sent \o a) = ls + n
    BY <1>0, <2>2, <2>7, <2>8, <2>9, <2>10, CountsConcat, Zenon
  <2>12. (ls + n) + (lb - n) = accepted'
    BY <2>3, <2>6
  <2>. QED
    BY <2>1, <2>4, <2>5, <2>7, <2>9, <2>11, <2>12, Zenon DEF Stream, Numbered, Dropped
<1>7. CASE ConnectEstablished
  <2>1. isWriting(channel') <=> isWriting(channel)
    BY <1>0, <1>7, ChannelProperties DEF ConnectEstablished, isWriting
  <2>. QED
    BY <1>7, <2>1 DEF ConnectEstablished, Stream, Numbered, Dropped
<1>8. CASE ConnectDestroyed
  <2>1. isWriting(channel') <=> isWriting(channel)
    BY <1>0, <1>8, ChannelProperties DEF ConnectDestroyed, isWriting
  <2>. QED
    BY <1>8, <2>1 DEF ConnectDestroyed, Stream, Numbered, Dropped
<1>9. ASSUME NEW op \in SendOps, RunSendInLoop(op) PROVE Stream'
  <2>1. NextFunctor(op) /\ sendInLoop(Head(batch).n, TRUE)
    BY <1>9 DEF RunSendInLoop, Intact
  <2>2. state \in {"kConnected", "kDisconnected"} /\ Head(batch).n \in 1..MaxMessage
    BY <2>1, SendFunctorState
  <2>3. state # "kDisconnected" => ~sock.wrShut
    BY <1>0, <2>2 DEF ShutDown
  <2>. QED
    BY <2>1, <2>2, <2>3, SendStream
<1>10. CASE UNCHANGED <<channel, outputBuffer, sent, accepted, sock>>
  BY <1>10 DEF Stream, Numbered, Dropped
<1>. QED
  BY <1>1, <1>2, <1>3, <1>4, <1>5, <1>6, <1>7, <1>8, <1>9, <1>10
     DEF Next, vars, LoopShares, UserReturns, Dispatch, Handler, CloseCallback,
         HandleWriteNothing, doPendingFunctors, SwapFunctors, EndFunctors, RunUserCallback,
         RemoveConnectionInLoop, DestroyServer, DestroyMainLoop, RemoteSend, RemoteShutdown,
         RemoteFinishes,
         RemoteSendQueue, RemoteShutdownSet, RemoteShutdownQueue, RemoteRelease

-----------------------------------------------------------------------------
(* What ends a connection *)

LEMMA CauseStep ==
    ASSUME BoundsAssumption, Disciplined, Typed, Lifecycle, EndHasCause, [Next]_vars
    PROVE  EndHasCause'
<1>. USE DEF EndHasCause, connVars, loopVars, serverVars, remoteVars
<1>0. /\ Types /\ BooksAgree(channel) /\ channel \in Channel /\ sock \in Sock
      /\ pending \in Seq(Functor) /\ batch \in Seq(Functor)
      /\ pc = "user" <=> ret # "none"
      /\ BornOnce /\ Registration /\ HandlersLeft
  BY DEF Typed, Types, PollerAgrees, Lifecycle
<1>1. CASE PeerSend \/ PeerFin \/ PeerReset
  <2>0. sock.inbound \in Nat
    BY <1>0 DEF Sock, BoundsAssumption
  <2>1. CASE PeerSend
    <3>1. sock'.peer = sock.peer /\ sock'.inbound = sock.inbound + 1
      BY <1>0, <2>1 DEF PeerSend, PeerStep, Sock
    <3>2. sock'.inbound > 0
      BY <2>0, <3>1
    <3>. QED
      BY <2>1, <3>1, <3>2 DEF PeerSend, PeerStep
  <2>2. CASE PeerFin \/ PeerReset
    <3>1. sock'.peer # "open"
      BY <1>0, <2>2 DEF PeerFin, PeerReset, PeerStep, Sock
    <3>. QED
      BY <3>1
  <2>. QED
    BY <1>1, <2>1, <2>2
<1>2. ASSUME NEW n \in 1..MaxMessage, LoopSend(n) PROVE EndHasCause'
  <2>1. sendInLoop(n, TRUE) /\ state = "kConnected"
    BY <1>2 DEF LoopSend
  <2>2. /\ state' = state /\ sock' = sock /\ downs' = downs
        /\ Ops(pending') \subseteq Ops(pending) \cup {"writeComplete", "highWater"}
        /\ channel.index = "kAdded" => channel'.index = "kAdded"
    BY <2>1, SendEffect
  <2>. QED
    BY <1>2, <2>1, <2>2 DEF LoopSend
<1>3. CASE LoopShutdown
  <2>1. /\ shutdownInLoop /\ sock'.peer = sock.peer /\ channel' = channel
        /\ pending' = pending /\ downs' = downs
    BY <1>3, ShutdownEffect DEF LoopShutdown
  <2>2. sock'.inbound = sock.inbound
    BY <1>0, <2>1 DEF shutdownInLoop, Sock
  <2>. QED
    BY <1>3, <2>1, <2>2 DEF LoopShutdown
<1>4. CASE UserReturns
  BY <1>0, <1>4 DEF UserReturns
<1>5. CASE Dispatch
  <2>1. sock.peer = "open" => "close" \notin todo' /\ ("read" \in todo' => sock.inbound > 0)
    BY <1>5, ReportsProperties DEF Dispatch
  <2>. QED
    BY <1>5, <2>1 DEF Dispatch
<1>6. CASE HandleHangup \/ HandleReadEnd
  <2>1. ~(sock.peer = "open" /\ serverUp)
    BY <1>0, <1>6 DEF HandleHangup, HandleReadEnd, NextHandler
  <2>. QED
    BY <1>6, <2>1 DEF HandleHangup, HandleReadEnd, handleClose
<1>7. CASE CloseCallback
  BY <1>7 DEF CloseCallback
<1>8. CASE HandleError \/ HandleReadError
  <2>1. sock'.peer = sock.peer /\ sock'.inbound = sock.inbound
    BY <1>0, <1>8 DEF HandleError, HandleReadError, Sock
  <2>. QED
    BY <1>8, <2>1 DEF HandleError, HandleReadError, NextHandler
<1>9. CASE HandleReadData
  <2>1. sock'.peer = sock.peer /\ "read" \notin todo' /\ todo' \subseteq todo
    BY <1>0, <1>9 DEF HandleReadData, NextHandler, Sock
  <2>. QED
    BY <1>9, <2>1 DEF HandleReadData, EnterUser
<1>10. CASE HandleWriteNothing
  BY <1>10 DEF HandleWriteNothing, NextHandler
<1>11. CASE HandleWriteSome
  <2>1. PICK b : /\ channel' = channel \/ channel' = disableWriting(channel)
                 /\ sock' = [sock EXCEPT !.wrShut = b]
    BY <1>11 DEF HandleWriteSome
  <2>2. sock'.peer = sock.peer /\ sock'.inbound = sock.inbound
    BY <1>0, <2>1 DEF Sock
  <2>3. channel.index = "kAdded" => channel'.index = "kAdded"
    BY <1>0, <2>1, ChannelProperties DEF Registration
  <2>4. Ops(pending') \subseteq Ops(pending) \cup {"writeComplete"}
    BY <1>0, <1>11, WriteNotice
  <2>. QED
    BY <1>11, <2>2, <2>3, <2>4 DEF HandleWriteSome, NextHandler
<1>12. CASE SwapFunctors
  BY <1>12, OpsEmpty DEF SwapFunctors
<1>13. CASE EndFunctors
  BY <1>13 DEF EndFunctors
<1>14. CASE ConnectEstablished
  <2>1. Ops(batch) = {"connectEstablished"} \cup Ops(batch')
    BY <1>0, <1>14, NextFunctorEffect DEF ConnectEstablished
  <2>2. channel'.index = "kAdded"
    BY <1>0, <1>14, ChannelProperties DEF ConnectEstablished
  <2>. QED
    BY <1>14, <2>1, <2>2 DEF ConnectEstablished, EnterUser
<1>15. CASE ConnectDestroyedUp \/ ConnectDestroyed
  <2>1. pc = "remove" \/ NextFunctor("connectDestroyed")
    BY <1>15 DEF ConnectDestroyedUp, ConnectDestroyed
  <2>2. ~(sock.peer = "open" /\ serverUp)
    BY <1>0, <2>1, NextFunctorEffect
  <2>. QED
    BY <1>15, <2>2 DEF ConnectDestroyedUp, ConnectDestroyed
<1>16. ASSUME NEW op \in SendOps, RunSendInLoop(op) PROVE EndHasCause'
  <2>1. PICK intact : sendInLoop(Head(batch).n, intact)
    BY <1>16 DEF RunSendInLoop
  <2>2. NextFunctor(op)
    BY <1>16 DEF RunSendInLoop
  <2>3. Head(batch).n \in 1..MaxMessage /\ Ops(batch) = {op} \cup Ops(batch')
    BY <1>0, <2>2, NextFunctorEffect
  <2>4. /\ state' = state /\ sock' = sock /\ downs' = downs
        /\ Ops(pending') \subseteq Ops(pending) \cup {"writeComplete", "highWater"}
        /\ channel.index = "kAdded" => channel'.index = "kAdded"
    BY <2>1, <2>3, SendEffect
  <2>. QED
    BY <1>16, <2>3, <2>4 DEF RunSendInLoop
<1>17. CASE RunShutdownInLoop
  <2>1. /\ shutdownInLoop /\ sock'.peer = sock.peer /\ channel' = channel
        /\ pending' = pending /\ downs' = downs
    BY <1>17, ShutdownEffect DEF RunShutdownInLoop
  <2>2. sock'.inbound = sock.inbound
    BY <1>0, <2>1 DEF shutdownInLoop, Sock
  <2>3. Ops(batch) = {"shutdownInLoop"} \cup Ops(batch')
    BY <1>0, <1>17, NextFunctorEffect DEF RunShutdownInLoop
  <2>. QED
    BY <1>17, <2>1, <2>2, <2>3 DEF RunShutdownInLoop
<1>18. CASE RunUserCallback
  <2>1. PICK op \in {"writeComplete", "highWater"} : NextFunctor(op)
    BY <1>18 DEF RunUserCallback
  <2>2. Ops(batch) = {op} \cup Ops(batch')
    BY <1>0, <2>1, NextFunctorEffect
  <2>. QED
    BY <1>18, <2>2 DEF RunUserCallback, EnterUser
<1>19. CASE RemoveConnectionInLoop \/ DestroyServer \/ DestroyMainLoop
  <2>1. ~(sock.peer = "open" /\ serverUp) \/ ~serverUp'
    BY <1>19 DEF RemoveConnectionInLoop, DestroyServer, DestroyMainLoop
  <2>. QED
    BY <1>19, <2>1 DEF RemoveConnectionInLoop, DestroyServer, DestroyMainLoop
<1>20. ASSUME NEW r \in Remote, NEW op \in SendOps, RemoteSendQueue(r, op) PROVE EndHasCause'
  <2>1. Ops(pending') = Ops(pending) \cup {op}
    BY <1>0, <1>20, SendQueueEffect
  <2>. QED
    BY <1>20, <2>1 DEF RemoteSendQueue, SendOps
<1>21. ASSUME NEW r \in Remote, RemoteShutdownSet(r) PROVE EndHasCause'
  <2>1. state # "kConnecting"
    BY <1>0, <1>21 DEF RemoteShutdownSet, BornOnce, Lifecycle, CallersHold
  <2>. QED
    BY <1>21, <2>1 DEF RemoteShutdownSet
<1>22. ASSUME NEW r \in Remote, RemoteShutdownQueue(r) PROVE EndHasCause'
  <2>1. Ops(pending') = Ops(pending) \cup {"shutdownInLoop"}
    BY <1>0, <1>22, QueueEffect DEF RemoteShutdownQueue
  <2>. QED
    BY <1>22, <2>1 DEF RemoteShutdownQueue
<1>23. CASE UNCHANGED <<connVars, loopVars, serverVars, pending, downs>>
  BY <1>23
<1>. QED
  BY <1>1, <1>2, <1>3, <1>4, <1>5, <1>6, <1>7, <1>8, <1>9, <1>10, <1>11, <1>12, <1>13, <1>14,
     <1>15, <1>16, <1>17, <1>18, <1>19, <1>20, <1>21, <1>22, <1>23
     DEF Next, vars, LoopShares, Handler, doPendingFunctors, RemoteSend, RemoteShutdown,
         RemoteFinishes, RemoteRelease

-----------------------------------------------------------------------------

\* The inductive invariant
Inv == Typed /\ Lifecycle /\ References /\ Output /\ Stream /\ EndHasCause

LEMMA InitTyped ==
    ASSUME BoundsAssumption, Init
    PROVE  Typed
<1>1. /\ MaxInbound \in Nat /\ MaxMessage \in Nat
  BY DEF BoundsAssumption
<1>2. PICK f \in Functor : f = Fn("connectEstablished")
  BY FnProperties DEF StrongOps
<1>3. pending \in Seq(Functor)
  BY <1>2 DEF Init
<1>4. channel \in Channel /\ BooksAgree(channel)
  BY DEF Init, NewChannel, Channel, Index, Event, BooksAgree
<1>5. sock \in Sock
  BY <1>1 DEF Init, Sock
<1>6. holds \in [Remote -> BOOLEAN]
  BY DEF Init
<1>7. rcall \in [Remote -> RCall] /\ \A r \in Remote : rcall[r].at = "idle"
  BY <1>1 DEF Init, Idle, RCall
<1>8. {batchRef, inMap, serverUp} \subseteq BOOLEAN
  BY Zenon DEF Init
<1>. QED
  BY <1>3, <1>4, <1>5, <1>6, <1>7, <1>8 DEF Init, Typed, Types, PollerAgrees, State

LEMMA InitInv ==
    ASSUME BoundsAssumption, Init
    PROVE  Inv
<1>1. Typed
  BY InitTyped
<1>2. PICK f \in Functor : f = Fn("connectEstablished") /\ f.op = "connectEstablished"
  BY FnProperties DEF StrongOps
<1>3. pending = <<f>> /\ batch = << >>
  BY <1>2 DEF Init
<1>4. Ops(pending) = {"connectEstablished"} /\ Ops(batch) = {} /\ EstablishedFirst(pending)
  BY <1>2, <1>3, OpsEmpty DEF Ops, EstablishedFirst
<1>5. channel.index = "kNew"
  BY DEF Init, NewChannel
<1>6. /\ \A r \in Remote : ~holds[r]
      /\ \A r \in Remote : rcall[r].at = "idle"
  BY DEF Init, Idle
<1>7. Lifecycle
  BY <1>4, <1>5, <1>6
     DEF Init, Lifecycle, CallersHold, BornOnce, Registration, HandlersLeft, Guarded, BatchRuns,
         Quiet, NoSends, ShutDown, SendOps
<1>8. References
  BY <1>4 DEF Init, References, Owned, BatchHolds, RawHeld, StrongOps
<1>9. Output
  BY DEF Init, Output, OutputWanted, FlushBeforeShutdown
<1>10. Stream
  BY EmptySeq DEF Init, Stream, Numbered, Counts, Dropped
<1>11. EndHasCause
  BY <1>4 DEF Init, EndHasCause
<1>. QED
  BY <1>1, <1>7, <1>8, <1>9, <1>10, <1>11 DEF Inv

LEMMA InvStep ==
    ASSUME BoundsAssumption, Disciplined, Inv, [Next]_vars
    PROVE  Inv'
<1>1. Typed /\ Lifecycle /\ References /\ Output /\ Stream /\ EndHasCause
  BY DEF Inv
<1>2. Typed'
  BY <1>1, TypedStep
<1>. QED
  BY <1>1, <1>2, LifecycleStep, ReferencesStep, OutputStep, StreamStep, CauseStep
     DEF Inv

LEMMA Invariance ==
    ASSUME BoundsAssumption, Disciplined
    PROVE  Spec => []Inv
BY InitInv, InvStep, PTL DEF Spec

-----------------------------------------------------------------------------
(* Theorems *)

\* Whatever the connection and the application do, the channel's index_, the poller's map
\* and the kernel's epoll set say the same of it.
THEOREM BooksStayInAgreement ==
    ASSUME BoundsAssumption
    PROVE  Spec => []PollerAgrees
<1>1. Init => Typed
  BY InitTyped
<1>2. Typed /\ [Next]_vars => Typed'
  BY TypedStep
<1>3. Typed => PollerAgrees
  BY DEF Typed
<1>. QED
  BY <1>1, <1>2, <1>3, PTL DEF Spec

\* handleClose and connectDestroyed report the end of a connection once between them,
\* however they and shutdown() are interleaved.
THEOREM EndReportedOnce ==
    ASSUME BoundsAssumption, Disciplined
    PROVE  Spec => []DownOnce
<1>1. Inv => DownOnce
  BY DEF Inv, Lifecycle, Registration, DownOnce
<1>. QED
  BY <1>1, Invariance, PTL

\* sendInLoop and handleWrite leave nothing in outputBuffer_ that no EPOLLOUT will fetch.
THEOREM OutputIsScheduled ==
    ASSUME BoundsAssumption, Disciplined
    PROVE  Spec => []OutputScheduled
<1>1. Inv => OutputScheduled
  <2>. SUFFICES ASSUME Inv, outputBuffer # << >>, downs = 0, channel.index # "kNew"
                PROVE  "write" \in channel.interest
    BY DEF OutputScheduled, Inv, Typed, Types
  <2>1. channel.index = "kAdded"
    BY DEF Inv, Lifecycle, Registration, Typed, Types, Channel, Index
  <2>2. "write" \in channel.events
    BY <2>1 DEF Inv, Output, OutputWanted, isWriting
  <2>. QED
    BY <2>1, <2>2 DEF Inv, Typed, PollerAgrees, BooksAgree
<1>. QED
  BY <1>1, Invariance, PTL

\* shutdown() half-closes only after the output is written, whether it finds the buffer
\* empty or handleWrite drains it later.
THEOREM OutputBeforeEnd ==
    ASSUME BoundsAssumption, Disciplined
    PROVE  Spec => []FlushBeforeShutdown
<1>1. Inv => FlushBeforeShutdown
  BY DEF Inv, Output
<1>. QED
  BY <1>1, Invariance, PTL

\* The last TcpConnectionPtr never goes before connectDestroyed has taken the channel out
\* of the poller: the TcpServer's map, the queued functor or the batch it runs in keep one.
THEOREM ChannelRemovedBeforeFree ==
    ASSUME BoundsAssumption, Disciplined
    PROVE  Spec => []NoDanglingChannel
<1>1. Inv => NoDanglingChannel
  <2>. SUFFICES ASSUME Inv, ~Alive PROVE ~channel.added /\ ~channel.mapped
    BY DEF NoDanglingChannel
  <2>1. /\ pending \in Seq(Functor) /\ batch \in Seq(Functor)
        /\ channel \in Channel /\ BooksAgree(channel) /\ Owned /\ BatchHolds
    BY DEF Inv, Typed, Types, PollerAgrees, References
  <2>2. ~inMap /\ ~HasRef(pending) /\ ~batchRef
    BY DEF Alive
  <2>3. channel.index = "kNew"
    BY <2>1, <2>2, QueueRefs DEF Owned, BatchHolds, StrongOps
  <2>. QED
    BY <2>1, <2>3 DEF BooksAgree
<1>. QED
  BY <1>1, Invariance, PTL

\* Handlers, callbacks and functors, those bound to the raw this included, run on a
\* connection that exists.
THEOREM UsedWhileAlive ==
    ASSUME BoundsAssumption, Disciplined
    PROVE  Spec => []NoUseAfterFree
<1>1. Inv => NoUseAfterFree
  <2>. SUFFICES ASSUME Inv, ~Alive
                PROVE  /\ pc \notin {"events", "user", "closeCallback", "remove"}
                       /\ batch = << >> /\ ~HasRaw(pending)
    BY DEF NoUseAfterFree
  <2>1. /\ pending \in Seq(Functor) /\ batch \in Seq(Functor)
        /\ ret \in {"none", "events", "closeCallback", "functors", "remove"}
        /\ pc = "user" <=> ret # "none"
        /\ BatchHolds /\ RawHeld
    BY DEF Inv, Typed, Types, References
  <2>2. ~batchRef /\ ~Guarded /\ ~(\E r \in Remote : holds[r])
    BY DEF Alive
  <2>3. pc \notin {"events", "user", "closeCallback", "remove"}
    BY <2>1, <2>2 DEF Guarded, BatchHolds
  <2>4. Ops(batch) = {} /\ Ops(pending) \ StrongOps = {}
    BY <2>1, <2>2 DEF BatchHolds, RawHeld
  <2>. QED
    BY <2>1, <2>3, <2>4, QueueRefs
<1>. QED
  BY <1>1, Invariance, PTL

\* Direct writes, buffered rests and handleWrite hand the bytes to the kernel in the
\* order in which sendInLoop took them on, none twice and none left out.
THEOREM StreamStaysInOrder ==
    ASSUME BoundsAssumption, Disciplined
    PROVE  Spec => []StreamInOrder
<1>1. Inv => StreamInOrder
  <2>. SUFFICES ASSUME Inv PROVE StreamInOrder
    OBVIOUS
  <2>1. sent \in Seq(Nat) /\ outputBuffer \in Seq(Nat)
    BY DEF Inv, Typed, Types
  <2>2. PICK ls \in Nat, lb \in Nat : ls = Len(sent) /\ lb = Len(outputBuffer)
    BY <2>1, LenProperties
  <2>3. Counts(sent, 0) /\ Counts(outputBuffer, 0 + Len(sent)) /\ 0 \in Nat
    <3>1. Len(sent) = 0 + Len(sent)
      BY <2>1, LenProperties
    <3>. QED
      BY <3>1 DEF Inv, Stream, Numbered
  <2>4. PICK c : c = sent \o outputBuffer
    OBVIOUS
  <2>5. c \in Seq(Nat) /\ Counts(c, 0) /\ Len(c) = ls + lb
    BY <2>1, <2>2, <2>3, <2>4, CountsConcat, ConcatProperties, Zenon
  <2>6. c = [i \in 1..Len(c) |-> c[i]]
    BY <2>5
  <2>7. \A i \in 1..(ls + lb) : c[i] = i
    BY <2>5 DEF Counts
  <2>8. c = [i \in 1..(ls + lb) |-> i]
    BY <2>5, <2>6, <2>7
  <2>. QED
    BY <2>2, <2>4, <2>8, Zenon DEF StreamInOrder
<1>. QED
  BY <1>1, Invariance, PTL

\* Until the peer resets the connection every byte that sendInLoop took on is in the
\* kernel or in outputBuffer_; and until the peer closes it or the server is destroyed the
\* connection stays up and handleWrite waits for what is in outputBuffer_.
THEOREM NoByteLost ==
    ASSUME BoundsAssumption, Disciplined
    PROVE  Spec => []NothingLost
<1>1. Inv => NothingLost
  <2>. SUFFICES ASSUME Inv PROVE NothingLost
    OBVIOUS
  <2>1. sock.peer # "rst" => Len(sent) + Len(outputBuffer) = accepted
    BY DEF Inv, Stream, Dropped
  <2>2. ASSUME sock.peer = "open", serverUp, outputBuffer # << >>
        PROVE  "write" \in channel.interest
    <3>1. state # "kConnecting"
      BY <2>2 DEF Inv, Lifecycle, BornOnce
    <3>2. channel.index = "kAdded"
      BY <2>2, <3>1 DEF Inv, EndHasCause
    <3>3. "write" \in channel.events
      BY <2>2, <3>2 DEF Inv, Output, OutputWanted, isWriting
    <3>. QED
      BY <3>2, <3>3 DEF Inv, Typed, PollerAgrees, BooksAgree
  <2>3. sock.peer = "open" /\ serverUp => downs = 0
    BY DEF Inv, EndHasCause
  <2>. QED
    BY <2>1, <2>2, <2>3 DEF NothingLost
<1>. QED
  BY <1>1, Invariance, PTL

\* In an application that keeps send() and shutdown() apart sendInLoop never takes a
\* message on after the connection has been half-closed.
THEOREM NothingSentAfterShutdown ==
    ASSUME BoundsAssumption, Disciplined
    PROVE  Spec => NoSendAfterShutdown
<1>1. ASSUME Inv, [Next]_vars, accepted' # accepted PROVE ~sock.wrShut
  <2>1. Typed /\ Lifecycle /\ ShutDown
    BY <1>1 DEF Inv, Lifecycle
  <2>2. ASSUME NEW n \in 1..MaxMessage, LoopSend(n) PROVE ~sock.wrShut
    BY <2>1, <2>2 DEF LoopSend, ShutDown
  <2>3. ASSUME NEW op \in SendOps, RunSendInLoop(op) PROVE ~sock.wrShut
    <3>1. state # "kDisconnected"
      BY <1>1, <2>3 DEF RunSendInLoop, sendInLoop, SendRefused, SendFault, SendWrites
    <3>2. state \in {"kConnected", "kDisconnected"}
      BY <2>1, <2>3, SendFunctorState DEF RunSendInLoop
    <3>. QED
      BY <2>1, <3>1, <3>2 DEF ShutDown
  <2>. QED
    BY <1>1, <2>2, <2>3
       DEF Next, vars, connVars, PeerSend, PeerFin, PeerReset, PeerStep, LoopShutdown,
           shutdownInLoop, LoopShares, UserReturns, Dispatch, Handler, HandleHangup,
           handleClose, CloseCallback, HandleError, HandleReadData, HandleReadEnd,
           HandleReadError, HandleWriteNothing, HandleWriteSome, doPendingFunctors,
           SwapFunctors, EndFunctors, ConnectEstablished, ConnectDestroyedUp,
           ConnectDestroyed, RunShutdownInLoop, RunUserCallback, RemoveConnectionInLoop,
           DestroyServer, DestroyMainLoop, RemoteSend, RemoteShutdown, RemoteFinishes,
           RemoteSendQueue,
           RemoteShutdownSet, RemoteShutdownQueue, RemoteRelease
<1>2. Inv /\ [Next]_vars => [(accepted' # accepted /\ sock.peer = "open") => ~sock.wrShut]_vars
  BY <1>1
<1>. QED
  BY <1>2, Invariance, PTL DEF Spec, NoSendAfterShutdown

=============================================================================
