---------------------------- MODULE TcpConnection ----------------------------
(***************************************************************************)
(* The life of one TcpConnection (src/src/net/TcpConnection.cc): the       *)
(* thread of its I/O loop, the threads of the application that hold a      *)
(* TcpConnectionPtr, the TcpServer that owns it, the kernel's socket and   *)
(* the peer.                                                               *)
(*                                                                         *)
(* The loop's functor queue is the FIFO executor of FunctorQueue (which    *)
(* EventLoop is shown to implement), cut into the batches of               *)
(* doPendingFunctors because the objects a batch refers to live until the  *)
(* batch ends.  The payload is the numbers 1, 2, 3, ... in the order in    *)
(* which sendInLoop takes the bytes on, so that order, loss and            *)
(* duplication can be seen in the stream.                                  *)
(***************************************************************************)
EXTENDS Naturals, Sequences, FiniteSets, Functions, EPollPoller

CONSTANTS Remote,         \* application threads other than the loop's
          MaxBytes,       \* bound: bytes sendInLoop takes on in a behaviour
          MaxMessage,     \* bound: bytes of one send()
          MaxInbound,     \* bound: unread messages of the peer
          HighWaterMark,  \* highWaterMark_
          Disciplined     \* the application follows the rules of MayShutdown, MaySend,
                          \* RemoteRelease and Intact

ASSUME BoundsAssumption ==
    /\ IsFiniteSet(Remote)
    /\ {MaxBytes, MaxMessage, MaxInbound, HighWaterMark} \subseteq Nat \ {0}
    /\ Disciplined \in BOOLEAN

VARIABLES state,          \* state_
          channel,        \* channel_ and its registration
          outputBuffer,   \* outputBuffer_: bytes taken on and not yet written
          sent,           \* bytes the kernel has taken, oldest first
          accepted,       \* history: number of bytes sendInLoop has taken on
          sock,           \* the kernel's socket: wrShut, peer, inbound, err
          pc,             \* where the loop's thread is
          todo,           \* handlers handleEventWithGuard has yet to call
          ret,            \* where user code returns to
          pending,        \* pendingFunctors_ of the loop: functors on this connection
          batch,          \* what doPendingFunctors has left to run
          batchRef,       \* the batch holds a TcpConnectionPtr
          inMap,          \* connections_ of the TcpServer holds the connection
          serverUp,       \* the TcpServer exists
          removals,       \* removeConnectionInLoop calls queued in the main loop
          holds,          \* holds[r]: thread r has a TcpConnectionPtr
          rcall,          \* rcall[r]: the step of send / shutdown thread r is at
          downs           \* history: connectionCallback_ calls that report the end

connVars == <<state, channel, outputBuffer, sent, accepted, sock>>
loopVars == <<pc, todo, ret, batch, batchRef>>
serverVars == <<inMap, serverUp, removals>>
remoteVars == <<holds, rcall>>
vars == <<connVars, loopVars, serverVars, remoteVars, pending, downs>>

State == {"kConnecting", "kConnected", "kDisconnecting", "kDisconnected"}

\* Functors on this connection.  Those of send() and shutdown() bind the raw this,
\* the others a TcpConnectionPtr.
SendOps == {"sendInLoop", "sendPointer"}   \* of send(Buffer*), of send(const std::string&)
RawFunctor == [op : SendOps, n : 1..MaxMessage] \cup [op : {"shutdownInLoop"}, n : {0}]

\* A bug to tell apart: connectDestroyed is bound to a raw pointer
StrongButDestroyed ==
    [op : {"connectEstablished", "writeComplete", "highWater"}, n : {0}]

StrongFunctor ==
    [op : {"connectEstablished", "connectDestroyed", "writeComplete", "highWater"}, n : {0}]

Fn(op) == [op |-> op, n |-> 0]

\* Where a thread is in send() or shutdown(), and the length of its message
RCall == [at : {"idle", "sendChecked", "shutdownChecked", "shutdownSet"}, n : 0..MaxMessage]

Idle == [at |-> "idle", n |-> 0]

\* The connection's members, the socket, the queue of functors and the server's
\* bookkeeping keep their types; counters of pending removals never drop below zero.
TypeOK ==
    /\ state \in State
    /\ channel \in Channel
    /\ outputBuffer \in Seq(0..MaxBytes)
    /\ sent \in Seq(0..MaxBytes)
    /\ accepted \in 0..MaxBytes
    /\ sock \in [wrShut : BOOLEAN, peer : {"open", "fin", "rst"},
                 inbound : 0..MaxInbound, err : BOOLEAN]
    /\ pc \in {"poll", "events", "user", "closeCallback", "functors", "remove"}
    /\ todo \subseteq {"close", "error", "read", "write"}
    /\ ret \in {"none", "events", "closeCallback", "functors", "remove"}
    /\ pending \in Seq(RawFunctor \cup StrongFunctor)
    /\ batch \in Seq(RawFunctor \cup StrongFunctor)
    /\ {batchRef, inMap, serverUp} \subseteq BOOLEAN
    /\ removals \in Nat
    /\ holds \in [Remote -> BOOLEAN]
    /\ rcall \in [Remote -> RCall]
    /\ downs \in Nat

-----------------------------------------------------------------------------
(* Who keeps the connection alive *)

HasRef(q) == \E i \in DOMAIN q : q[i] \in StrongFunctor

HasRaw(q) == \E i \in DOMAIN q : q[i] \in RawFunctor

\* The guard of Channel::handleEvent and the connPtr of handleClose
Guarded == pc \in {"events", "closeCallback"} \/ ret \in {"events", "closeCallback"}

Alive ==
    \/ inMap
    \/ removals > 0
    \/ HasRef(pending)
    \/ batchRef
    \/ Guarded
    \/ \E r \in Remote : holds[r]

-----------------------------------------------------------------------------
(* TcpServer::newConnection has built the connection and queued
   connectEstablished *)

Init ==
    /\ state = "kConnecting"
    /\ channel = NewChannel
    /\ outputBuffer = << >> /\ sent = << >> /\ accepted = 0
    /\ sock = [wrShut |-> FALSE, peer |-> "open", inbound |-> 0, err |-> FALSE]
    /\ pc = "poll" /\ todo = {} /\ ret = "none"
    /\ pending = <<Fn("connectEstablished")>>
    /\ batch = << >> /\ batchRef = FALSE
    /\ inMap = TRUE /\ serverUp = TRUE /\ removals = 0
    /\ holds = [r \in Remote |-> FALSE]
    /\ rcall = [r \in Remote |-> Idle]
    /\ downs = 0

-----------------------------------------------------------------------------
(* The peer and the network: not in the repository *)

PeerStep(s) ==
    /\ sock' = s
    /\ UNCHANGED <<state, channel, outputBuffer, sent, accepted, loopVars, serverVars,
                   remoteVars, pending, downs>>

PeerSend ==
    /\ sock.peer = "open" /\ sock.inbound < MaxInbound
    /\ PeerStep([sock EXCEPT !.inbound = @ + 1])

PeerFin ==
    /\ sock.peer = "open"
    /\ PeerStep([sock EXCEPT !.peer = "fin"])

PeerReset ==
    /\ sock.peer # "rst"
    /\ PeerStep([sock EXCEPT !.peer = "rst", !.inbound = 0, !.err = TRUE])

\* write() fails with EPIPE or ECONNRESET
Broken == sock.wrShut \/ sock.peer = "rst"

-----------------------------------------------------------------------------
(* TcpConnection::sendInLoop and shutdownInLoop *)

\* The n bytes of a message; 0 stands for whatever a freed string has left
Bytes(n, intact) == [i \in 1..n |-> IF intact THEN accepted + i ELSE 0]

\* A bug to tell apart: bytes overtake those in the buffer while epoll is silent
DirectAlways == TRUE

\* Bytes nobody has tried to write yet go straight to the kernel
Direct == ~isWriting(channel) /\ outputBuffer = << >>

SendRefused ==
    /\ state = "kDisconnected"
    /\ UNCHANGED <<outputBuffer, sent, accepted, channel, pending>>

\* write() reports that the connection is gone: the message is dropped
SendFault(n) ==
    /\ state # "kDisconnected"
    /\ Direct /\ Broken
    /\ accepted' = accepted + n
    /\ UNCHANGED <<outputBuffer, sent, channel, pending>>

\* A bug to tell apart: the rest of a partial write is buffered without interest
\* in EPOLLOUT
NoInterest(remaining) == channel

\* What remains needs EPOLLOUT
Interest(remaining) ==
    IF remaining = << >> \/ isWriting(channel) THEN channel ELSE enableWriting(channel)

\* writeCompleteCallback_ and highWaterMarkCallback_ are queued when they are due, if the
\* application has set them
Told(op, isDue) == IF isDue THEN {<< >>, <<Fn(op)>>} ELSE {<< >>}

\* The message is written whole, in part, or not at all; the rest is buffered
SendWrites(n, intact) ==
    /\ state # "kDisconnected"
    /\ ~(Direct /\ Broken)
    /\ accepted' = accepted + n
    /\ \E nwrote \in 0..(IF Direct THEN n ELSE 0) :
         LET remaining == SubSeq(Bytes(n, intact), nwrote + 1, n)
             oldLen == Len(outputBuffer)
             newLen == oldLen + n - nwrote
             crossing == remaining # << >> /\ newLen >= HighWaterMark /\ oldLen < HighWaterMark
         IN  /\ sent' = sent \o SubSeq(Bytes(n, intact), 1, nwrote)
             /\ outputBuffer' = outputBuffer \o remaining
             /\ channel' = Interest(remaining)
             /\ \E done \in Told("writeComplete", remaining = << >>),
                   high \in Told("highWater", crossing) : pending' = pending \o done \o high

sendInLoop(n, intact) ==
    /\ SendRefused \/ SendFault(n) \/ SendWrites(n, intact)
    /\ UNCHANGED <<state, sock, downs>>

\* A bug to tell apart: half-close without waiting for the output
HalfCloseAtOnce == TRUE

\* if (!channel_->isWriting())
MayHalfClose == ~isWriting(channel)

\* shutdownInLoop()
shutdownInLoop ==
    /\ sock' = [sock EXCEPT !.wrShut = @ \/ MayHalfClose]
    /\ UNCHANGED <<channel, outputBuffer, sent, accepted, pending, downs>>

-----------------------------------------------------------------------------
(* User code in the loop's thread: connectionCallback_, messageCallback_,
   writeCompleteCallback_, highWaterMarkCallback_ *)

EnterUser(back) == pc' = "user" /\ ret' = back

SendsIn(q) == {i \in DOMAIN q : q[i].op \in SendOps}

\* send() calls of other threads between the test of state_ and the functor's run
InFlight ==
    Cardinality({r \in Remote : rcall[r].at = "sendChecked"})
      + Cardinality(SendsIn(pending)) + Cardinality(SendsIn(batch))

CanSend(n) == accepted + n + MaxMessage * InFlight <= MaxBytes

\* The application's discipline: shutdown() waits for the send() calls in flight
MayShutdown == Disciplined => InFlight = 0

\* ... and no send() begins while another thread is inside shutdown(), between its test
\* of state_ and its setState
MaySend == Disciplined => \A r \in Remote : rcall[r].at # "shutdownChecked"

\* send() by the loop's thread
LoopSend(n) ==
    /\ pc = "user"
    /\ CanSend(n)
    /\ state = "kConnected"
    /\ sendInLoop(n, TRUE)
    /\ UNCHANGED <<loopVars, serverVars, remoteVars>>

\* A bug to tell apart: shutdown() does not change state_
ShutdownUnnoticed == state

ShuttingDown == "kDisconnecting"

\* shutdown() by the loop's thread
LoopShutdown ==
    /\ pc = "user"
    /\ MayShutdown
    /\ state = "kConnected"
    /\ state' = ShuttingDown
    /\ shutdownInLoop
    /\ UNCHANGED <<loopVars, serverVars, remoteVars>>

\* The callback hands its TcpConnectionPtr to another thread
LoopShares(r) ==
    /\ pc = "user"
    /\ ~holds[r]
    /\ state = "kConnected"
    /\ holds' = [holds EXCEPT ![r] = TRUE]
    /\ UNCHANGED <<connVars, loopVars, serverVars, rcall, pending, downs>>

UserReturns ==
    /\ pc = "user"
    /\ pc' = ret
    /\ ret' = "none"
    /\ UNCHANGED <<connVars, todo, batch, batchRef, serverVars, remoteVars, pending, downs>>

-----------------------------------------------------------------------------
(* Channel::handleEvent and the handlers TcpConnection registered with it *)

\* What epoll_wait may report: the handlers handleEventWithGuard will call.
\* EPOLLHUP may come with or without EPOLLIN; EPOLLOUT comes when there is room.
Reports ==
    LET readable == sock.inbound > 0 \/ sock.peer # "open"
        hangup == sock.peer = "rst" \/ (sock.peer = "fin" /\ sock.wrShut)
        in == IF "read" \in channel.interest /\ readable THEN {"read"} ELSE {}
        err == IF sock.err THEN {"error"} ELSE {}
        out == IF "write" \in channel.interest THEN {{}, {"write"}} ELSE {{}}
        alone == IF hangup /\ sock.inbound = 0 THEN {{"close"}} ELSE {}
    IN  {x \cup err \cup o : x \in {in} \cup alone, o \in out}

Dispatch ==
    /\ pc = "poll"
    /\ channel.added
    /\ todo' \in Reports \ {{}}
    /\ pc' = "events"
    /\ UNCHANGED <<connVars, ret, batch, batchRef, serverVars, remoteVars, pending, downs>>

\* handler h is the next one in the order of handleEventWithGuard
NextHandler(h) ==
    /\ pc = "events"
    /\ h \in todo
    /\ \A other \in todo \ {h} :
          CASE h = "close" -> TRUE
            [] h = "error" -> other # "close"
            [] h = "read"  -> other = "write"
            [] h = "write" -> FALSE
    /\ todo' = todo \ {h}

\* A bug to tell apart: the channel keeps its registration when the peer closes
ChannelKept == channel

ChannelClosed == disableAll(channel)

\* handleClose() up to connectionCallback_
handleClose ==
    /\ state' = "kDisconnected"
    /\ channel' = ChannelClosed
    /\ downs' = downs + 1
    /\ EnterUser("closeCallback")
    /\ UNCHANGED <<outputBuffer, sent, accepted, serverVars, remoteVars, pending,
                   batch, batchRef>>

HandleHangup ==
    /\ NextHandler("close")
    /\ handleClose
    /\ UNCHANGED sock

\* closeCallback_: TcpServer::removeConnection.  If the connection lives in the
\* main loop RemoveConnectionInLoop comes at once, else when that loop gets to it.
CloseCallback ==
    /\ pc = "closeCallback"
    /\ pc' = "events"
    /\ removals' = removals + 1
    /\ UNCHANGED <<connVars, todo, ret, batch, batchRef, inMap, serverUp, remoteVars,
                   pending, downs>>

\* handleError() asks for SO_ERROR, which clears it
HandleError ==
    /\ NextHandler("error")
    /\ sock' = [sock EXCEPT !.err = FALSE]
    /\ UNCHANGED <<state, channel, outputBuffer, sent, accepted, pc, ret, batch, batchRef,
                   serverVars, remoteVars, pending, downs>>

\* handleRead(): a message
HandleReadData ==
    /\ NextHandler("read")
    /\ sock.inbound > 0
    /\ sock' = [sock EXCEPT !.inbound = 0]
    /\ EnterUser("events")
    /\ UNCHANGED <<state, channel, outputBuffer, sent, accepted, batch, batchRef,
                   serverVars, remoteVars, pending, downs>>

\* handleRead(): end of the stream
HandleReadEnd ==
    /\ NextHandler("read")
    /\ sock.inbound = 0 /\ ~sock.err
    /\ handleClose
    /\ UNCHANGED sock

\* handleRead(): an error, handed to handleError()
HandleReadError ==
    /\ NextHandler("read")
    /\ sock.err
    /\ sock' = [sock EXCEPT !.err = FALSE]
    /\ UNCHANGED <<state, channel, outputBuffer, sent, accepted, pc, ret, batch, batchRef,
                   serverVars, remoteVars, pending, downs>>

\* handleWrite(): not writing any more, or write() takes nothing
HandleWriteNothing ==
    /\ NextHandler("write")
    /\ UNCHANGED <<connVars, pc, ret, batch, batchRef, serverVars, remoteVars, pending, downs>>

\* A bug to tell apart: the drained connection forgets that shutdown() was called
NoShutdownDue == FALSE

ShutdownDue == state = "kDisconnecting"

\* handleWrite(): write() takes n bytes.  Writing is disabled when none is left,
\* and a shutdown() that waits for this is carried out.
HandleWriteSome ==
    /\ NextHandler("write")
    /\ isWriting(channel)
    /\ ~Broken
    /\ \E n \in 1..Len(outputBuffer) :
         LET drained == n = Len(outputBuffer)
         IN  /\ sent' = sent \o SubSeq(outputBuffer, 1, n)
             /\ outputBuffer' = SubSeq(outputBuffer, n + 1, Len(outputBuffer))
             /\ channel' = IF drained THEN disableWriting(channel) ELSE channel
             /\ \E done \in Told("writeComplete", drained) : pending' = pending \o done
             /\ sock' = [sock EXCEPT !.wrShut = @ \/ (drained /\ ShutdownDue)]
    /\ UNCHANGED <<state, accepted, pc, ret, batch, batchRef, serverVars, remoteVars, downs>>

-----------------------------------------------------------------------------
(* doPendingFunctors() of the loop, and the functors on this connection *)

\* poll returned, its channels are handled, the functors are swapped out
SwapFunctors ==
    /\ \/ pc = "poll" /\ pending # << >>
       \/ pc = "events" /\ todo = {}
    /\ batch' = pending
    /\ pending' = << >>
    /\ batchRef' = HasRef(pending)
    /\ pc' = "functors"
    /\ UNCHANGED <<connVars, todo, ret, serverVars, remoteVars, downs>>

NextFunctor(op) ==
    /\ pc = "functors"
    /\ batch # << >>
    /\ Head(batch).op = op
    /\ batch' = Tail(batch)
    /\ UNCHANGED batchRef

ConnectEstablished ==
    /\ NextFunctor("connectEstablished")
    /\ state' = "kConnected"
    /\ channel' = enableReading(channel)
    /\ EnterUser("functors")
    /\ UNCHANGED <<outputBuffer, sent, accepted, sock, todo, serverVars, remoteVars,
                   pending, downs>>

\* connectDestroyed() of a connection that is still up: connectionCallback_ first
ConnectDestroyedUp ==
    /\ NextFunctor("connectDestroyed")
    /\ state = "kConnected"
    /\ state' = "kDisconnected"
    /\ channel' = disableAll(channel)
    /\ downs' = downs + 1
    /\ EnterUser("remove")
    /\ UNCHANGED <<outputBuffer, sent, accepted, sock, todo, serverVars, remoteVars, pending>>

ConnectDestroyed ==
    /\ \/ NextFunctor("connectDestroyed") /\ state # "kConnected"
       \/ pc = "remove" /\ UNCHANGED <<batch, batchRef>>
    /\ channel' = removeChannel(channel)
    /\ pc' = "functors"
    /\ UNCHANGED <<state, outputBuffer, sent, accepted, sock, todo, ret, serverVars,
                   remoteVars, pending, downs>>

\* send(const std::string&) of another thread binds the c_str() of the caller's
\* string, which is intact when the functor runs if the caller has kept it
Intact(op) == IF op = "sendPointer" /\ ~Disciplined THEN BOOLEAN ELSE {TRUE}

RunSendInLoop(op) ==
    /\ NextFunctor(op)
    /\ \E intact \in Intact(op) : sendInLoop(Head(batch).n, intact)
    /\ UNCHANGED <<pc, todo, ret, serverVars, remoteVars>>

RunShutdownInLoop ==
    /\ NextFunctor("shutdownInLoop")
    /\ shutdownInLoop
    /\ UNCHANGED <<state, pc, todo, ret, serverVars, remoteVars>>

\* writeCompleteCallback_ and highWaterMarkCallback_
RunUserCallback ==
    /\ NextFunctor("writeComplete") \/ NextFunctor("highWater")
    /\ EnterUser("functors")
    /\ UNCHANGED <<connVars, todo, serverVars, remoteVars, pending, downs>>

\* doPendingFunctors() ends and its vector of functors dies
EndFunctors ==
    /\ pc = "functors"
    /\ batch = << >>
    /\ batchRef' = FALSE
    /\ pc' = "poll"
    /\ UNCHANGED <<connVars, todo, ret, batch, serverVars, remoteVars, pending, downs>>

-----------------------------------------------------------------------------
(* The TcpServer, in the main loop's thread *)

\* A bug to tell apart: connections_ keeps the connection
EntryKept == inMap

\* connections_.erase
EntryErased == FALSE

RemoveConnectionInLoop ==
    /\ serverUp
    /\ removals > 0
    /\ removals' = removals - 1
    /\ inMap' = EntryErased
    /\ pending' = Append(pending, Fn("connectDestroyed"))
    /\ UNCHANGED <<connVars, loopVars, serverUp, remoteVars, downs>>

\* ~TcpServer, after the main loop has returned: a removeConnectionInLoop that waits there
\* is not run any more, nor is one that handleClose queues until the I/O threads are joined
DestroyServer ==
    /\ serverUp
    /\ inMap
    /\ serverUp' = FALSE
    /\ inMap' = FALSE
    /\ pending' = Append(pending, Fn("connectDestroyed"))
    /\ UNCHANGED <<connVars, loopVars, removals, remoteVars, downs>>

\* ~EventLoop of the main loop: the functors it has left die, their TcpConnectionPtr too
DestroyMainLoop ==
    /\ ~serverUp
    /\ removals > 0
    /\ removals' = 0
    /\ UNCHANGED <<connVars, loopVars, inMap, serverUp, remoteVars, pending, downs>>

-----------------------------------------------------------------------------
(* Application threads that hold a TcpConnectionPtr *)

RemoteIdle(r) == holds[r] /\ rcall[r] = Idle

RemoteMoves(r, to, n) == rcall' = [rcall EXCEPT ![r] = [at |-> to, n |-> n]]

\* send(): the test of state_ ...
RemoteSend(r, n) ==
    /\ RemoteIdle(r)
    /\ MaySend /\ CanSend(n)
    /\ state = "kConnected"
    /\ RemoteMoves(r, "sendChecked", n)
    /\ UNCHANGED <<connVars, loopVars, serverVars, holds, pending, downs>>

\* ... and the functor
RemoteSendQueue(r, op) ==
    /\ rcall[r].at = "sendChecked"
    /\ pending' = Append(pending, [op |-> op, n |-> rcall[r].n])
    /\ RemoteMoves(r, "idle", 0)
    /\ UNCHANGED <<connVars, loopVars, serverVars, holds, downs>>

\* shutdown(): the test of state_, setState, the functor
RemoteShutdown(r) ==
    /\ RemoteIdle(r)
    /\ MayShutdown
    /\ state = "kConnected"
    /\ RemoteMoves(r, "shutdownChecked", 0)
    /\ UNCHANGED <<connVars, loopVars, serverVars, holds, pending, downs>>

RemoteShutdownSet(r) ==
    /\ rcall[r].at = "shutdownChecked"
    /\ state' = ShuttingDown
    /\ RemoteMoves(r, "shutdownSet", 0)
    /\ UNCHANGED <<channel, outputBuffer, sent, accepted, sock, loopVars, serverVars, holds,
                   pending, downs>>

RemoteShutdownQueue(r) ==
    /\ rcall[r].at = "shutdownSet"
    /\ pending' = Append(pending, Fn("shutdownInLoop"))
    /\ RemoteMoves(r, "idle", 0)
    /\ UNCHANGED <<connVars, loopVars, serverVars, holds, downs>>

\* The thread drops its TcpConnectionPtr.  A disciplined one waits until the
\* functors that bind the raw pointer have run.
RemoteRelease(r) ==
    /\ RemoteIdle(r)
    /\ Disciplined => ~HasRaw(pending) /\ ~HasRaw(batch)
    /\ holds' = [holds EXCEPT ![r] = FALSE]
    /\ UNCHANGED <<connVars, loopVars, serverVars, rcall, pending, downs>>

-----------------------------------------------------------------------------

Handler ==
    \/ HandleHangup \/ CloseCallback \/ HandleError
    \/ HandleReadData \/ HandleReadEnd \/ HandleReadError
    \/ HandleWriteNothing \/ HandleWriteSome

doPendingFunctors ==
    \/ SwapFunctors \/ EndFunctors
    \/ ConnectEstablished \/ ConnectDestroyedUp \/ ConnectDestroyed
    \/ \E op \in SendOps : RunSendInLoop(op)
    \/ RunShutdownInLoop \/ RunUserCallback

RemoteFinishes(r) ==
    \/ \E op \in SendOps : RemoteSendQueue(r, op)
    \/ RemoteShutdownSet(r) \/ RemoteShutdownQueue(r)

Next ==
    \/ PeerSend \/ PeerFin \/ PeerReset
    \/ \E n \in 1..MaxMessage : LoopSend(n)
    \/ LoopShutdown
    \/ \E r \in Remote : LoopShares(r)
    \/ UserReturns
    \/ Dispatch \/ Handler
    \/ doPendingFunctors
    \/ RemoveConnectionInLoop \/ DestroyServer \/ DestroyMainLoop
    \/ \E r \in Remote :
          \/ \E n \in 1..MaxMessage : RemoteSend(r, n)
          \/ RemoteShutdown(r)
          \/ RemoteFinishes(r)
          \/ RemoteRelease(r)

\* The loop's thread runs, its poll reports what is ready and callbacks return;
\* the main loop runs its functors or is destroyed; a thread inside a call finishes it; a thread
\* drops its reference in the end; a peer that stays makes room for output.
Fairness ==
    /\ WF_vars(Dispatch \/ Handler \/ doPendingFunctors) /\ WF_vars(UserReturns)
    /\ SF_vars(Dispatch /\ "write" \in todo') /\ SF_vars(HandleWriteSome)
    /\ WF_vars(RemoveConnectionInLoop) /\ WF_vars(DestroyMainLoop)
    /\ \A r \in Remote : WF_vars(RemoteFinishes(r)) /\ SF_vars(RemoteRelease(r))

Spec == Init /\ [][Next]_vars

FairSpec == Spec /\ Fairness

-----------------------------------------------------------------------------
(* Properties *)

\* The connection's channel and the poller's books stay in agreement
PollerAgrees == BooksAgree(channel)

\* What sendInLoop took on goes to the kernel in order, without gap or
\* duplicate, whatever mix of direct writes, buffered rests and handleWrite
\* carries it.
StreamInOrder == sent \o outputBuffer = [i \in 1..(Len(sent) + Len(outputBuffer)) |-> i]

\* sendInLoop and handleWrite drop no byte on the way, unless the peer has reset the
\* connection; and the library gives a connection up - handleClose and connectDestroyed
\* leave behind what is in outputBuffer_, sendInLoop then refuses what comes - only after
\* the peer has closed it or the server is destroyed.
NothingLost ==
    /\ sock.peer # "rst" => Len(sent) + Len(outputBuffer) = accepted
    /\ sock.peer = "open" /\ serverUp =>
           downs = 0 /\ (outputBuffer # << >> => "write" \in channel.interest)

\* Each byte that sendInLoop took on reaches the kernel in the end, unless the peer closes
\* or the server is destroyed before that
OutputDelivered ==
    \A n \in 1..MaxBytes :
        accepted >= n ~> (Len(sent) >= n \/ sock.peer # "open" \/ ~serverUp)

\* Output that waits in outputBuffer_ of a connection that is not closed has
\* EPOLLOUT registered, so handleWrite will be called for it.
OutputScheduled ==
    outputBuffer # << >> =>
        \/ "write" \in channel.interest
        \/ downs > 0
        \/ channel.index = "kNew"

\* shutdownWrite waits for the output: the peer of a connection that was only
\* shut down gets everything before the end of the stream.
FlushBeforeShutdown ==
    (sock.wrShut /\ downs = 0 /\ channel.index # "kNew") => outputBuffer = << >>

\* The destructor leaves no pointer behind: when the last TcpConnectionPtr goes,
\* the channel is neither in the epoll set nor in channels_.
NoDanglingChannel == ~Alive => ~channel.added /\ ~channel.mapped

\* Whatever runs on the connection, a handler, a callback or a functor, with or
\* without a TcpConnectionPtr of its own, runs while the connection exists.
NoUseAfterFree ==
    \/ pc \in {"events", "user", "closeCallback", "remove"}
    \/ batch # << >>
    \/ HasRaw(pending)
    => Alive

\* The user hears of the end of a connection at most once
DownOnce == downs <= 1

\* The comment of sendInLoop: after a shutdown nothing more is sent
NoSendAfterShutdown == 
    [][(accepted' # accepted /\ sock.peer = "open") => ~sock.wrShut]_vars

\* A shutdown() is carried out, unless the connection ends otherwise
ShutdownCompletes ==
    (state = "kDisconnecting") ~> (sock.wrShut \/ downs > 0 \/ channel.index = "kNew")

\* When the peer is gone the connection is torn down and freed
ClosedIsFreed == (sock.peer # "open") ~> ~Alive
=============================================================================
