----------------------------- MODULE AsyncLogging -----------------------------
(***************************************************************************)
(* The asynchronous log (src/src/logger/AsyncLogging.cc, FixedBuffer.h):   *)
(* front-end threads append messages to the current buffer, one back-end   *)
(* thread swaps the filled buffers out, writes them to its LogFile and     *)
(* hands two of them back.                                                 *)
(*                                                                         *)
(* append() runs under mutex_ from beginning to end, so the front-end      *)
(* threads are one action.  A message takes one cell of a buffer.  A       *)
(* buffer that is handed back is reset() but keeps its cells, and          *)
(* length() is the size of the whole buffer: what is written are all       *)
(* cells, old ones again.  A BufferPtr is a sequence of no (nullptr) or    *)
(* one buffer.                                                             *)
(***************************************************************************)
EXTENDS LogFile

CONSTANTS MaxMessages,   \* bound: messages appended in a behaviour
          Size           \* cells of a FixedBuffer

ASSUME SizeAssumption == MaxMessages \in Nat /\ Size \in Nat \ {0, 1}

VARIABLES appended,        \* number of messages appended so far: 1, 2, 3, ...
          currentBuffer,   \* currentBuffer_
          nextBuffer,      \* nextBuffer_
          buffers,         \* buffers_
          newBuffer1, newBuffer2, buffersToWrite,   \* locals of threadFunc
          writing,         \* the number of the buffer that output.append writes
          written,         \* written of FileUtil::append: cells of it already written
          running,         \* running_
          pc,              \* where the back-end thread is
          stopper          \* where the thread that calls stop() is

frontVars == <<appended, currentBuffer, nextBuffer, buffers>>
backVars == <<newBuffer1, newBuffer2, buffersToWrite, writing, written>>
vars == <<frontVars, backVars, fileVars, running, pc, stopper>>

Cell == 0..MaxMessages       \* 0: bytes that are no message

\* FixedBuffer: data_ and how far cur_ is into it
Buffer == [cells : [1..Size -> Cell], cur : 0..Size]

NewBuffer == [cells |-> [i \in 1..Size |-> 0], cur |-> 0]

avail(b) == Size - b.cur

\* FixedBuffer::append of one message
Put(b, m) == [cells |-> [b.cells EXCEPT ![b.cur + 1] = m], cur |-> b.cur + 1]

reset(b) == [b EXCEPT !.cur = 0]

\* The buffers keep their types: currentBuffer_ is never null, the other buffer pointers
\* hold at most one buffer, and cur_ stays inside data_.
TypeOK ==
    /\ appended \in 0..MaxMessages
    /\ Len(currentBuffer) = 1 /\ currentBuffer \in Seq(Buffer)
    /\ \A p \in {nextBuffer, newBuffer1, newBuffer2} : Len(p) <= 1 /\ p \in Seq(Buffer)
    /\ buffers \in Seq(Buffer) /\ buffersToWrite \in Seq(Buffer)
    /\ writing \in 1..(Len(buffersToWrite) + 1) /\ written \in 0..Size
    /\ running \in BOOLEAN
    /\ pc \in {"off", "test", "lock", "wait", "write", "recycle", "ended"}
    /\ stopper \in {"idle", "notify", "join", "joined"}
    /\ disk \in Seq(1..MaxMessages) /\ stream \in Seq(1..MaxMessages)
    /\ writtenBytes \in 0..(RollSize + 1) /\ counts \in 0..(CheckEveryN - 1)

Init ==
    /\ appended = 0
    /\ currentBuffer = <<NewBuffer>> /\ nextBuffer = <<NewBuffer>> /\ buffers = << >>
    /\ newBuffer1 = << >> /\ newBuffer2 = << >> /\ buffersToWrite = << >>
    /\ writing = 1 /\ written = 0
    /\ running = FALSE /\ pc = "off" /\ stopper = "idle"
    /\ NewLogFile

-----------------------------------------------------------------------------
(* The front end *)

\* A bug to tell apart: a full buffer goes to the front of the queue
InFront(b) == <<b>> \o buffers

\* buffers_.push_back
Queued(b) == Append(buffers, b)

\* append(): into the current buffer if it has room, else into the spare one, else
\* into a fresh one.  notify_one may end the wait of the back end, which WakeAndSwap
\* lets happen at any time.
Append1 ==
    /\ appended < MaxMessages
    /\ appended' = appended + 1
    /\ LET m == appended + 1
           b == Head(currentBuffer)
       IN  IF avail(b) > 1
           THEN /\ currentBuffer' = <<Put(b, m)>>
                /\ UNCHANGED <<nextBuffer, buffers>>
           ELSE /\ buffers' = Queued(b)
                /\ currentBuffer' = <<Put(Head(nextBuffer \o <<NewBuffer>>), m)>>
                /\ nextBuffer' = << >>
    /\ UNCHANGED <<backVars, fileVars, running, pc, stopper>>

\* start(): the thread begins with two empty buffers of its own
Start ==
    /\ pc = "off"
    /\ running' = TRUE
    /\ newBuffer1' = <<NewBuffer>>
    /\ newBuffer2' = <<NewBuffer>>
    /\ pc' = "test"
    /\ UNCHANGED <<frontVars, buffersToWrite, writing, written, fileVars, stopper>>

\* stop(): running_ = false ...
Stop ==
    /\ stopper = "idle"
    /\ running
    /\ running' = FALSE
    /\ stopper' = "notify"
    /\ UNCHANGED <<frontVars, backVars, fileVars, pc>>

\* ... notify_one ...
Notify ==
    /\ stopper = "notify"
    /\ stopper' = "join"
    /\ UNCHANGED <<frontVars, backVars, fileVars, running, pc>>

\* ... and join
Join ==
    /\ stopper = "join"
    /\ pc = "ended"
    /\ stopper' = "joined"
    /\ UNCHANGED <<frontVars, backVars, fileVars, running, pc>>

-----------------------------------------------------------------------------
(* The back end: threadFunc *)

\* A bug to tell apart: while (true)
Forever == TRUE

KeepsRunning == running

\* while (running_); after the loop the LogFile is flushed and closed
TestRunning ==
    /\ pc = "test"
    /\ IF KeepsRunning THEN pc' = "lock" /\ NoFlush ELSE pc' = "ended" /\ fflush
    /\ UNCHANGED <<frontVars, backVars, writtenBytes, counts, running, stopper>>

\* if (buffers_.empty()) cond_.wait_for(lock, 3 s)
Wait ==
    /\ pc = "lock"
    /\ buffers = << >>
    /\ pc' = "wait"
    /\ UNCHANGED <<frontVars, backVars, fileVars, running, stopper>>

\* A bug to tell apart: the front end always gets the second spare buffer
SpareAlways == TRUE

\* if (!nextBuffer_)
SpareNeeded == nextBuffer = << >>

\* The rest of the critical section: current and filled buffers go out, the spare
\* ones come in
SwapBuffers ==
    /\ currentBuffer' = newBuffer1
    /\ newBuffer1' = << >>
    /\ buffersToWrite' = buffers \o currentBuffer
    /\ buffers' = << >>
    /\ IF SpareNeeded
       THEN nextBuffer' = newBuffer2 /\ newBuffer2' = << >>
       ELSE UNCHANGED <<nextBuffer, newBuffer2>>
    /\ pc' = "write"
    /\ UNCHANGED <<appended, writing, written, fileVars, running, stopper>>

SwapAtOnce ==
    /\ pc = "lock"
    /\ buffers # << >>
    /\ SwapBuffers

\* A bug to tell apart: the wait goes on while no buffer is full
WakeWhenFull ==
    /\ pc = "wait"
    /\ buffers # << >>
    /\ SwapBuffers

\* The wait ends: notified, timed out or spurious
WakeAndSwap ==
    /\ pc = "wait"
    /\ SwapBuffers

\* One turn of the loop in FileUtil::append: stdio takes n of the cells that remain,
\* fewer than all, or none, if there is an error
WriteSome(n) ==
    /\ pc = "write"
    /\ written < Size
    /\ fwrite(SubSeq(buffersToWrite[writing].cells, written + 1, written + n))
    /\ written' = written + n
    /\ UNCHANGED <<frontVars, newBuffer1, newBuffer2, buffersToWrite, writing, writtenBytes,
                   counts, running, pc, stopper>>

\* The end of output.append(buffer->data(), buffer->length()), and on to the next buffer
EndAppend ==
    /\ pc = "write"
    /\ written = Size
    /\ written' = 0
    /\ \E clock \in Clock : AfterAppend(Size, clock)
    /\ IF writing < Len(buffersToWrite) THEN writing' = writing + 1 /\ UNCHANGED pc
                                        ELSE writing' = 1 /\ pc' = "recycle"
    /\ UNCHANGED <<frontVars, newBuffer1, newBuffer2, buffersToWrite, running, stopper>>

\* if (buffersToWrite.size() > 2) buffersToWrite.resize(2)
Kept == SubSeq(buffersToWrite, 1, IF Len(buffersToWrite) > 2 THEN 2 ELSE Len(buffersToWrite))

\* A bug to tell apart: newBuffer1 is not refilled
NothingBack == << >>

\* The last buffer becomes newBuffer1
BackToFirst == <<reset(Last(Kept))>>

\* Two buffers are kept, and taken back from the end: the last one becomes
\* newBuffer1, the one before newBuffer2 if that is missing; then flush
Recycle ==
    /\ pc = "recycle"
    /\ newBuffer1' = BackToFirst
    /\ newBuffer2' = IF newBuffer2 = << >> THEN <<reset(Last(Front(Kept)))>> ELSE newBuffer2
    /\ buffersToWrite' = << >>
    /\ fflush
    /\ pc' = "test"
    /\ UNCHANGED <<frontVars, writing, written, writtenBytes, counts, running, stopper>>

-----------------------------------------------------------------------------

\* The steps of the back end, save that stdio takes nothing
Progress ==
    \/ TestRunning \/ Wait \/ SwapAtOnce \/ WakeAndSwap \/ EndAppend \/ Recycle
    \/ \E n \in 1..(Size - written) : WriteSome(n)

threadFunc == Progress \/ WriteSome(0)

stop == Stop \/ Notify \/ Join

Next == Append1 \/ Start \/ stop \/ threadFunc

\* The back-end thread runs, its wait ends after three seconds at the latest, and the
\* disk takes data in the end; a thread inside stop() goes on.
Fairness == WF_vars(Progress) /\ WF_vars(Notify \/ Join)

Spec == Init /\ [][Next]_vars

FairSpec == Spec /\ Fairness

-----------------------------------------------------------------------------
(* Properties *)

\* The messages that append() has put in the buffer, up to cur_
Live(b) == {b.cells[i] : i \in 1..b.cur}

Held(bs) == UNION {Live(bs[i]) : i \in DOMAIN bs}

\* Through append, swap, partial writes, rolled files and recycling no message gets
\* lost: it is on the disk or in a buffer that is still to be written, and a buffer
\* is handed back only when its messages are on the disk.
NothingDropped ==
    \A m \in 1..appended :
        \/ m \in ToSet(disk)
        \/ m \in Held(currentBuffer) \cup Held(buffers)
        \/ pc \in {"write", "recycle"} /\ m \in Held(buffersToWrite)

\* The messages appear in the files for the first time in the order in which they were
\* appended, although buffers are exchanged, handed back and reused with their old
\* contents, written in parts and over several files.  Repetitions of messages that a
\* reused buffer still holds are not looked at (Fresh).
OrderKept == \A i \in DOMAIN (disk \o stream) : (disk \o stream)[i] = i

\* buffersToWrite.back() is never called on an empty vector
BackNeverEmpty ==
    pc = "recycle" => Len(buffersToWrite) >= IF newBuffer2 = << >> THEN 2 ELSE 1

\* A message appended to a running log reaches the disk unless the log is stopped
MessagesReachDisk ==
    \A m \in 1..MaxMessages :
        (m <= appended /\ running) ~> (m \in ToSet(disk) \/ ~running)

\* stop() returns
StopReturns == stopper = "notify" ~> stopper = "joined"

\* What introduction/异步日志模块.md says: what is buffered goes to the disk when the
\* log is destroyed.  A message appended before stop() is called, which the
\* destructor does, is on the disk once stop() has returned.
StopWritesAll ==
    \A m \in 1..MaxMessages :
        [](m <= appended /\ stopper = "idle" => [](stopper = "joined" => m \in ToSet(disk)))
=============================================================================
