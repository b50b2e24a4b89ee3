-------------------------------- MODULE Buffer --------------------------------
(***************************************************************************)
(* The byte buffer of a connection (src/src/net/Buffer.cc): a vector with  *)
(* two indices into it,                                                    *)
(*                                                                         *)
(*    0 .. prependable .. readerIndex .. writerIndex .. Len(cells)         *)
(*                                                                         *)
(* whose middle part is the content.  Space for more is made by moving the *)
(* content to the front or by growing the vector.  Cells outside the       *)
(* content keep whatever bytes they held.                                  *)
(*                                                                         *)
(* The operations are operators on a buffer, so that readFd can call       *)
(* append as the code does; the actions apply them to the one buffer.      *)
(***************************************************************************)
EXTENDS Naturals, Sequences

CONSTANTS Byte,            \* a byte; 0 is what new cells hold
          kCheapPrepend,   \* as in the code, 8
          kInitialSize,    \* as in the code, 1024
          ExtraSize,       \* sizeof(extrabuf), 65536
          IntMax,          \* the largest int, 2^31 - 1
          MaxLength,       \* bound: bytes in one call of append or one readv
          MaxContent       \* bound: bytes in the buffer

\* makeSpace takes its length as an int where ensureWritableBytes has a size_t: it gets the
\* right one if no call adds more than IntMax bytes, which callers of append have to see to.
ASSUME BufferAssumption ==
    /\ {kCheapPrepend, kInitialSize, ExtraSize, IntMax, MaxLength, MaxContent} \subseteq Nat
    /\ kInitialSize <= MaxContent
    /\ 0 < MaxLength /\ MaxLength <= IntMax
    /\ 0 \in Byte

VARIABLES buffer,   \* [cells, readerIndex, writerIndex]
          moved     \* the bytes of the last call: appended, read, returned or written

vars == <<buffer, moved>>

BufferType == [cells : Seq(Byte), readerIndex : Nat, writerIndex : Nat]

\* Byte strings of at most n bytes
Strings(n) == UNION {[1..k -> Byte] : k \in 0..n}

Min2(m, n) == IF m < n THEN m ELSE n

readableBytes(b) == b.writerIndex - b.readerIndex
writableBytes(b) == Len(b.cells) - b.writerIndex
prependableBytes(b) == b.readerIndex

\* begin() + i is cells[i + 1]: n bytes from index i on
Bytes(b, i, n) == [k \in 1..n |-> b.cells[i + k]]

Content(b) == Bytes(b, b.readerIndex, readableBytes(b))

NewBuffer ==
    [cells |-> [i \in 1..(kCheapPrepend + kInitialSize) |-> 0],
     readerIndex |-> kCheapPrepend, writerIndex |-> kCheapPrepend]

Init == buffer = NewBuffer /\ moved = << >>

-----------------------------------------------------------------------------
(* Operations *)

\* buffer_.resize(n): new cells are 0
resize(b, n) ==
    [b EXCEPT !.cells = [i \in 1..n |-> IF i <= Len(b.cells) THEN b.cells[i] ELSE 0]]

\* std::copy of data to begin() + i
Copy(b, data, i) ==
    [b EXCEPT !.cells = [k \in DOMAIN b.cells |->
                            IF k \in (i + 1)..(i + Len(data)) THEN data[k - i] ELSE b.cells[k]]]

MoveToFront(b) ==
    [Copy(b, Content(b), kCheapPrepend) EXCEPT
        !.readerIndex = kCheapPrepend, !.writerIndex = kCheapPrepend + readableBytes(b)]

\* A bug to tell apart: the prependable bytes kept in front are forgotten
FitsWithoutPrepend(b, len) == writableBytes(b) + prependableBytes(b) >= len

\* A bug to tell apart: only the space behind the content counts
FitsBehind(b, len) == writableBytes(b) >= len + kCheapPrepend

\* The space before and behind the content is enough for len bytes
Fits(b, len) == writableBytes(b) + prependableBytes(b) >= len + kCheapPrepend

makeSpace(b, len) == IF Fits(b, len) THEN MoveToFront(b) ELSE resize(b, b.writerIndex + len)

ensureWritableBytes(b, len) == IF writableBytes(b) < len THEN makeSpace(b, len) ELSE b

append(b, data) ==
    LET e == ensureWritableBytes(b, Len(data))
    IN  [Copy(e, data, e.writerIndex) EXCEPT !.writerIndex = @ + Len(data)]

retrieveAll(b) == [b EXCEPT !.readerIndex = kCheapPrepend, !.writerIndex = kCheapPrepend]

retrieve(b, len) ==
    IF len < readableBytes(b) THEN [b EXCEPT !.readerIndex = @ + len] ELSE retrieveAll(b)

-----------------------------------------------------------------------------
(* The calls of the buffer's users *)

AppendData(data) ==
    /\ readableBytes(buffer) + Len(data) <= MaxContent
    /\ buffer' = append(buffer, data)
    /\ moved' = data

\* A bug to tell apart: what readv put into the vector is not counted
FilledUncounted(b) == b

\* writerIndex_ = buffer_.size()
Filled(b) == [b EXCEPT !.writerIndex = Len(b.cells)]

\* readv fills the writable cells and then, if they are few, extrabuf: data is what
\* the socket has for both.
ReadFd(data) ==
    LET writable == writableBytes(buffer)
        n == Len(data)
        read == Copy(buffer, SubSeq(data, 1, Min2(n, writable)), buffer.writerIndex)
    IN  /\ readableBytes(buffer) + n <= MaxContent
        /\ n <= writable + (IF writable < ExtraSize THEN ExtraSize ELSE 0)
        /\ buffer' = IF n <= writable
                     THEN [read EXCEPT !.writerIndex = @ + n]
                     ELSE append(Filled(read), SubSeq(data, writable + 1, n))
        /\ moved' = data

\* write(2) takes n of the readable bytes, which stay in the buffer
WriteFd(n) ==
    /\ moved' = Bytes(buffer, buffer.readerIndex, n)
    /\ UNCHANGED buffer

\* retrieve(len), also by retrieveUntil; len may be more than there is
Retrieve(len) ==
    /\ buffer' = retrieve(buffer, len)
    /\ UNCHANGED moved

\* retrieveAsString(len), also by retrieveAllAsString.  It does not compare len with the
\* content and would copy whatever is behind it: that len is at most readableBytes(), as
\* in Next, is an assumption on the callers.
RetrieveAsString(len) ==
    /\ moved' = Bytes(buffer, buffer.readerIndex, len)
    /\ buffer' = retrieve(buffer, len)

Next ==
    \/ \E data \in Strings(MaxLength) : AppendData(data) \/ ReadFd(data)
    \/ \E n \in 0..readableBytes(buffer) : WriteFd(n) \/ RetrieveAsString(n)
    \/ \E len \in 0..(MaxContent + 1) : Retrieve(len)

Spec == Init /\ [][Next]_vars

-----------------------------------------------------------------------------
(* Properties *)

\* The picture of Buffer.h: the indices stay in order and inside the vector, and the
\* first kCheapPrepend bytes stay free, whatever moves and grows.
TypeOK ==
    /\ buffer \in BufferType
    /\ kCheapPrepend <= buffer.readerIndex
    /\ buffer.readerIndex <= buffer.writerIndex
    /\ buffer.writerIndex <= Len(buffer.cells)

\* The vector only grows when the content does not fit otherwise, so that a buffer
\* whose users keep its content small stays small, however much flows through it.
SizeBounded == Len(buffer.cells) < kCheapPrepend + MaxContent + MaxLength

\* Through moves, growth and reads that spill into extrabuf, the content is a
\* first-in first-out stream of bytes, and what write(2) and the users get of it are
\* its first bytes.
Stream == INSTANCE ByteStream WITH content <- Content(buffer), moved <- moved
StreamSpec == Stream!Spec
=============================================================================
