----------------------------- MODULE BufferProofs -----------------------------
(***************************************************************************)
(* Proofs about Buffer for buffers and bytes of any size: the indices stay *)
(* in order, the vector stays small, and the content is the stream of      *)
(* ByteStream.                                                             *)
(***************************************************************************)
EXTENDS Buffer, SequenceTheorems, TLAPS

\* The picture of Buffer.h, for a buffer b (TypeOK says it of the variable)
WellFormed(b) ==
    /\ b \in BufferType
    /\ kCheapPrepend <= b.readerIndex
    /\ b.readerIndex <= b.writerIndex
    /\ b.writerIndex <= Len(b.cells)

\* data is written behind the content, where there is space for it
Extended(b, data) == [Copy(b, data, b.writerIndex) EXCEPT !.writerIndex = @ + Len(data)]

-----------------------------------------------------------------------------
(* Sequences as functions *)

LEMMA FunctionIsSeq ==
    ASSUME NEW S, NEW n \in Nat, NEW f \in [1..n -> S]
    PROVE  f \in Seq(S) /\ Len(f) = n
OBVIOUS

LEMMA IsConcat ==
    ASSUME NEW S, NEW p \in Seq(S), NEW d \in Seq(S), NEW q \in Seq(S),
           Len(q) = Len(p) + Len(d),
           \A k \in 1..Len(p) : q[k] = p[k],
           \A k \in 1..Len(d) : q[Len(p) + k] = d[k]
    PROVE  q = p \o d
<1>1. Len(p) \in Nat /\ Len(d) \in Nat
  BY LenProperties
<1>2. /\ p \o d \in Seq(S) /\ Len(p \o d) = Len(p) + Len(d)
      /\ \A i \in 1..(Len(p) + Len(d)) :
            (p \o d)[i] = IF i <= Len(p) THEN p[i] ELSE d[i - Len(p)]
  BY ConcatProperties
<1>3. ASSUME NEW i \in 1..Len(q) PROVE q[i] = (p \o d)[i]
  <2>1. CASE i <= Len(p)
    BY <1>1, <1>2, <2>1
  <2>2. CASE i > Len(p)
    <3>1. i - Len(p) \in 1..Len(d) /\ Len(p) + (i - Len(p)) = i
      BY <1>1, <2>2
    <3>2. q[i] = d[i - Len(p)]
      BY <3>1
    <3>. QED
      BY <1>1, <1>2, <2>2, <3>2
  <2>. QED
    BY <1>1, <2>1, <2>2
<1>. QED
  BY <1>2, <1>3, SeqEqual

LEMMA SubSeqIs ==
    ASSUME NEW S, NEW c \in Seq(S), NEW d \in Seq(S), NEW m \in Nat, NEW n \in Nat,
           m <= n, n <= Len(c), Len(d) = n - m,
           \A k \in 1..(n - m) : d[k] = c[m + k]
    PROVE  d = SubSeq(c, m + 1, n)
<1>1. Len(c) \in Nat
  BY LenProperties
<1>2. /\ SubSeq(c, m + 1, n) \in Seq(S)
      /\ Len(SubSeq(c, m + 1, n)) = n - m
      /\ \A k \in 1..(n - m) : SubSeq(c, m + 1, n)[k] = c[m + k]
  BY <1>1, SubSeqProperties
<1>. QED
  BY <1>2, SeqEqual

LEMMA SplitSeq ==
    ASSUME NEW S, NEW s \in Seq(S), NEW w \in Nat, w <= Len(s)
    PROVE  /\ SubSeq(s, 1, w) \in Seq(S) /\ SubSeq(s, w + 1, Len(s)) \in Seq(S)
           /\ Len(SubSeq(s, 1, w)) = w /\ Len(SubSeq(s, w + 1, Len(s))) = Len(s) - w
           /\ SubSeq(s, 1, w) \o SubSeq(s, w + 1, Len(s)) = s
<1>1. Len(s) \in Nat
  BY LenProperties
<1>2. PICK p : p = SubSeq(s, 1, w)
  OBVIOUS
<1>3. PICK q : q = SubSeq(s, w + 1, Len(s))
  OBVIOUS
<1>4. p \in Seq(S) /\ Len(p) = w /\ \A k \in 1..w : s[k] = p[k]
  BY <1>1, <1>2, SubSeqProperties
<1>5. q \in Seq(S) /\ Len(q) = Len(s) - w /\ \A k \in 1..(Len(s) - w) : s[w + k] = q[k]
  BY <1>1, <1>3, SubSeqProperties
<1>6. s = p \o q
  <2>1. /\ Len(s) = Len(p) + Len(q)
        /\ \A k \in 1..Len(p) : s[k] = p[k]
        /\ \A k \in 1..Len(q) : s[Len(p) + k] = q[k]
    BY <1>1, <1>4, <1>5
  <2>. QED
    BY <1>4, <1>5, <2>1, IsConcat
<1>. QED
  BY <1>2, <1>3, <1>4, <1>5, <1>6

LEMMA StringIsSeq ==
    ASSUME NEW n \in Nat, NEW s \in Strings(n)
    PROVE  s \in Seq(Byte) /\ Len(s) \in Nat /\ Len(s) <= n
<1>1. PICK k \in 0..n : s \in [1..k -> Byte]
  BY DEF Strings
<1>. QED
  BY <1>1, FunctionIsSeq

\* n elements of s from index i on
Slice(s, i, n) == [k \in 1..n |-> s[i + k]]

LEMMA SliceProperties ==
    ASSUME NEW S, NEW s \in Seq(S), NEW i \in Nat, NEW n \in Nat, i + n <= Len(s)
    PROVE  /\ Slice(s, i, n) \in Seq(S)
           /\ Len(Slice(s, i, n)) = n
           /\ \A k \in 1..n : Slice(s, i, n)[k] = s[i + k]
<1>1. \A k \in 1..n : s[i + k] \in S
  <2>. TAKE k \in 1..n
  <2>1. i + k \in 1..Len(s)
    BY LenProperties
  <2>. QED
    BY <2>1, ElementOfSeq
<1>2. Slice(s, i, n) \in [1..n -> S]
  BY <1>1 DEF Slice
<1>. QED
  BY <1>2, FunctionIsSeq DEF Slice

LEMMA WellFormedNumbers ==
    ASSUME NEW b, WellFormed(b)
    PROVE  /\ b.cells \in Seq(Byte) /\ Len(b.cells) \in Nat
           /\ b.readerIndex \in Nat /\ b.writerIndex \in Nat /\ kCheapPrepend \in Nat
           /\ readableBytes(b) \in Nat /\ writableBytes(b) \in Nat
           /\ b.readerIndex + readableBytes(b) = b.writerIndex
           /\ b.writerIndex + writableBytes(b) = Len(b.cells)
<1>1. /\ b.cells \in Seq(Byte) /\ Len(b.cells) \in Nat
      /\ b.readerIndex \in Nat /\ b.writerIndex \in Nat /\ kCheapPrepend \in Nat
  BY LenProperties, BufferAssumption DEF WellFormed, BufferType
<1>. QED
  BY <1>1 DEF WellFormed, readableBytes, writableBytes

LEMMA ContentProperties ==
    ASSUME NEW b, WellFormed(b)
    PROVE  /\ Content(b) \in Seq(Byte)
           /\ Len(Content(b)) = readableBytes(b)
           /\ \A k \in 1..readableBytes(b) : Content(b)[k] = b.cells[b.readerIndex + k]
<1>1. /\ b \in BufferType /\ b.readerIndex \in Nat /\ readableBytes(b) \in Nat
      /\ b.readerIndex + readableBytes(b) <= Len(b.cells)
  BY WellFormedNumbers DEF WellFormed
<1>. QED
  BY <1>1, SliceProperties, LenProperties DEF Content, Bytes, Slice, BufferType

-----------------------------------------------------------------------------
(* The operations *)

LEMMA CopyProperties ==
    ASSUME NEW b \in BufferType, NEW data \in Seq(Byte), NEW i \in Nat
    PROVE  /\ Copy(b, data, i) \in BufferType
           /\ Len(Copy(b, data, i).cells) = Len(b.cells)
           /\ Copy(b, data, i).readerIndex = b.readerIndex
           /\ Copy(b, data, i).writerIndex = b.writerIndex
           /\ \A k \in 1..Len(b.cells) :
                 Copy(b, data, i).cells[k] =
                     IF k \in (i + 1)..(i + Len(data)) THEN data[k - i] ELSE b.cells[k]
<1>. DEFINE c == [k \in DOMAIN b.cells |->
                    IF k \in (i + 1)..(i + Len(data)) THEN data[k - i] ELSE b.cells[k]]
<1>1. /\ b.cells \in Seq(Byte) /\ Len(b.cells) \in Nat /\ DOMAIN b.cells = 1..Len(b.cells)
      /\ b.readerIndex \in Nat /\ b.writerIndex \in Nat
  BY LenProperties DEF BufferType
<1>2. ASSUME NEW k \in 1..Len(b.cells)
      PROVE  (IF k \in (i + 1)..(i + Len(data)) THEN data[k - i] ELSE b.cells[k]) \in Byte
  <2>1. CASE k \in (i + 1)..(i + Len(data))
    <3>1. k - i \in 1..Len(data)
      BY <2>1, LenProperties
    <3>. QED
      BY <2>1, <3>1, ElementOfSeq
  <2>2. CASE k \notin (i + 1)..(i + Len(data))
    BY <1>1, <2>2, ElementOfSeq
  <2>. QED
    BY <2>1, <2>2
<1>3. c \in [1..Len(b.cells) -> Byte]
  BY <1>1, <1>2
<1>4. c \in Seq(Byte) /\ Len(c) = Len(b.cells)
  BY <1>1, <1>3, FunctionIsSeq
<1>5. Copy(b, data, i) = [b EXCEPT !.cells = c]
  BY DEF Copy
<1>6. Copy(b, data, i) = [cells |-> c, readerIndex |-> b.readerIndex, writerIndex |-> b.writerIndex]
  BY <1>5 DEF BufferType
<1>7. \A k \in 1..Len(b.cells) :
         c[k] = IF k \in (i + 1)..(i + Len(data)) THEN data[k - i] ELSE b.cells[k]
  BY <1>1
<1>. HIDE DEF c
<1>. QED
  BY <1>1, <1>4, <1>6, <1>7 DEF BufferType

LEMMA ExtendedProperties ==
    ASSUME NEW b, WellFormed(b), NEW data \in Seq(Byte), Len(data) <= writableBytes(b)
    PROVE  /\ WellFormed(Extended(b, data))
           /\ Len(Extended(b, data).cells) = Len(b.cells)
           /\ Extended(b, data).readerIndex = b.readerIndex
           /\ Extended(b, data).writerIndex = b.writerIndex + Len(data)
           /\ Content(Extended(b, data)) = Content(b) \o data
<1>c. PICK c : c = Copy(b, data, b.writerIndex)
  OBVIOUS
<1>e. PICK e : e = Extended(b, data)
  OBVIOUS
<1>1. /\ b.cells \in Seq(Byte) /\ Len(b.cells) \in Nat
      /\ b.readerIndex \in Nat /\ b.writerIndex \in Nat /\ kCheapPrepend \in Nat
      /\ readableBytes(b) \in Nat /\ writableBytes(b) \in Nat
      /\ b.readerIndex + readableBytes(b) = b.writerIndex
      /\ b.writerIndex + writableBytes(b) = Len(b.cells)
  BY WellFormedNumbers
<1>2. b \in BufferType /\ Len(data) \in Nat
  BY LenProperties DEF WellFormed
<1>3. /\ c \in BufferType /\ Len(c.cells) = Len(b.cells)
      /\ c.readerIndex = b.readerIndex /\ c.writerIndex = b.writerIndex
      /\ \A k \in 1..Len(b.cells) :
            c.cells[k] = IF k \in (b.writerIndex + 1)..(b.writerIndex + Len(data))
                         THEN data[k - b.writerIndex] ELSE b.cells[k]
  <2>1. PICK i \in Nat : i = b.writerIndex
    BY <1>1
  <2>2. c = Copy(b, data, i)
    BY <1>c, <2>1
  <2>3. /\ c \in BufferType /\ Len(c.cells) = Len(b.cells)
        /\ c.readerIndex = b.readerIndex /\ c.writerIndex = b.writerIndex
        /\ \A k \in 1..Len(b.cells) :
              c.cells[k] = IF k \in (i + 1)..(i + Len(data)) THEN data[k - i] ELSE b.cells[k]
    BY <1>2, <2>2, CopyProperties
  <2>. QED
    BY <2>1, <2>3
<1>4. /\ e \in BufferType /\ e.cells = c.cells /\ e.readerIndex = b.readerIndex
      /\ e.writerIndex = b.writerIndex + Len(data)
  <2>1. e = [c EXCEPT !.writerIndex = @ + Len(data)]
    BY <1>c, <1>e DEF Extended
  <2>2. /\ c.cells \in Seq(Byte) /\ c.readerIndex \in Nat
        /\ c.writerIndex + Len(data) \in Nat
    BY <1>1, <1>2, <1>3 DEF BufferType
  <2>3. e = [cells |-> c.cells, readerIndex |-> c.readerIndex,
             writerIndex |-> c.writerIndex + Len(data)]
    BY <1>3, <2>1 DEF BufferType
  <2>. QED
    BY <1>3, <2>2, <2>3 DEF BufferType
<1>5. WellFormed(e) /\ readableBytes(e) = readableBytes(b) + Len(data)
  BY <1>1, <1>2, <1>3, <1>4 DEF WellFormed, readableBytes
<1>6. Content(e) = Content(b) \o data
  <2>1. PICK p : p = Content(b)
    OBVIOUS
  <2>2. PICK q : q = Content(e)
    OBVIOUS
  <2>3. PICK s : s = b.cells
    OBVIOUS
  <2>4. PICK t : t = c.cells
    OBVIOUS
  <2>5. PICK r \in Nat : r = b.readerIndex
    BY <1>1
  <2>6. /\ p \in Seq(Byte) /\ Len(p) = readableBytes(b)
        /\ \A k \in 1..Len(p) : p[k] = s[r + k]
    BY <2>1, <2>3, <2>5, ContentProperties
  <2>7. /\ q \in Seq(Byte) /\ Len(q) = Len(p) + Len(data)
        /\ \A k \in 1..Len(q) : q[k] = t[r + k]
    BY <1>4, <1>5, <2>2, <2>4, <2>5, <2>6, ContentProperties
  <2>8. s \in Seq(Byte) /\ t \in Seq(Byte)
    BY <1>1, <1>3, <2>3, <2>4 DEF BufferType
  <2>9. r + Len(p) = b.writerIndex /\ Len(p) \in Nat
    BY <1>1, <2>5, <2>6
  <2>10. r + (Len(p) + Len(data)) <= Len(s)
    BY <1>1, <1>2, <2>3, <2>5, <2>6
  <2>11. \A k \in 1..Len(s) :
            t[k] = IF k \in (r + Len(p) + 1)..(r + Len(p) + Len(data))
                   THEN data[k - (r + Len(p))] ELSE s[k]
    BY <1>3, <2>3, <2>4, <2>9
  <2>n. /\ Len(s) \in Nat /\ Len(data) \in Nat /\ Len(p) \in Nat /\ r \in Nat
        /\ Len(q) = Len(p) + Len(data)
    BY <1>1, <1>2, <2>3, <2>5, <2>7, <2>9
  <2>12. ASSUME NEW k \in 1..Len(p)
         PROVE  q[k] = p[k]
    <3>1. /\ r + k \in 1..Len(s) /\ k \in 1..Len(q)
          /\ r + k \notin (r + Len(p) + 1)..(r + Len(p) + Len(data))
      BY <2>n, <2>10
    <3>2. t[r + k] = s[r + k]
      BY <2>11, <3>1
    <3>. QED
      BY <2>6, <2>7, <3>1, <3>2
  <2>13. ASSUME NEW k \in 1..Len(data)
         PROVE  q[Len(p) + k] = data[k]
    <3>1. /\ r + (Len(p) + k) \in 1..Len(s) /\ Len(p) + k \in 1..Len(q)
          /\ r + (Len(p) + k) \in (r + Len(p) + 1)..(r + Len(p) + Len(data))
          /\ (r + (Len(p) + k)) - (r + Len(p)) = k
      BY <2>n, <2>10
    <3>2. t[r + (Len(p) + k)] = data[k]
      BY <2>11, <3>1
    <3>. QED
      BY <2>7, <3>1, <3>2
  <2>14. q = p \o data
    BY <2>6, <2>7, <2>12, <2>13, IsConcat
  <2>. QED
    BY <2>1, <2>2, <2>14, Zenon
<1>. QED
  BY <1>e, <1>3, <1>4, <1>5, <1>6

LEMMA MoveProperties ==
    ASSUME NEW b, WellFormed(b)
    PROVE  /\ WellFormed(MoveToFront(b))
           /\ Len(MoveToFront(b).cells) = Len(b.cells)
           /\ MoveToFront(b).writerIndex = kCheapPrepend + readableBytes(b)
           /\ Content(MoveToFront(b)) = Content(b)
<1>1. PICK data : data = Content(b)
  OBVIOUS
<1>2. PICK c : c = Copy(b, data, kCheapPrepend)
  OBVIOUS
<1>3. PICK m : m = MoveToFront(b)
  OBVIOUS
<1>4. PICK n \in Nat : n = readableBytes(b)
  BY WellFormedNumbers
<1>5. data \in Seq(Byte) /\ Len(data) = n /\ b \in BufferType /\ kCheapPrepend \in Nat
  BY <1>1, <1>4, ContentProperties, WellFormedNumbers DEF WellFormed
<1>6. kCheapPrepend + n <= Len(b.cells) /\ Len(b.cells) \in Nat
  <2>1. /\ b.readerIndex \in Nat /\ b.writerIndex \in Nat /\ Len(b.cells) \in Nat
        /\ b.readerIndex + n = b.writerIndex
    BY <1>4, WellFormedNumbers
  <2>2. kCheapPrepend <= b.readerIndex /\ b.writerIndex <= Len(b.cells)
    BY DEF WellFormed
  <2>. QED
    BY <1>4, <1>5, <2>1, <2>2
<1>7. /\ c \in BufferType /\ Len(c.cells) = Len(b.cells)
      /\ \A k \in 1..Len(b.cells) :
            c.cells[k] = IF k \in (kCheapPrepend + 1)..(kCheapPrepend + Len(data))
                         THEN data[k - kCheapPrepend] ELSE b.cells[k]
  BY <1>2, <1>5, CopyProperties
<1>8. m = [cells |-> c.cells, readerIndex |-> kCheapPrepend, writerIndex |-> kCheapPrepend + n]
  <2>1. m = [c EXCEPT !.readerIndex = kCheapPrepend, !.writerIndex = kCheapPrepend + n]
    BY <1>1, <1>2, <1>3, <1>4 DEF MoveToFront
  <2>. QED
    BY <1>7, <2>1 DEF BufferType
<1>9. /\ m \in BufferType /\ m.cells = c.cells
      /\ m.readerIndex = kCheapPrepend /\ m.writerIndex = kCheapPrepend + n
  <2>1. c.cells \in Seq(Byte) /\ kCheapPrepend + n \in Nat
    BY <1>4, <1>5, <1>7 DEF BufferType
  <2>. QED
    BY <1>5, <1>8, <2>1 DEF BufferType
<1>10. WellFormed(m) /\ readableBytes(m) = n
  BY <1>4, <1>5, <1>6, <1>7, <1>9 DEF WellFormed, readableBytes
<1>11. Content(m) = data
  <2>1. /\ Content(m) \in Seq(Byte) /\ Len(Content(m)) = n
        /\ \A k \in 1..n : Content(m)[k] = c.cells[kCheapPrepend + k]
    BY <1>9, <1>10, ContentProperties
  <2>2. ASSUME NEW k \in 1..n PROVE Content(m)[k] = data[k]
    <3>1. /\ kCheapPrepend + k \in 1..Len(b.cells)
          /\ kCheapPrepend + k \in (kCheapPrepend + 1)..(kCheapPrepend + Len(data))
          /\ (kCheapPrepend + k) - kCheapPrepend = k
      BY <1>4, <1>5, <1>6
    <3>2. c.cells[kCheapPrepend + k] = data[k]
      BY <1>7, <3>1
    <3>. QED
      BY <2>1, <3>2
  <2>. QED
    BY <1>5, <2>1, <2>2, SeqEqual
<1>. QED
  BY <1>1, <1>3, <1>4, <1>7, <1>9, <1>10, <1>11

LEMMA ResizeProperties ==
    ASSUME NEW b, WellFormed(b), NEW n \in Nat, Len(b.cells) <= n
    PROVE  /\ WellFormed(resize(b, n))
           /\ Len(resize(b, n).cells) = n
           /\ resize(b, n).writerIndex = b.writerIndex
           /\ Content(resize(b, n)) = Content(b)
<1>1. PICK s : s = [i \in 1..n |-> IF i <= Len(b.cells) THEN b.cells[i] ELSE 0]
  OBVIOUS
<1>2. PICK m : m = resize(b, n)
  OBVIOUS
<1>3. /\ b.cells \in Seq(Byte) /\ Len(b.cells) \in Nat /\ b \in BufferType
      /\ b.readerIndex \in Nat /\ b.writerIndex \in Nat
      /\ kCheapPrepend <= b.readerIndex /\ b.readerIndex <= b.writerIndex
      /\ b.writerIndex <= Len(b.cells)
  BY WellFormedNumbers DEF WellFormed
<1>4. s \in Seq(Byte) /\ Len(s) = n /\ \A i \in 1..Len(b.cells) : s[i] = b.cells[i]
  <2>1. ASSUME NEW i \in 1..n
        PROVE  (IF i <= Len(b.cells) THEN b.cells[i] ELSE 0) \in Byte
    BY <1>3, ElementOfSeq, BufferAssumption
  <2>2. s \in [1..n -> Byte]
    BY <1>1, <2>1
  <2>3. \A i \in 1..Len(b.cells) : s[i] = b.cells[i]
    BY <1>1, <1>3
  <2>. QED
    BY <2>2, <2>3, FunctionIsSeq
<1>5. m = [cells |-> s, readerIndex |-> b.readerIndex, writerIndex |-> b.writerIndex]
  <2>1. m = [b EXCEPT !.cells = s]
    BY <1>1, <1>2 DEF resize
  <2>. QED
    BY <1>3, <2>1 DEF BufferType
<1>6. /\ m \in BufferType /\ m.cells = s
      /\ m.readerIndex = b.readerIndex /\ m.writerIndex = b.writerIndex
  BY <1>3, <1>4, <1>5 DEF BufferType
<1>7. WellFormed(m) /\ readableBytes(m) = readableBytes(b)
  <2>1. b.writerIndex <= n
    BY <1>3
  <2>. QED
    BY <1>3, <1>4, <1>6, <2>1 DEF WellFormed, readableBytes
<1>8. Content(m) = Content(b)
  <2>1. PICK r \in Nat : r = readableBytes(b) /\ b.readerIndex + r = b.writerIndex
    BY WellFormedNumbers
  <2>2. /\ Content(m) \in Seq(Byte) /\ Len(Content(m)) = r
        /\ \A k \in 1..r : Content(m)[k] = s[b.readerIndex + k]
    BY <1>6, <1>7, <2>1, ContentProperties
  <2>3. /\ Content(b) \in Seq(Byte) /\ Len(Content(b)) = r
        /\ \A k \in 1..r : Content(b)[k] = b.cells[b.readerIndex + k]
    BY <2>1, ContentProperties
  <2>4. ASSUME NEW k \in 1..r PROVE Content(m)[k] = Content(b)[k]
    <3>1. b.readerIndex + k \in 1..Len(b.cells)
      BY <1>3, <2>1
    <3>. QED
      BY <1>4, <2>2, <2>3, <3>1
  <2>. QED
    BY <2>2, <2>3, <2>4, SeqEqual
<1>. QED
  BY <1>2, <1>4, <1>6, <1>7, <1>8

\* ensureWritableBytes makes room for len bytes and leaves the content alone; the vector
\* grows only when the free space before and behind the content is too small.
LEMMA EnsureProperties ==
    ASSUME NEW b, WellFormed(b), NEW len \in Nat
    PROVE  /\ WellFormed(ensureWritableBytes(b, len))
           /\ Content(ensureWritableBytes(b, len)) = Content(b)
           /\ len <= writableBytes(ensureWritableBytes(b, len))
           /\ \/ Len(ensureWritableBytes(b, len).cells) = Len(b.cells)
              \/ Len(ensureWritableBytes(b, len).cells) < kCheapPrepend + readableBytes(b) + len + len
<1>1. /\ Len(b.cells) \in Nat /\ b.readerIndex \in Nat /\ b.writerIndex \in Nat
      /\ kCheapPrepend \in Nat /\ readableBytes(b) \in Nat /\ writableBytes(b) \in Nat
      /\ b.readerIndex + readableBytes(b) = b.writerIndex
      /\ b.writerIndex + writableBytes(b) = Len(b.cells)
  BY WellFormedNumbers
<1>2. CASE writableBytes(b) >= len
  <2>1. ensureWritableBytes(b, len) = b
    BY <1>1, <1>2 DEF ensureWritableBytes
  <2>. QED
    BY <1>2, <2>1
<1>3. CASE writableBytes(b) < len /\ Fits(b, len)
  <2>1. ensureWritableBytes(b, len) = MoveToFront(b)
    BY <1>3 DEF ensureWritableBytes, makeSpace
  <2>2. PICK m : m = MoveToFront(b)
    OBVIOUS
  <2>3. /\ WellFormed(m) /\ Len(m.cells) = Len(b.cells)
        /\ m.writerIndex = kCheapPrepend + readableBytes(b) /\ Content(m) = Content(b)
    BY <2>2, MoveProperties
  <2>4. writableBytes(b) + b.readerIndex >= len + kCheapPrepend
    BY <1>3 DEF Fits, prependableBytes
  <2>5. len <= writableBytes(m)
    BY <1>1, <2>3, <2>4 DEF writableBytes
  <2>. QED
    BY <2>1, <2>2, <2>3, <2>5
<1>4. CASE writableBytes(b) < len /\ ~Fits(b, len)
  <2>1. ensureWritableBytes(b, len) = resize(b, b.writerIndex + len)
    BY <1>4 DEF ensureWritableBytes, makeSpace
  <2>2. PICK n \in Nat : n = b.writerIndex + len
    BY <1>1
  <2>3. PICK m : m = resize(b, n)
    OBVIOUS
  <2>4. Len(b.cells) <= n
    BY <1>1, <1>4, <2>2
  <2>5. /\ WellFormed(m) /\ Len(m.cells) = n /\ m.writerIndex = b.writerIndex
        /\ Content(m) = Content(b)
    BY <2>2, <2>3, <2>4, ResizeProperties
  <2>6. len <= writableBytes(m)
    BY <1>1, <2>2, <2>5 DEF writableBytes
  <2>7. writableBytes(b) + b.readerIndex < len + kCheapPrepend
    BY <1>1, <1>4 DEF Fits, prependableBytes
  <2>8. n < kCheapPrepend + readableBytes(b) + len + len
    <3>1. b.readerIndex < len + kCheapPrepend
      BY <1>1, <2>7
    <3>2. n = (b.readerIndex + readableBytes(b)) + len
      BY <1>1, <2>2
    <3>. QED
      BY <1>1, <3>1, <3>2
  <2>. QED
    BY <2>1, <2>2, <2>3, <2>5, <2>6, <2>8
<1>. QED
  BY <1>1, <1>2, <1>3, <1>4

LEMMA AppendBytesProperties ==
    ASSUME NEW b, WellFormed(b), NEW data \in Seq(Byte)
    PROVE  /\ WellFormed(append(b, data))
           /\ Content(append(b, data)) = Content(b) \o data
           /\ \/ Len(append(b, data).cells) = Len(b.cells)
              \/ Len(append(b, data).cells)
                    < kCheapPrepend + readableBytes(b) + Len(data) + Len(data)
<1>1. PICK len \in Nat : len = Len(data)
  BY LenProperties
<1>2. PICK e : e = ensureWritableBytes(b, len)
  OBVIOUS
<1>3. append(b, data) = Extended(e, data)
  BY <1>1, <1>2 DEF append, Extended
<1>4. /\ WellFormed(e) /\ Content(e) = Content(b) /\ len <= writableBytes(e)
      /\ \/ Len(e.cells) = Len(b.cells)
         \/ Len(e.cells) < kCheapPrepend + readableBytes(b) + len + len
  BY <1>1, <1>2, EnsureProperties
<1>5. PICK a : a = Extended(e, data)
  OBVIOUS
<1>6. WellFormed(a) /\ Len(a.cells) = Len(e.cells) /\ Content(a) = Content(e) \o data
  BY <1>1, <1>4, <1>5, ExtendedProperties
<1>7. Content(a) = Content(b) \o data
  BY <1>4, <1>6
<1>8. \/ Len(a.cells) = Len(b.cells)
      \/ Len(a.cells) < kCheapPrepend + readableBytes(b) + Len(data) + Len(data)
  BY <1>1, <1>4, <1>6
<1>9. append(b, data) = a
  BY <1>3, <1>5
<1>. QED
  BY <1>6, <1>7, <1>8, <1>9

\* retrieve takes the first len bytes, or all if there are fewer.
LEMMA RetrieveProperties ==
    ASSUME NEW b, WellFormed(b), NEW len \in Nat
    PROVE  /\ WellFormed(retrieve(b, len))
           /\ retrieve(b, len).cells = b.cells
           /\ \E n \in 0..Len(Content(b)) :
                 /\ n = IF len < readableBytes(b) THEN len ELSE readableBytes(b)
                 /\ Content(retrieve(b, len)) = SubSeq(Content(b), n + 1, Len(Content(b)))
<1>1. PICK m : m = retrieve(b, len)
  OBVIOUS
<1>2. PICK r \in Nat : r = readableBytes(b)
  BY WellFormedNumbers
<1>3. PICK n \in 0..r : n = IF len < r THEN len ELSE r
  BY <1>2
<1>4. /\ b.cells \in Seq(Byte) /\ Len(b.cells) \in Nat /\ b \in BufferType
      /\ b.readerIndex \in Nat /\ b.writerIndex \in Nat /\ kCheapPrepend \in Nat
      /\ kCheapPrepend <= b.readerIndex /\ b.readerIndex <= b.writerIndex
      /\ b.writerIndex <= Len(b.cells) /\ b.readerIndex + r = b.writerIndex
  BY <1>2, WellFormedNumbers DEF WellFormed
<1>5. PICK c \in Seq(Byte) : /\ c = Content(b) /\ Len(c) = r
                             /\ \A k \in 1..r : c[k] = b.cells[b.readerIndex + k]
  BY <1>2, ContentProperties
<1>6. /\ WellFormed(m) /\ m.cells = b.cells /\ readableBytes(m) = r - n
      /\ \A k \in 1..(r - n) : Content(m)[k] = c[n + k]
  <2>1. CASE len < r
    <3>1. m = [cells |-> b.cells, readerIndex |-> b.readerIndex + len, writerIndex |-> b.writerIndex]
      <4>1. m = [b EXCEPT !.readerIndex = @ + len]
        BY <1>1, <1>2, <2>1 DEF retrieve
      <4>. QED
        BY <1>4, <4>1 DEF BufferType
    <3>2. /\ m \in BufferType /\ m.cells = b.cells
          /\ m.readerIndex = b.readerIndex + len /\ m.writerIndex = b.writerIndex
      <4>1. b.readerIndex + len \in Nat
        BY <1>4
      <4>. QED
        BY <1>4, <3>1, <4>1 DEF BufferType
    <3>3. n = len
      BY <1>3, <2>1
    <3>4. WellFormed(m) /\ readableBytes(m) = r - n
      BY <1>2, <1>4, <2>1, <3>2, <3>3 DEF WellFormed, readableBytes
    <3>5. \A k \in 1..(r - n) : Content(m)[k] = b.cells[(b.readerIndex + n) + k]
      BY <3>2, <3>3, <3>4, ContentProperties
    <3>6. ASSUME NEW k \in 1..(r - n) PROVE Content(m)[k] = c[n + k]
      <4>1. n + k \in 1..r /\ b.readerIndex + (n + k) = (b.readerIndex + n) + k
        BY <1>2, <1>3, <1>4
      <4>. QED
        BY <1>5, <3>5, <4>1
    <3>. QED
      BY <3>2, <3>4, <3>6
  <2>2. CASE ~(len < r)
    <3>1. m = [cells |-> b.cells, readerIndex |-> kCheapPrepend, writerIndex |-> kCheapPrepend]
      <4>1. m = [b EXCEPT !.readerIndex = kCheapPrepend, !.writerIndex = kCheapPrepend]
        BY <1>1, <1>2, <2>2 DEF retrieve, retrieveAll
      <4>. QED
        BY <1>4, <4>1 DEF BufferType
    <3>2. /\ m \in BufferType /\ m.cells = b.cells
          /\ m.readerIndex = kCheapPrepend /\ m.writerIndex = kCheapPrepend
      BY <1>4, <3>1 DEF BufferType
    <3>3. n = r
      BY <1>3, <2>2
    <3>4. WellFormed(m) /\ readableBytes(m) = r - n
      BY <1>2, <1>4, <3>2, <3>3 DEF WellFormed, readableBytes
    <3>. QED
      BY <1>2, <3>2, <3>3, <3>4
  <2>. QED
    BY <2>1, <2>2
<1>7. PICK d \in Seq(Byte) : /\ d = Content(m) /\ Len(d) = r - n
                             /\ \A k \in 1..(r - n) : d[k] = c[n + k]
  BY <1>6, ContentProperties
<1>8. d = SubSeq(c, n + 1, Len(c))
  <2>1. /\ r \in Nat /\ n \in Nat /\ n <= r /\ r <= Len(c) /\ Len(d) = r - n
        /\ \A k \in 1..(r - n) : d[k] = c[n + k]
    BY <1>2, <1>3, <1>5, <1>7
  <2>2. d = SubSeq(c, n + 1, r)
    BY <2>1, SubSeqIs
  <2>. QED
    BY <1>5, <2>2, Zenon
<1>9. Content(retrieve(b, len)) = SubSeq(Content(b), n + 1, Len(Content(b)))
  <2>1. c = Content(b) /\ d = Content(retrieve(b, len))
    BY <1>1, <1>5, <1>7
  <2>. QED
    BY <1>8, <2>1, Zenon
<1>10. /\ n \in 0..Len(Content(b))
       /\ n = IF len < readableBytes(b) THEN len ELSE readableBytes(b)
  BY <1>2, <1>3, <1>5
<1>11. \E i \in 0..Len(Content(b)) :
          /\ i = IF len < readableBytes(b) THEN len ELSE readableBytes(b)
          /\ Content(retrieve(b, len)) = SubSeq(Content(b), i + 1, Len(Content(b)))
  BY <1>9, <1>10, Zenon
<1>. QED
  BY <1>1, <1>6, <1>11

-----------------------------------------------------------------------------
(* The actions *)

\* How a step may change the size of the vector
SizeStep ==
    \/ Len(buffer'.cells) = Len(buffer.cells)
    \/ Len(buffer'.cells) < kCheapPrepend + MaxContent + MaxLength

LEMMA AppendStep ==
    ASSUME WellFormed(buffer), NEW data \in Strings(MaxLength), AppendData(data)
    PROVE  /\ WellFormed(buffer')
           /\ Content(buffer)' = Content(buffer) \o data
           /\ SizeStep
<1>1. data \in Seq(Byte) /\ Len(data) \in Nat /\ Len(data) <= MaxLength
  BY StringIsSeq, BufferAssumption
<1>2. PICK b : b = buffer
  OBVIOUS
<1>3. PICK a : a = append(b, data)
  OBVIOUS
<1>4. /\ WellFormed(a) /\ Content(a) = Content(b) \o data
      /\ \/ Len(a.cells) = Len(b.cells)
         \/ Len(a.cells) < kCheapPrepend + readableBytes(b) + Len(data) + Len(data)
  BY <1>1, <1>2, <1>3, AppendBytesProperties
<1>5. buffer' = a
  BY <1>2, <1>3 DEF AppendData
<1>6. readableBytes(b) + Len(data) <= MaxContent
  BY <1>2 DEF AppendData
<1>7. SizeStep
  <2>1. /\ readableBytes(b) \in Nat /\ kCheapPrepend \in Nat /\ MaxContent \in Nat
        /\ MaxLength \in Nat /\ Len(a.cells) \in Nat
    BY <1>2, <1>4, WellFormedNumbers, BufferAssumption
  <2>. QED
    BY <1>1, <1>2, <1>4, <1>5, <1>6, <2>1 DEF SizeStep
<1>8. Content(buffer)' = Content(a)
  BY <1>5 DEF Content, Bytes, readableBytes
<1>. QED
  BY <1>2, <1>4, <1>5, <1>7, <1>8

LEMMA ReadStep ==
    ASSUME WellFormed(buffer), NEW data \in Strings(MaxLength), ReadFd(data)
    PROVE  /\ WellFormed(buffer')
           /\ Content(buffer)' = Content(buffer) \o data
           /\ SizeStep
<1>1. data \in Seq(Byte) /\ Len(data) \in Nat /\ Len(data) <= MaxLength
  BY StringIsSeq, BufferAssumption
<1>2. PICK b : b = buffer
  OBVIOUS
<1>3. /\ readableBytes(b) \in Nat /\ kCheapPrepend \in Nat /\ MaxContent \in Nat
      /\ MaxLength \in Nat /\ writableBytes(b) \in Nat /\ b.writerIndex \in Nat
      /\ b.writerIndex + writableBytes(b) = Len(b.cells) /\ WellFormed(b)
  BY <1>2, WellFormedNumbers, BufferAssumption
<1>4. PICK n \in Nat, w \in Nat : n = Len(data) /\ w = writableBytes(b)
  BY <1>1, <1>3
<1>5. readableBytes(b) + n <= MaxContent
  BY <1>2, <1>4 DEF ReadFd
<1>6. CASE n <= w
  <2>1. SubSeq(data, 1, Min2(n, w)) = data
    <3>1. Min2(n, w) = n
      BY <1>4, <1>6 DEF Min2
    <3>2. SubSeq(data, 1, Len(data)) = data
      BY <1>1, SubSeqFull
    <3>. QED
      BY <1>4, <3>1, <3>2, Zenon
  <2>2. buffer' = [Copy(b, SubSeq(data, 1, Min2(n, w)), b.writerIndex) EXCEPT !.writerIndex = @ + n]
    BY <1>2, <1>4, <1>6 DEF ReadFd
  <2>3. buffer' = Extended(b, data)
    BY <1>4, <2>1, <2>2, Zenon DEF Extended
  <2>4. PICK a : a = Extended(b, data)
    OBVIOUS
  <2>5. /\ WellFormed(a) /\ Len(a.cells) = Len(b.cells)
        /\ Content(a) = Content(b) \o data
    BY <1>1, <1>3, <1>4, <1>6, <2>4, ExtendedProperties
  <2>6. buffer' = a
    BY <2>3, <2>4
  <2>7. Content(buffer)' = Content(a)
    BY <2>6 DEF Content, Bytes, readableBytes
  <2>. QED
    BY <1>2, <2>5, <2>6, <2>7 DEF SizeStep
<1>7. CASE n > w
  <2>1. PICK d1 : d1 = SubSeq(data, 1, w)
    OBVIOUS
  <2>2. PICK d2 : d2 = SubSeq(data, w + 1, n)
    OBVIOUS
  <2>3. /\ d1 \in Seq(Byte) /\ d2 \in Seq(Byte)
        /\ Len(d1) = w /\ Len(d2) = n - w /\ d1 \o d2 = data
    <3>1. w <= Len(data)
      BY <1>4, <1>7
    <3>2. d2 = SubSeq(data, w + 1, Len(data))
      BY <1>4, <2>2, Zenon
    <3>3. /\ d1 \in Seq(Byte) /\ d2 \in Seq(Byte)
          /\ Len(d1) = w /\ Len(d2) = Len(data) - w /\ d1 \o d2 = data
      BY <1>1, <1>4, <2>1, <3>1, <3>2, SplitSeq
    <3>. QED
      BY <1>4, <3>3
  <2>4. PICK c : c = Copy(b, d1, b.writerIndex)
    OBVIOUS
  <2>5. buffer' = append(Filled(c), d2)
    <3>1. Min2(n, w) = w
      BY <1>4, <1>7 DEF Min2
    <3>2. buffer' = append(Filled(Copy(b, SubSeq(data, 1, Min2(n, w)), b.writerIndex)),
                           SubSeq(data, w + 1, n))
      BY <1>2, <1>4, <1>7 DEF ReadFd
    <3>. QED
      BY <2>1, <2>2, <2>4, <3>1, <3>2, Zenon
  <2>6. PICK f : f = Extended(b, d1)
    OBVIOUS
  <2>7. Filled(c) = f
    <3>1. b \in BufferType
      BY <1>3 DEF WellFormed
    <3>2. /\ c \in BufferType /\ Len(c.cells) = Len(b.cells) /\ c.writerIndex = b.writerIndex
      BY <1>3, <2>3, <2>4, <3>1, CopyProperties
    <3>3. c.writerIndex + Len(d1) = Len(c.cells)
      BY <1>3, <1>4, <2>3, <3>2
    <3>4. Filled(c) = [c EXCEPT !.writerIndex = Len(c.cells)]
      BY DEF Filled
    <3>5. f = [c EXCEPT !.writerIndex = c.writerIndex + Len(d1)]
      BY <2>4, <2>6 DEF Extended
    <3>. QED
      BY <3>3, <3>4, <3>5
  <2>8. /\ WellFormed(f) /\ Len(f.cells) = Len(b.cells)
        /\ Content(f) = Content(b) \o d1
        /\ f.readerIndex = b.readerIndex /\ f.writerIndex = b.writerIndex + w
    <3>1. Len(d1) <= writableBytes(b)
      BY <1>4, <2>3
    <3>2. /\ WellFormed(f) /\ Len(f.cells) = Len(b.cells)
          /\ Content(f) = Content(b) \o d1
          /\ f.readerIndex = b.readerIndex /\ f.writerIndex = b.writerIndex + Len(d1)
      BY <1>3, <2>3, <2>6, <3>1, ExtendedProperties
    <3>. QED
      BY <2>3, <3>2
  <2>9. PICK a : a = append(f, d2)
    OBVIOUS
  <2>10. /\ WellFormed(a) /\ Content(a) = Content(f) \o d2
         /\ \/ Len(a.cells) = Len(f.cells)
            \/ Len(a.cells) < kCheapPrepend + readableBytes(f) + Len(d2) + Len(d2)
    BY <2>3, <2>8, <2>9, AppendBytesProperties
  <2>11. Content(a) = Content(b) \o data
    <3>1. PICK p \in Seq(Byte) : p = Content(b)
      BY <1>3, ContentProperties
    <3>2. (p \o d1) \o d2 = p \o (d1 \o d2)
      <4>1. d1 \in Seq(Byte) /\ d2 \in Seq(Byte)
        BY <2>3
      <4>. QED
        BY <3>1, <4>1, ConcatAssociative
    <3>. QED
      <4>1. Content(a) = Content(f) \o d2 /\ Content(f) = p \o d1 /\ d1 \o d2 = data
        BY <2>3, <2>8, <2>10, <3>1
      <4>2. Content(a) = (p \o d1) \o d2
        BY <4>1, Zenon
      <4>3. Content(a) = p \o data
        BY <3>2, <4>1, <4>2, Zenon
      <4>. QED
        BY <3>1, <4>3, Zenon
  <2>12. buffer' = a
    BY <2>5, <2>7, <2>9
  <2>13. Content(buffer)' = Content(a)
    BY <2>12 DEF Content, Bytes, readableBytes
  <2>14. SizeStep
    <3>1. readableBytes(f) = readableBytes(b) + w /\ Len(a.cells) \in Nat
      <4>1. b.readerIndex \in Nat /\ Len(a.cells) \in Nat
        BY <1>3, <2>10, WellFormedNumbers
      <4>. QED
        BY <1>3, <1>4, <2>8, <4>1 DEF readableBytes
    <3>2. Len(d2) = n - w /\ n <= MaxLength
      BY <1>1, <1>4, <2>3
    <3>3. /\ kCheapPrepend + readableBytes(f) + Len(d2) + Len(d2)
                <= kCheapPrepend + MaxContent + MaxLength
          /\ readableBytes(f) \in Nat /\ Len(d2) \in Nat
      <4>1. readableBytes(f) \in Nat /\ Len(d2) \in Nat
        BY <1>3, <1>4, <1>7, <3>1, <3>2
      <4>2. readableBytes(f) + Len(d2) <= MaxContent
        BY <1>3, <1>4, <1>5, <3>1, <3>2
      <4>3. Len(d2) <= MaxLength
        BY <1>3, <1>4, <3>2
      <4>. QED
        BY <1>3, <4>1, <4>2, <4>3
    <3>4. \/ Len(a.cells) = Len(b.cells)
          \/ Len(a.cells) < kCheapPrepend + readableBytes(f) + Len(d2) + Len(d2)
      BY <2>8, <2>10
    <3>5. \/ Len(a.cells) = Len(b.cells)
          \/ Len(a.cells) < kCheapPrepend + MaxContent + MaxLength
      BY <1>3, <3>1, <3>3, <3>4
    <3>. QED
      BY <1>2, <2>12, <3>5 DEF SizeStep
  <2>. QED
    BY <1>2, <2>10, <2>11, <2>12, <2>13, <2>14
<1>. QED
  BY <1>4, <1>6, <1>7

\* The bytes write(2) and the users get are the first ones of the content.
LEMMA FrontBytes ==
    ASSUME WellFormed(buffer), NEW n \in 0..readableBytes(buffer)
    PROVE  /\ n \in 0..Len(Content(buffer))
           /\ Bytes(buffer, buffer.readerIndex, n) = SubSeq(Content(buffer), 1, n)
<1>1. PICK r \in Nat : r = readableBytes(buffer)
  BY WellFormedNumbers
<1>2. PICK i \in Nat : i = buffer.readerIndex
  BY WellFormedNumbers
<1>3. PICK cells \in Seq(Byte) : cells = buffer.cells /\ i + r <= Len(cells)
  <2>1. /\ buffer.cells \in Seq(Byte) /\ Len(buffer.cells) \in Nat
        /\ i + r = buffer.writerIndex /\ buffer.writerIndex <= Len(buffer.cells)
    BY <1>1, <1>2, WellFormedNumbers DEF WellFormed
  <2>. QED
    BY <2>1
<1>4. PICK c \in Seq(Byte) : /\ c = Content(buffer) /\ Len(c) = r
                             /\ \A k \in 1..r : c[k] = cells[i + k]
  BY <1>1, <1>2, <1>3, ContentProperties
<1>5. n \in Nat /\ n <= r /\ i + n <= Len(cells)
  <2>1. Len(cells) \in Nat
    BY LenProperties
  <2>. QED
    BY <1>1, <1>2, <1>3, <2>1
<1>6. PICK f : f = Slice(cells, i, n)
  OBVIOUS
<1>7. f \in Seq(Byte) /\ Len(f) = n /\ \A k \in 1..n : f[k] = cells[i + k]
  <2>1. cells \in Seq(Byte) /\ i \in Nat /\ n \in Nat /\ i + n <= Len(cells)
    BY <1>2, <1>3, <1>5
  <2>. QED
    BY <1>6, <2>1, SliceProperties
<1>8. f = SubSeq(c, 1, n)
  <2>1. /\ 0 \in Nat /\ 0 <= n /\ n <= Len(c) /\ Len(f) = n - 0
        /\ \A k \in 1..(n - 0) : f[k] = c[0 + k]
    BY <1>1, <1>4, <1>5, <1>7
  <2>2. f = SubSeq(c, 0 + 1, n)
    BY <1>4, <1>5, <1>7, <2>1, SubSeqIs
  <2>. QED
    BY <2>2
<1>9. f = Bytes(buffer, buffer.readerIndex, n)
  BY <1>2, <1>3, <1>6 DEF Bytes, Slice
<1>10. n \in 0..Len(Content(buffer))
  BY <1>1, <1>4, <1>5
<1>. QED
  BY <1>4, <1>8, <1>9, <1>10, Zenon

\* A step that changes nothing but what write(2) was given
LEMMA SameBuffer ==
    ASSUME WellFormed(buffer), UNCHANGED buffer
    PROVE  WellFormed(buffer)' /\ UNCHANGED Content(buffer) /\ SizeStep
BY DEF WellFormed, BufferType, Content, Bytes, readableBytes, SizeStep

LEMMA RetrieveStep ==
    ASSUME WellFormed(buffer), NEW len \in Nat, buffer' = retrieve(buffer, len)
    PROVE  /\ WellFormed(buffer') /\ SizeStep
           /\ \E n \in 0..Len(Content(buffer)) :
                 /\ n = IF len < readableBytes(buffer) THEN len ELSE readableBytes(buffer)
                 /\ Content(buffer)' = SubSeq(Content(buffer), n + 1, Len(Content(buffer)))
<1>1. /\ WellFormed(buffer') /\ buffer'.cells = buffer.cells
      /\ \E n \in 0..Len(Content(buffer)) :
            /\ n = IF len < readableBytes(buffer) THEN len ELSE readableBytes(buffer)
            /\ Content(buffer') = SubSeq(Content(buffer), n + 1, Len(Content(buffer)))
  BY RetrieveProperties
<1>2. Content(buffer') = Content(buffer)'
  BY DEF Content, Bytes, readableBytes
<1>3. SizeStep
  BY <1>1 DEF SizeStep
<1>. QED
  BY <1>1, <1>2, <1>3, Zenon

LEMMA StepProperties ==
    ASSUME WellFormed(buffer), [Next]_vars
    PROVE  WellFormed(buffer') /\ SizeStep
<1>1. ASSUME NEW data \in Strings(MaxLength), AppendData(data)
      PROVE  WellFormed(buffer') /\ SizeStep
  BY <1>1, AppendStep
<1>2. ASSUME NEW data \in Strings(MaxLength), ReadFd(data)
      PROVE  WellFormed(buffer') /\ SizeStep
  BY <1>2, ReadStep
<1>3. ASSUME NEW n \in 0..readableBytes(buffer), WriteFd(n)
      PROVE  WellFormed(buffer') /\ SizeStep
  BY <1>3, SameBuffer DEF WriteFd, WellFormed
<1>4. ASSUME NEW n \in 0..readableBytes(buffer), RetrieveAsString(n)
      PROVE  WellFormed(buffer') /\ SizeStep
  <2>1. n \in Nat
    BY WellFormedNumbers
  <2>. QED
    BY <1>4, <2>1, RetrieveStep DEF RetrieveAsString
<1>5. ASSUME NEW len \in 0..(MaxContent + 1), Retrieve(len)
      PROVE  WellFormed(buffer') /\ SizeStep
  <2>1. len \in Nat
    BY BufferAssumption
  <2>. QED
    BY <1>5, <2>1, RetrieveStep DEF Retrieve
<1>6. CASE UNCHANGED vars
  BY <1>6, SameBuffer DEF vars, WellFormed
<1>. QED
  BY <1>1, <1>2, <1>3, <1>4, <1>5, <1>6 DEF Next

LEMMA InitBuffer ==
    ASSUME Init
    PROVE  /\ WellFormed(buffer) /\ Content(buffer) = << >>
           /\ Len(buffer.cells) = kCheapPrepend + kInitialSize
<1>1. PICK n \in Nat : n = kCheapPrepend + kInitialSize
  BY BufferAssumption
<1>2. PICK s : s = [i \in 1..n |-> 0]
  OBVIOUS
<1>3. s \in Seq(Byte) /\ Len(s) = n
  <2>1. s \in [1..n -> Byte]
    BY <1>2, BufferAssumption
  <2>. QED
    BY <1>1, <2>1, FunctionIsSeq
<1>4. buffer = [cells |-> s, readerIndex |-> kCheapPrepend, writerIndex |-> kCheapPrepend]
  BY <1>1, <1>2 DEF Init, NewBuffer
<1>5. /\ buffer \in BufferType /\ buffer.cells = s
      /\ buffer.readerIndex = kCheapPrepend /\ buffer.writerIndex = kCheapPrepend
  BY <1>3, <1>4, BufferAssumption DEF BufferType
<1>6. WellFormed(buffer) /\ readableBytes(buffer) = 0
  BY <1>1, <1>3, <1>5, BufferAssumption DEF WellFormed, readableBytes
<1>7. Content(buffer) \in Seq(Byte) /\ Len(Content(buffer)) = 0
  BY <1>6, ContentProperties
<1>8. Content(buffer) = << >>
  BY <1>7, EmptySeq
<1>. QED
  BY <1>1, <1>3, <1>5, <1>6, <1>8

LEMMA TypeOKIsWellFormed == TypeOK <=> WellFormed(buffer)
BY DEF TypeOK, WellFormed

-----------------------------------------------------------------------------
(* Theorems *)

\* Whatever is appended, read, written and retrieved, the indices of the buffer stay in
\* order and inside the vector, with kCheapPrepend free bytes in front.
THEOREM TypeCorrect == Spec => []TypeOK
<1>1. Init => TypeOK
  BY InitBuffer, TypeOKIsWellFormed
<1>2. TypeOK /\ [Next]_vars => TypeOK'
  <2>. SUFFICES ASSUME TypeOK, [Next]_vars PROVE TypeOK'
    OBVIOUS
  <2>1. WellFormed(buffer')
    BY StepProperties, TypeOKIsWellFormed
  <2>. QED
    BY <2>1 DEF TypeOK, WellFormed, BufferType
<1>. QED
  BY <1>1, <1>2, PTL DEF Spec

\* A buffer whose users keep at most MaxContent bytes in it and add at most MaxLength at
\* a time never needs more than the sum of both, the prependable bytes aside: makeSpace
\* grows the vector only when moving the content would not do.
THEOREM SizeIsBounded == Spec => []SizeBounded
<1>1. Init => SizeBounded
  <2>. SUFFICES ASSUME Init PROVE SizeBounded
    OBVIOUS
  <2>1. Len(buffer.cells) = kCheapPrepend + kInitialSize
    BY InitBuffer
  <2>. QED
    BY <2>1, BufferAssumption DEF SizeBounded
<1>2. TypeOK /\ SizeBounded /\ [Next]_vars => SizeBounded'
  <2>. SUFFICES ASSUME TypeOK, SizeBounded, [Next]_vars PROVE SizeBounded'
    OBVIOUS
  <2>1. SizeStep
    BY StepProperties, TypeOKIsWellFormed
  <2>. QED
    BY <2>1 DEF SizeStep, SizeBounded
<1>. QED
  BY <1>1, <1>2, TypeCorrect, PTL DEF Spec

LEMMA RefinementStep ==
    ASSUME TypeOK, [Next]_vars
    PROVE  [Stream!Next]_(Stream!vars)
<1>0. WellFormed(buffer)
  BY TypeOKIsWellFormed
<1>1. ASSUME NEW data \in Strings(MaxLength), AppendData(data) \/ ReadFd(data)
      PROVE  Stream!Put
  <2>1. Content(buffer)' = Content(buffer) \o data
    BY <1>0, <1>1, AppendStep, ReadStep
  <2>2. moved' = data
    BY <1>1 DEF AppendData, ReadFd
  <2>. QED
    BY <2>1, <2>2, Zenon DEF Stream!Put
<1>2. ASSUME NEW n \in 0..readableBytes(buffer), WriteFd(n)
      PROVE  \E i \in 0..Len(Content(buffer)) : Stream!Show(i)
  <2>1. /\ n \in 0..Len(Content(buffer))
        /\ moved' = SubSeq(Content(buffer), 1, n)
    BY <1>0, <1>2, FrontBytes DEF WriteFd
  <2>2. Content(buffer)' = Content(buffer)
    BY <1>0, <1>2, SameBuffer DEF WriteFd
  <2>. QED
    BY <2>1, <2>2, Zenon DEF Stream!Show, Stream!Front
<1>3. ASSUME NEW n \in 0..readableBytes(buffer), RetrieveAsString(n)
      PROVE  \E i \in 0..Len(Content(buffer)) : Stream!Take(i)
  <2>1. /\ n \in 0..Len(Content(buffer))
        /\ moved' = SubSeq(Content(buffer), 1, n)
    BY <1>0, <1>3, FrontBytes DEF RetrieveAsString
  <2>2. readableBytes(buffer) \in Nat /\ n \in Nat
    BY <1>0, WellFormedNumbers
  <2>3. PICK i \in 0..Len(Content(buffer)) :
           /\ i = IF n < readableBytes(buffer) THEN n ELSE readableBytes(buffer)
           /\ Content(buffer)' = SubSeq(Content(buffer), i + 1, Len(Content(buffer)))
    BY <1>0, <1>3, <2>2, RetrieveStep DEF RetrieveAsString
  <2>4. i = n
    BY <2>2, <2>3
  <2>. QED
    BY <2>1, <2>3, <2>4, Zenon DEF Stream!Take, Stream!Front, Stream!Rest
<1>4. ASSUME NEW len \in 0..(MaxContent + 1), Retrieve(len)
      PROVE  \E i \in 0..Len(Content(buffer)) : Stream!Drop(i)
  <2>1. len \in Nat
    BY BufferAssumption
  <2>2. PICK i \in 0..Len(Content(buffer)) :
           Content(buffer)' = SubSeq(Content(buffer), i + 1, Len(Content(buffer)))
    BY <1>0, <1>4, <2>1, RetrieveStep DEF Retrieve
  <2>3. UNCHANGED moved
    BY <1>4 DEF Retrieve
  <2>. QED
    BY <2>2, <2>3, Zenon DEF Stream!Drop, Stream!Rest
<1>5. CASE UNCHANGED vars
  BY <1>0, <1>5, SameBuffer DEF vars, Stream!vars
<1>. QED
  BY <1>1, <1>2, <1>3, <1>4, <1>5, Zenon DEF Next, Stream!Next

\* The buffer implements the byte stream: bytes leave in the order they came in, none
\* lost, added or changed by moves, growth or reads that spill into extrabuf, and
\* write(2) and the users see the first bytes of the content.
THEOREM BufferImplementsStream == Spec => StreamSpec
<1>1. Init => Stream!Init
  BY InitBuffer DEF Init, Stream!Init
<1>2. TypeOK /\ [Next]_vars => [Stream!Next]_(Stream!vars)
  BY RefinementStep
<1>. QED
  BY <1>1, <1>2, TypeCorrect, PTL DEF Spec, StreamSpec, Stream!Spec
=============================================================================
