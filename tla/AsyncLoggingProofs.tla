-------------------------- MODULE AsyncLoggingProofs --------------------------
(***************************************************************************)
(* Proofs about AsyncLogging, for any number of messages, any size of the  *)
(* buffers and of the files: the back end never runs out of buffers, and   *)
(* every message goes to the files once and in its turn.                   *)
(***************************************************************************)
EXTENDS AsyncLogging, SequenceTheorems, FiniteSetTheorems, TLAPS

\* Messages that stdio has seen
Seen == Len(disk) + Len(stream)

\* q holds the messages that follow the first k
Counts(q, k) == \A i \in 1..Len(q) : q[i] = k + i

Types ==
    /\ appended \in Cell
    /\ buffers \in Seq(Buffer) /\ buffersToWrite \in Seq(Buffer)
    /\ running \in BOOLEAN
    /\ pc \in {"off", "test", "lock", "wait", "write", "recycle", "ended"}
    /\ stopper \in {"idle", "notify", "join", "joined"}
    /\ disk \in Seq(Nat) /\ stream \in Seq(Nat)
    /\ writtenBytes \in 0..(RollSize + 1) /\ counts \in 0..(CheckEveryN - 1)
    /\ IF pc = "write" THEN writing \in 1..Len(buffersToWrite) /\ written \in 0..Size
                       ELSE writing = 1 /\ written = 0

-----------------------------------------------------------------------------
(* Spare buffers *)

\* No cell of b is beyond message n
AtMost(b, n) == \A i \in 1..Size : b.cells[i] <= n

\* What a used buffer has kept behind its messages is in the files
Stale(b, n) == \A i \in (b.cur + 1)..Size : b.cells[i] <= n

\* A null pointer, or an empty buffer whose old messages are in the files
Spare(p) == p = << >> \/ \E b \in Buffer : p = <<b>> /\ b.cur = 0 /\ AtMost(b, Seen)

\* The front end finds a spare buffer unless it has filled one since the last exchange, so
\* the back end gets back as many as it has given away
Spares ==
    /\ Spare(nextBuffer) /\ Spare(newBuffer1) /\ Spare(newBuffer2)
    /\ nextBuffer = << >> => buffers # << >>
    /\ pc \in {"test", "lock", "wait"} => newBuffer1 # << >> /\ newBuffer2 # << >>
    /\ pc \in {"write", "recycle"} =>
           Len(buffersToWrite) >= IF newBuffer2 = << >> THEN 2 ELSE 1

-----------------------------------------------------------------------------
(* The way of the messages *)

\* b holds the messages that follow the first lo
Holds(b, lo) == \A i \in 1..b.cur : b.cells[i] = lo + i

\* The buffers of q hold consecutive messages, q[i] those after g[i]
Starts(q) == [1..(Len(q) + 1) -> Cell]

Chain(q, g) ==
    /\ g \in Starts(q)
    /\ \A i \in 1..Len(q) : Holds(q[i], g[i]) /\ g[i + 1] = g[i] + q[i].cur

\* The buffers of q have nothing beyond message n, and old contents that are in the files
Clean(q, n) == \A i \in 1..Len(q) : AtMost(q[i], n) /\ Stale(q[i], Seen)

\* The files show the first messages, and between two exchanges all of them are flushed
Logged ==
    /\ Counts(disk, 0) /\ Counts(stream, Len(disk))
    /\ pc \notin {"write", "recycle"} => stream = << >>

\* The front end holds the messages after mid
FrontHolds(mid) ==
    \E f \in Starts(buffers), b \in Buffer :
        /\ currentBuffer = <<b>>
        /\ Chain(buffers, f) /\ f[1] = mid
        /\ Holds(b, f[Len(buffers) + 1]) /\ appended = f[Len(buffers) + 1] + b.cur
        /\ Clean(buffers, appended) /\ AtMost(b, appended) /\ Stale(b, Seen)
        /\ \A m \in (mid + 1)..appended : m \in Held(buffers) \cup Held(currentBuffer)

\* The messages of buffersToWrite, which end with mid, that stdio has seen
WrittenSoFar(g, mid) ==
    IF pc = "recycle" THEN mid
    ELSE LET cur == buffersToWrite[writing].cur
         IN  g[writing] + (IF written < cur THEN written ELSE cur)

\* The back end holds the messages up to mid that are not in the files
BackHolds(mid) ==
    IF pc \in {"write", "recycle"}
    THEN \E g \in Starts(buffersToWrite) :
            /\ Chain(buffersToWrite, g) /\ g[Len(buffersToWrite) + 1] = mid
            /\ g[1] <= Len(disk)
            /\ Clean(buffersToWrite, mid)
            /\ \A m \in (g[1] + 1)..mid : m \in Held(buffersToWrite)
            /\ Seen = WrittenSoFar(g, mid)
    ELSE Seen = mid

Passed ==
    \E mid \in Cell :
        Seen <= mid /\ mid <= appended /\ FrontHolds(mid) /\ BackHolds(mid)

\* The inductive invariant
Inv == Types /\ Spares /\ Logged /\ Passed

-----------------------------------------------------------------------------
(* Sequences of messages *)

LEMMA Prefix ==
    ASSUME NEW q \in Seq(Nat), NEW n \in 0..Len(q)
    PROVE  /\ SubSeq(q, 1, n) \in Seq(Nat) /\ Len(SubSeq(q, 1, n)) = n
           /\ \A i \in 1..n : SubSeq(q, 1, n)[i] = q[i]
<1>1. Len(q) \in Nat /\ n \in Nat /\ n <= Len(q)
  BY LenProperties
<1>. QED
  BY <1>1

LEMMA Suffix ==
    ASSUME NEW q \in Seq(Nat), NEW n \in 0..Len(q)
    PROVE  /\ SubSeq(q, n + 1, Len(q)) \in Seq(Nat)
           /\ Len(SubSeq(q, n + 1, Len(q))) = Len(q) - n
           /\ \A i \in 1..(Len(q) - n) : SubSeq(q, n + 1, Len(q))[i] = q[n + i]
<1>1. Len(q) \in Nat /\ n \in Nat /\ n <= Len(q)
  BY LenProperties
<1>. QED
  BY <1>1

LEMMA Middle ==
    ASSUME NEW q \in Seq(Nat), NEW w \in Nat, NEW n \in Nat, w + n <= Len(q)
    PROVE  /\ SubSeq(q, w + 1, w + n) \in Seq(Nat) /\ Len(SubSeq(q, w + 1, w + n)) = n
           /\ \A i \in 1..n : SubSeq(q, w + 1, w + n)[i] = q[w + i]
<1>1. PICK l \in Nat : l = Len(q) /\ w + n <= l
  BY LenProperties
<1>. QED
  BY <1>1

LEMMA CountsConcat ==
    ASSUME NEW q \in Seq(Nat), NEW r \in Seq(Nat), NEW k \in Nat,
           Counts(q, k), Counts(r, k + Len(q))
    PROVE  q \o r \in Seq(Nat) /\ Counts(q \o r, k) /\ Len(q \o r) = Len(q) + Len(r)
<1>1. PICK c : c = q \o r
  OBVIOUS
<1>2. PICK lq \in Nat, lr \in Nat : lq = Len(q) /\ lr = Len(r)
  BY LenProperties
<1>3. /\ c \in Seq(Nat) /\ Len(c) = lq + lr
      /\ \A i \in 1..(lq + lr) : c[i] = IF i <= lq THEN q[i] ELSE r[i - lq]
  BY <1>1, <1>2, ConcatProperties
<1>4. \A i \in 1..lq : q[i] = k + i
  BY <1>2, Zenon DEF Counts
<1>5. \A i \in 1..lr : r[i] = (k + lq) + i
  BY <1>2, Zenon DEF Counts
<1>6. ASSUME NEW i \in 1..(lq + lr) PROVE c[i] = k + i
  <2>1. CASE i <= lq
    <3>1. i \in 1..lq
      BY <2>1
    <3>2. c[i] = q[i]
      BY <1>3, <2>1, Zenon
    <3>. QED
      BY <1>4, <3>1, <3>2, Zenon
  <2>2. CASE ~(i <= lq)
    <3>1. PICK j \in 1..lr : j = i - lq
      BY <2>2
    <3>2. c[i] = r[j] /\ r[j] = (k + lq) + j
      BY <1>3, <1>5, <2>2, <3>1
    <3>. QED
      BY <3>1, <3>2
  <2>. QED
    BY <2>1, <2>2
<1>7. Counts(c, k)
  BY <1>3, <1>6 DEF Counts
<1>. QED
  BY <1>1, <1>2, <1>3, <1>7, Zenon

LEMMA CountsSplit ==
    ASSUME NEW q \in Seq(Nat), NEW k \in Nat, NEW n \in 0..Len(q), Counts(q, k)
    PROVE  /\ Counts(SubSeq(q, 1, n), k)
           /\ Counts(SubSeq(q, n + 1, Len(q)), k + n)
<1>1. PICK a : a = SubSeq(q, 1, n)
  OBVIOUS
<1>2. PICK r : r = SubSeq(q, n + 1, Len(q))
  OBVIOUS
<1>3. PICK lq \in Nat : lq = Len(q) /\ n \in 0..lq
  BY LenProperties
<1>4. Len(a) = n /\ \A i \in 1..n : a[i] = q[i]
  BY <1>1, Prefix, Zenon
<1>5. Len(r) = lq - n /\ \A i \in 1..(lq - n) : r[i] = q[n + i]
  BY <1>2, <1>3, Suffix, Zenon
<1>6. \A i \in 1..lq : q[i] = k + i
  BY <1>3, Zenon DEF Counts
<1>7. \A i \in 1..n : a[i] = k + i
  <2>1. \A i \in 1..n : i \in 1..lq
    BY <1>3
  <2>. QED
    BY <1>4, <1>6, <2>1, Zenon
<1>8. \A i \in 1..(lq - n) : n + i \in 1..lq /\ k + (n + i) = (k + n) + i
  BY <1>3
<1>9. \A i \in 1..(lq - n) : r[i] = (k + n) + i
  BY <1>5, <1>6, <1>8, Zenon
<1>. QED
  BY <1>1, <1>2, <1>4, <1>5, <1>7, <1>9, Zenon DEF Counts

\* A chain of buffers is made longer at its end
LEMMA ChainAppend ==
    ASSUME SizeAssumption, NEW q \in Seq(Buffer), NEW b \in Buffer, NEW g, Chain(q, g),
           NEW hi \in Cell, Holds(b, g[Len(q) + 1]), hi = g[Len(q) + 1] + b.cur
    PROVE  \E h \in Starts(Append(q, b)) :
              /\ Chain(Append(q, b), h)
              /\ h[1] = g[1] /\ h[Len(Append(q, b)) + 1] = hi
<1>1. PICK n \in Nat : n = Len(q)
  BY LenProperties
<1>2. PICK a : a = Append(q, b)
  OBVIOUS
<1>3. /\ a \in Seq(Buffer) /\ Len(a) = n + 1
      /\ \A i \in 1..n : a[i] = q[i]
      /\ a[n + 1] = b
  BY <1>1, <1>2, AppendProperties
<1>4. /\ g \in [1..(n + 1) -> Cell]
      /\ \A i \in 1..n : Holds(q[i], g[i]) /\ g[i + 1] = g[i] + q[i].cur
  BY <1>1 DEF Chain, Starts
<1>5. PICK h : h = [i \in 1..((n + 1) + 1) |-> IF i <= n + 1 THEN g[i] ELSE hi]
  OBVIOUS
<1>6. /\ h \in [1..((n + 1) + 1) -> Cell] /\ h[(n + 1) + 1] = hi
      /\ \A i \in 1..(n + 1) : h[i] = g[i]
  BY <1>4, <1>5
<1>7. ASSUME NEW i \in 1..(n + 1) PROVE Holds(a[i], h[i]) /\ h[i + 1] = h[i] + a[i].cur
  <2>1. CASE i = n + 1
    BY <1>1, <1>3, <1>6, <2>1
  <2>2. CASE i # n + 1
    <3>1. i \in 1..n /\ i + 1 \in 1..(n + 1)
      BY <2>2
    <3>. QED
      BY <1>3, <1>4, <1>6, <3>1
  <2>. QED
    BY <2>1, <2>2
<1>8. Chain(a, h) /\ h \in Starts(a)
  BY <1>3, <1>6, <1>7 DEF Chain, Starts
<1>9. 1 \in 1..(n + 1)
  OBVIOUS
<1>. QED
  BY <1>2, <1>3, <1>6, <1>8, <1>9

\* Of cells that begin with the next messages and go on with old ones stdio gets the new ones
LEMMA FreshMessages ==
    ASSUME Types, Logged, NEW n \in Nat, NEW cells \in Seq(Nat), Len(cells) = n,
           NEW m \in 0..n,
           \A i \in 1..m : cells[i] = Seen + i,
           \A i \in (m + 1)..n : cells[i] <= Seen
    PROVE  Fresh(cells) \in Seq(Nat) /\ Len(Fresh(cells)) = m /\ Counts(Fresh(cells), Seen)
<1>. DEFINE new == {i \in DOMAIN cells : cells[i] # 0 /\ cells[i] \notin ToSet(disk \o stream)}
            kth(k) == CHOOSE i \in new : Cardinality({j \in new : j < i}) = k - 1
<1>1. /\ disk \in Seq(Nat) /\ stream \in Seq(Nat) /\ Counts(disk, 0) /\ Counts(stream, Len(disk))
      /\ Len(disk) \in Nat /\ Len(stream) \in Nat /\ Seen \in Nat
  BY LenProperties DEF Types, Logged, Seen
<1>2. ToSet(disk \o stream) = 1..Seen
  <2>1. 0 \in Nat /\ Len(disk) = 0 + Len(disk)
    BY <1>1
  <2>2. PICK c \in Seq(Nat) : c = disk \o stream /\ Counts(c, 0) /\ Len(c) = Seen
    BY <1>1, <2>1, CountsConcat, Zenon DEF Seen
  <2>3. DOMAIN c = 1..Seen /\ \A i \in 1..Seen : c[i] = i
    BY <1>1, <2>2 DEF Counts
  <2>4. ToSet(c) = {c[i] : i \in 1..Seen}
    BY <2>3, Zenon DEF ToSet
  <2>5. {c[i] : i \in 1..Seen} = 1..Seen
    BY <2>3
  <2>. QED
    BY <2>2, <2>4, <2>5, Zenon
<1>3. new = 1..m
  <2>1. DOMAIN cells = 1..n
    OBVIOUS
  <2>2. \A i \in 1..n : cells[i] \in Nat
    OBVIOUS
  <2>3. \A i \in 1..n : i \in 1..m \/ i \in (m + 1)..n
    OBVIOUS
  <2>4. ASSUME NEW i \in 1..n PROVE i \in new <=> i \in 1..m
    <3>1. i \in new <=> cells[i] \notin 0..Seen
      BY <1>1, <1>2, <2>1, <2>2
    <3>2. CASE i \in 1..m
      BY <1>1, <3>1, <3>2
    <3>3. CASE i \in (m + 1)..n
      <4>1. cells[i] \in Nat /\ cells[i] <= Seen
        BY <2>2, <3>3
      <4>. QED
        BY <1>1, <3>1, <3>3, <4>1
    <3>. QED
      BY <2>3, <3>2, <3>3
  <2>. QED
    BY <2>1, <2>4
<1>. HIDE DEF new
<1>4. \A k \in 1..m : kth(k) = k
  <2>. TAKE k \in 1..m
  <2>1. ASSUME NEW i \in 1..m PROVE Cardinality({j \in new : j < i}) = i - 1
    <3>1. {j \in new : j < i} = 1..(i - 1)
      BY <1>3
    <3>2. i - 1 \in Int /\ 1 \in Int /\ 1 <= i
      OBVIOUS
    <3>3. Cardinality(1..(i - 1)) = IF 1 > i - 1 THEN 0 ELSE (i - 1) - 1 + 1
      BY <3>2, FS_Interval
    <3>4. Cardinality(1..(i - 1)) = i - 1
      BY <3>2, <3>3
    <3>. QED
      BY <3>1, <3>4, Zenon
  <2>2. \A i \in new : Cardinality({j \in new : j < i}) = k - 1 <=> i = k
    <3>. TAKE i \in new
    <3>1. i \in 1..m /\ Cardinality({j \in new : j < i}) = i - 1
      BY <1>3, <2>1, Zenon
    <3>2. i - 1 = k - 1 <=> i = k
      BY <3>1
    <3>. QED
      BY <3>1, <3>2, Zenon
  <2>. QED
    BY <1>3, <2>2
<1>5. Cardinality(new) = m
  <2>1. Cardinality(1..m) = IF 1 > m THEN 0 ELSE m - 1 + 1
    BY FS_Interval
  <2>. QED
    BY <1>3, <2>1
<1>6. Fresh(cells) = [k \in 1..Cardinality(new) |-> cells[kth(k)]]
  BY Zenon DEF Fresh, new
<1>. HIDE DEF kth
<1>7. Fresh(cells) = [k \in 1..m |-> Seen + k]
  BY <1>4, <1>5, <1>6
<1>. QED
  BY <1>1, <1>7 DEF Counts

-----------------------------------------------------------------------------
(* The files *)

\* The files have grown by k messages, and no message has left the disk
Grown(k) ==
    /\ disk' \in Seq(Nat) /\ stream' \in Seq(Nat)
    /\ Counts(disk', 0) /\ Counts(stream', Len(disk'))
    /\ Seen' = Seen + k
    /\ Len(disk) <= Len(disk')

LEMMA FlushEffect ==
    ASSUME Types, Logged
    PROVE  /\ fflush => Grown(0) /\ stream' = << >>
           /\ NoFlush => Grown(0) /\ stream' = stream
<1>1. /\ disk \in Seq(Nat) /\ stream \in Seq(Nat) /\ Counts(disk, 0) /\ Counts(stream, Len(disk))
  BY DEF Types, Logged
<1>2. PICK ld \in Nat, ls \in Nat : ld = Len(disk) /\ ls = Len(stream)
  BY <1>1, LenProperties
<1>3. ASSUME fflush PROVE Grown(0) /\ stream' = << >>
  <2>1. disk' = disk \o stream /\ stream' = << >>
    BY <1>3 DEF fflush
  <2>2. 0 \in Nat /\ ld = 0 + ld
    BY <1>2
  <2>3. /\ disk \o stream \in Seq(Nat) /\ Counts(disk \o stream, 0)
        /\ Len(disk \o stream) = ld + ls
    BY <1>1, <1>2, <2>2, CountsConcat, Zenon
  <2>4. disk' \in Seq(Nat) /\ Counts(disk', 0) /\ Len(disk') = ld + ls
    BY <2>1, <2>3, Zenon
  <2>5. stream' \in Seq(Nat) /\ Len(stream') = 0 /\ Counts(stream', Len(disk'))
    BY <2>1, EmptySeq DEF Counts
  <2>. QED
    BY <1>2, <2>1, <2>4, <2>5 DEF Grown, Seen
<1>4. ASSUME NoFlush PROVE Grown(0) /\ stream' = stream
  <2>1. disk' = disk /\ stream' = stream
    BY <1>4 DEF NoFlush
  <2>. QED
    BY <1>1, <1>2, <2>1 DEF Grown, Seen
<1>. QED
  BY <1>3, <1>4

LEMMA WriteEffect ==
    ASSUME Types, Logged, NEW n \in Nat, NEW cells \in Seq(Nat), Len(cells) = n,
           NEW m \in 0..n,
           \A i \in 1..m : cells[i] = Seen + i,
           \A i \in (m + 1)..n : cells[i] <= Seen,
           fwrite(cells)
    PROVE  Grown(m)
<1>1. /\ disk \in Seq(Nat) /\ stream \in Seq(Nat) /\ Counts(disk, 0) /\ Counts(stream, Len(disk))
  BY DEF Types, Logged
<1>2. PICK ld \in Nat, ls \in Nat : ld = Len(disk) /\ ls = Len(stream)
  BY <1>1, LenProperties
<1>3. PICK new : new = Fresh(cells)
  OBVIOUS
<1>4. new \in Seq(Nat) /\ Len(new) = m /\ Counts(new, ld + ls)
  BY <1>2, <1>3, FreshMessages DEF Seen
<1>5. PICK all : all = stream \o new
  OBVIOUS
<1>6. all \in Seq(Nat) /\ Counts(all, ld) /\ Len(all) = ls + m
  BY <1>1, <1>2, <1>4, <1>5, CountsConcat, Zenon
<1>7. PICK k \in 0..Len(all) :
          /\ disk' = disk \o SubSeq(all, 1, k)
          /\ stream' = SubSeq(all, k + 1, Len(all))
  BY <1>3, <1>5 DEF fwrite
<1>8. PICK a : a = SubSeq(all, 1, k)
  OBVIOUS
<1>9. a \in Seq(Nat) /\ Len(a) = k /\ Counts(a, ld)
  BY <1>6, <1>8, Prefix, CountsSplit, Zenon
<1>10. stream' \in Seq(Nat) /\ Len(stream') = (ls + m) - k /\ Counts(stream', ld + k)
  BY <1>6, <1>7, Suffix, CountsSplit, Zenon
<1>11. 0 \in Nat /\ ld = 0 + ld
  BY <1>2
<1>12. disk' \in Seq(Nat) /\ Counts(disk', 0) /\ Len(disk') = ld + k
  <2>1. Counts(a, 0 + Len(disk))
    BY <1>2, <1>9, <1>11, Zenon
  <2>2. /\ disk \o a \in Seq(Nat) /\ Counts(disk \o a, 0)
        /\ Len(disk \o a) = Len(disk) + Len(a)
    BY <1>1, <1>9, <1>11, <2>1, CountsConcat, Zenon
  <2>. QED
    BY <1>2, <1>7, <1>8, <1>9, <2>2, Zenon
<1>13. k \in Nat /\ m \in Nat
  BY <1>6
<1>14. Seen' = Seen + m /\ Len(disk) <= Len(disk')
  BY <1>2, <1>10, <1>12, <1>13 DEF Seen
<1>. QED
  BY <1>10, <1>12, <1>14, Zenon DEF Grown

LEMMA AppendEffect ==
    ASSUME LogFileAssumption, SizeAssumption, Types, Logged, NEW clock \in Clock,
           AfterAppend(Size, clock)
    PROVE  /\ Grown(0)
           /\ writtenBytes' \in 0..(RollSize + 1) /\ counts' \in 0..(CheckEveryN - 1)
<1>1. /\ RollSize \in Nat /\ CheckEveryN \in Nat \ {0} /\ Size \in Nat
      /\ writtenBytes \in 0..(RollSize + 1) /\ counts \in 0..(CheckEveryN - 1)
  BY DEF LogFileAssumption, SizeAssumption, Types
<1>2. Written(Size) \in 0..(RollSize + 1) /\ 0 \in 0..(RollSize + 1)
  BY <1>1 DEF Written
<1>3. (counts + 1) % CheckEveryN \in 0..(CheckEveryN - 1)
  <2>1. PICK a \in Nat : a = counts + 1
    BY <1>1
  <2>2. a % CheckEveryN \in 0..(CheckEveryN - 1)
    BY <1>1
  <2>. QED
    BY <2>1, <2>2
<1>4. \/ fflush \/ NoFlush
  BY DEF AfterAppend, rollFile, ResetFile
<1>5. Grown(0)
  BY <1>4, FlushEffect
<1>6. writtenBytes' \in {0, Written(Size)} /\ counts' \in {counts, (counts + 1) % CheckEveryN}
  BY DEF AfterAppend, rollFile
<1>. QED
  BY <1>1, <1>2, <1>3, <1>5, <1>6

-----------------------------------------------------------------------------
(* What a longer file leaves true *)

LEMMA SpareStays ==
    ASSUME SizeAssumption, Types, Seen' \in Nat, Seen <= Seen', NEW p, Spare(p)
    PROVE  p = << >> \/ \E b \in Buffer : p = <<b>> /\ b.cur = 0 /\ AtMost(b, Seen')
<1>1. CASE p = << >>
  BY <1>1
<1>2. ASSUME NEW b \in Buffer, p = <<b>>, b.cur = 0, AtMost(b, Seen) PROVE AtMost(b, Seen')
  <2>1. Seen \in Nat
    BY LenProperties DEF Seen, Types
  <2>2. \A i \in 1..Size : b.cells[i] \in Nat
    BY DEF Buffer, Cell, SizeAssumption
  <2>. QED
    BY <1>2, <2>1, <2>2 DEF AtMost
<1>. QED
  BY <1>1, <1>2 DEF Spare

LEMMA CleanStays ==
    ASSUME SizeAssumption, Types, Seen' \in Nat, Seen <= Seen',
           NEW q \in Seq(Buffer), NEW n, Clean(q, n)
    PROVE  \A i \in 1..Len(q) : AtMost(q[i], n) /\ Stale(q[i], Seen')
<1>1. Seen \in Nat
  BY LenProperties DEF Seen, Types
<1>. TAKE i \in 1..Len(q)
<1>2. q[i] \in Buffer
  OBVIOUS
<1>3. PICK b \in Buffer : b = q[i]
  BY <1>2
<1>4. b.cur \in Nat /\ \A j \in (b.cur + 1)..Size : b.cells[j] \in Nat
  BY DEF Buffer, Cell, SizeAssumption
<1>5. Stale(b, Seen) /\ AtMost(b, n)
  BY <1>3 DEF Clean
<1>6. Stale(b, Seen')
  BY <1>1, <1>4, <1>5 DEF Stale
<1>. QED
  BY <1>3, <1>5, <1>6

LEMMA FrontStays ==
    ASSUME SizeAssumption, Types, Seen' \in Nat, Seen <= Seen', UNCHANGED frontVars,
           NEW mid, FrontHolds(mid)
    PROVE  FrontHolds(mid)'
<1>0. /\ appended' = appended /\ currentBuffer' = currentBuffer /\ buffers' = buffers
      /\ buffers \in Seq(Buffer) /\ Seen \in Nat
  BY LenProperties DEF frontVars, Types, Seen
<1>1. PICK f \in Starts(buffers), b \in Buffer :
        /\ currentBuffer = <<b>>
        /\ Chain(buffers, f) /\ f[1] = mid
        /\ Holds(b, f[Len(buffers) + 1]) /\ appended = f[Len(buffers) + 1] + b.cur
        /\ Clean(buffers, appended) /\ AtMost(b, appended) /\ Stale(b, Seen)
        /\ \A m \in (mid + 1)..appended : m \in Held(buffers) \cup Held(currentBuffer)
  BY DEF FrontHolds
<1>2. Stale(b, Seen')
  <2>1. b.cur \in Nat /\ \A j \in (b.cur + 1)..Size : b.cells[j] \in Nat
    BY DEF Buffer, Cell, SizeAssumption
  <2>. QED
    BY <1>0, <1>1, <2>1 DEF Stale
<1>3. \A i \in 1..Len(buffers) : AtMost(buffers[i], appended) /\ Stale(buffers[i], Seen')
  BY <1>0, <1>1, CleanStays
<1>4. Clean(buffers, appended)'
  BY <1>0, <1>3 DEF Clean
<1>. QED
  BY <1>0, <1>1, <1>2, <1>4 DEF FrontHolds

-----------------------------------------------------------------------------
(* Buffers *)

\* FixedBuffer::append of the next message
LEMMA PutProperties ==
    ASSUME SizeAssumption, NEW b \in Buffer, NEW lo \in Cell, NEW m \in Cell, NEW k \in Nat,
           b.cur < Size, m = lo + b.cur + 1, Holds(b, lo), AtMost(b, m - 1), Stale(b, k)
    PROVE  LET c == Put(b, m)
           IN  /\ c \in Buffer /\ c.cur = b.cur + 1
               /\ Holds(c, lo) /\ AtMost(c, m) /\ Stale(c, k)
               /\ Live(c) = Live(b) \cup {m}
<1>0. Size \in Nat /\ MaxMessages \in Nat /\ b.cells \in [1..Size -> Cell] /\ b.cur \in 0..Size
  BY DEF SizeAssumption, Buffer
<1>1. PICK n \in 0..Size : n = b.cur /\ n < Size
  BY <1>0
<1>2. PICK d : d = [b.cells EXCEPT ![n + 1] = m]
  OBVIOUS
<1>3. /\ d \in [1..Size -> Cell] /\ d[n + 1] = m
      /\ \A i \in 1..Size : i # n + 1 => d[i] = b.cells[i]
  BY <1>0, <1>1, <1>2
<1>4. PICK c : c = Put(b, m)
  OBVIOUS
<1>5. c = [cells |-> d, cur |-> n + 1] /\ n + 1 \in 0..Size
  BY <1>0, <1>1, <1>2, <1>4 DEF Put
<1>6. c \in Buffer /\ c.cells = d /\ c.cur = n + 1
  BY <1>3, <1>5 DEF Buffer
<1>7. Holds(c, lo)
  <2>1. ASSUME NEW i \in 1..(n + 1) PROVE d[i] = lo + i
    <3>1. CASE i = n + 1
      BY <1>0, <1>1, <1>3, <3>1 DEF Cell
    <3>2. CASE i # n + 1
      <4>1. i \in 1..n /\ i \in 1..Size
        BY <1>0, <1>1, <3>2
      <4>. QED
        BY <1>1, <1>3, <3>2, <4>1 DEF Holds
    <3>. QED
      BY <3>1, <3>2
  <2>. QED
    BY <1>6, <2>1 DEF Holds
<1>8. AtMost(c, m)
  <2>1. ASSUME NEW i \in 1..Size PROVE d[i] <= m
    <3>1. CASE i = n + 1
      BY <1>0, <1>3, <3>1 DEF Cell
    <3>2. CASE i # n + 1
      <4>1. d[i] = b.cells[i] /\ b.cells[i] <= m - 1 /\ b.cells[i] \in Cell
        BY <1>0, <1>3, <3>2 DEF AtMost
      <4>. QED
        BY <1>0, <4>1 DEF Cell
    <3>. QED
      BY <3>1, <3>2
  <2>. QED
    BY <1>6, <2>1 DEF AtMost
<1>9. Stale(c, k)
  <2>1. ASSUME NEW i \in ((n + 1) + 1)..Size PROVE d[i] <= k
    <3>1. i \in (n + 1)..Size /\ i \in 1..Size /\ i # n + 1
      BY <1>0, <1>1
    <3>. QED
      BY <1>1, <1>3, <3>1 DEF Stale
  <2>. QED
    BY <1>6, <2>1 DEF Stale
<1>10. Live(c) = Live(b) \cup {m}
  <2>1. \A i \in 1..n : i \in 1..(n + 1) /\ d[i] = b.cells[i]
    BY <1>0, <1>1, <1>3
  <2>2. n + 1 \in 1..(n + 1) /\ \A i \in 1..(n + 1) : i = n + 1 \/ i \in 1..n
    BY <1>1
  <2>3. Live(c) = {d[i] : i \in 1..(n + 1)} /\ Live(b) = {b.cells[i] : i \in 1..n}
    BY <1>1, <1>6, Zenon DEF Live
  <2>. QED
    BY <1>3, <2>1, <2>2, <2>3
<1>. QED
  BY <1>1, <1>4, <1>6, <1>7, <1>8, <1>9, <1>10

LEMMA HeldProperties ==
    ASSUME NEW q \in Seq(Buffer), NEW b \in Buffer
    PROVE  /\ Held(<< >>) = {} /\ Held(<<b>>) = Live(b)
           /\ Held(Append(q, b)) = Held(q) \cup Live(b)
<1>1. PICK a : a = Append(q, b)
  OBVIOUS
<1>2. PICK n \in Nat : n = Len(q) /\ DOMAIN q = 1..n
  BY LenProperties
<1>3. /\ DOMAIN a = 1..(n + 1) /\ a[n + 1] = b
      /\ \A i \in 1..n : a[i] = q[i]
  BY <1>1, <1>2, AppendProperties, LenProperties
<1>4. Held(a) = Held(q) \cup Live(b)
  <2>1. \A i \in DOMAIN a : i \in 1..n \/ i = n + 1
    BY <1>2, <1>3
  <2>2. \A i \in 1..n : i \in DOMAIN a
    BY <1>2, <1>3
  <2>3. n + 1 \in DOMAIN a
    BY <1>2, <1>3
  <2>4. ASSUME NEW x PROVE x \in Held(a) <=> x \in Held(q) \/ x \in Live(b)
    <3>1. x \in Held(a) <=> \E i \in DOMAIN a : x \in Live(a[i])
      BY Zenon DEF Held
    <3>2. x \in Held(q) <=> \E i \in 1..n : x \in Live(q[i])
      BY <1>2, Zenon DEF Held
    <3>. QED
      BY <1>3, <2>1, <2>2, <2>3, <3>1, <3>2
  <2>. QED
    BY <2>4
<1>5. Held(<< >>) = {}
  BY DEF Held
<1>6. Held(<<b>>) = Live(b)
  BY DEF Held
<1>. QED
  BY <1>1, <1>4, <1>5, <1>6

LEMMA CleanAppend ==
    ASSUME SizeAssumption, Types, NEW q \in Seq(Buffer), NEW b \in Buffer, NEW n \in Nat,
           NEW k \in Nat, n <= k, Clean(q, n), AtMost(b, n), Stale(b, Seen)
    PROVE  Clean(q, k) /\ Clean(Append(q, b), k)
<1>1. ASSUME NEW c \in Buffer, AtMost(c, n) PROVE AtMost(c, k)
  <2>1. \A i \in 1..Size : c.cells[i] \in Nat
    BY DEF Buffer, Cell, SizeAssumption
  <2>. QED
    BY <1>1, <2>1 DEF AtMost
<1>2. \A i \in 1..Len(q) : AtMost(q[i], k) /\ Stale(q[i], Seen)
  <2>. TAKE i \in 1..Len(q)
  <2>1. PICK c \in Buffer : c = q[i]
    OBVIOUS
  <2>. QED
    BY <1>1, <2>1 DEF Clean
<1>3. AtMost(b, k)
  BY <1>1
<1>4. PICK a : a = Append(q, b)
  OBVIOUS
<1>5. PICK l \in Nat : l = Len(q)
  BY LenProperties
<1>6. /\ Len(a) = l + 1 /\ a[l + 1] = b
      /\ \A i \in 1..l : a[i] = q[i]
  BY <1>4, <1>5, AppendProperties
<1>7. \A i \in 1..(l + 1) : i \in 1..l \/ i = l + 1
  BY <1>5
<1>8. Clean(a, k)
  BY <1>2, <1>3, <1>5, <1>6, <1>7, Zenon DEF Clean
<1>. QED
  BY <1>2, <1>4, <1>8 DEF Clean

-----------------------------------------------------------------------------
(* The steps *)

LEMMA FrontStep ==
    ASSUME SizeAssumption, Inv, Append1
    PROVE  Inv'
<1>0. /\ Types /\ Spares /\ Logged /\ buffers \in Seq(Buffer) /\ appended \in Cell
      /\ Size \in Nat /\ Size > 1 /\ MaxMessages \in Nat /\ Seen \in Nat
  BY LenProperties DEF Inv, Types, SizeAssumption, Seen
<1>1. /\ disk' = disk /\ stream' = stream /\ writtenBytes' = writtenBytes /\ counts' = counts
      /\ newBuffer1' = newBuffer1 /\ newBuffer2' = newBuffer2
      /\ buffersToWrite' = buffersToWrite /\ writing' = writing /\ written' = written
      /\ running' = running /\ pc' = pc /\ stopper' = stopper
  BY DEF Append1, backVars, fileVars
<1>2. PICK m \in Cell : m = appended + 1
  BY <1>0 DEF Append1, Cell
<1>3. PICK mid \in Cell :
          Seen <= mid /\ mid <= appended /\ FrontHolds(mid) /\ BackHolds(mid)
  BY DEF Inv, Passed
<1>4. PICK f \in Starts(buffers), b \in Buffer :
        /\ currentBuffer = <<b>>
        /\ Chain(buffers, f) /\ f[1] = mid
        /\ Holds(b, f[Len(buffers) + 1]) /\ appended = f[Len(buffers) + 1] + b.cur
        /\ Clean(buffers, appended) /\ AtMost(b, appended) /\ Stale(b, Seen)
        /\ \A x \in (mid + 1)..appended : x \in Held(buffers) \cup Held(currentBuffer)
  BY <1>3 DEF FrontHolds
<1>5. PICK lo \in Cell : lo = f[Len(buffers) + 1]
  <2>1. Len(buffers) + 1 \in 1..(Len(buffers) + 1)
    BY <1>0, LenProperties
  <2>. QED
    BY <2>1 DEF Starts
<1>6. BackHolds(mid)'
  BY <1>1, <1>3 DEF BackHolds, WrittenSoFar, Clean, Seen
<1>7. Seen' = Seen
  BY <1>1 DEF Seen
<1>8. appended' = m /\ m - 1 = appended /\ appended <= m /\ appended \in Nat /\ m \in Nat
  BY <1>0, <1>2 DEF Append1, Cell
<1>9. b = Head(currentBuffer)
  BY <1>4
<1>10. CASE avail(b) > 1
  <2>1. currentBuffer' = <<Put(b, m)>> /\ nextBuffer' = nextBuffer /\ buffers' = buffers
    BY <1>2, <1>9, <1>10 DEF Append1
  <2>2. b.cur < Size /\ m = lo + b.cur + 1
    BY <1>0, <1>2, <1>4, <1>5, <1>10 DEF avail, Buffer, Cell
  <2>3. PICK c : c = Put(b, m)
    OBVIOUS
  <2>4. /\ c \in Buffer /\ c.cur = b.cur + 1
        /\ Holds(c, lo) /\ AtMost(c, m) /\ Stale(c, Seen)
        /\ Live(c) = Live(b) \cup {m}
    BY <1>0, <1>4, <1>5, <1>8, <2>2, <2>3, PutProperties
  <2>5. Clean(buffers, m)
    BY <1>0, <1>4, <1>8, CleanAppend
  <2>6. m = lo + c.cur
    BY <2>2, <2>4 DEF Buffer, Cell
  <2>7. \A x \in (mid + 1)..m : x \in Held(buffers) \cup Held(<<c>>)
    <3>1. \A x \in (mid + 1)..m : x = m \/ x \in (mid + 1)..appended
      BY <1>8 DEF Cell
    <3>2. Held(<<c>>) = Held(<<b>>) \cup {m}
      BY <1>0, <2>4, HeldProperties
    <3>. QED
      BY <1>4, <3>1, <3>2
  <2>8. FrontHolds(mid)'
    <3>1. /\ currentBuffer' = <<c>> /\ buffers' = buffers /\ appended' = m
          /\ Stale(c, Seen')
      BY <1>7, <1>8, <2>1, <2>3, <2>4
    <3>2. Clean(buffers, appended)'
      BY <1>7, <1>8, <2>1, <2>5 DEF Clean
    <3>. QED
      BY <1>4, <1>5, <2>4, <2>6, <2>7, <3>1, <3>2 DEF FrontHolds
  <2>9. Types' /\ Spares' /\ Logged'
    BY <1>0, <1>1, <1>7, <1>8, <2>1 DEF Types, Spares, Spare, Logged
  <2>. QED
    BY <1>3, <1>6, <1>7, <1>8, <2>8, <2>9 DEF Inv, Passed, Cell
<1>11. CASE ~(avail(b) > 1)
  <2>1. PICK nb : nb = Head(nextBuffer \o <<NewBuffer>>)
    OBVIOUS
  <2>2. currentBuffer' = <<Put(nb, m)>> /\ nextBuffer' = << >> /\ buffers' = Append(buffers, b)
    BY <1>2, <1>9, <1>11, <2>1 DEF Append1, Queued
  <2>3. nb \in Buffer /\ nb.cur = 0 /\ AtMost(nb, Seen)
    <3>1. PICK z : z = NewBuffer
      OBVIOUS
    <3>2. z \in Buffer /\ z.cur = 0 /\ AtMost(z, Seen)
      BY <1>0, <3>1 DEF NewBuffer, Buffer, Cell, AtMost
    <3>3. CASE nextBuffer = << >>
      <4>1. nb = z
        BY <2>1, <3>1, <3>3
      <4>. QED
        BY <3>2, <4>1
    <3>4. ASSUME NEW y \in Buffer, nextBuffer = <<y>>, y.cur = 0, AtMost(y, Seen)
          PROVE  nb \in Buffer /\ nb.cur = 0 /\ AtMost(nb, Seen)
      <4>1. nb = y
        BY <2>1, <3>1, <3>2, <3>4
      <4>. QED
        BY <3>4, <4>1
    <3>. QED
      BY <1>0, <3>3, <3>4 DEF Spares, Spare
  <2>4. /\ Holds(nb, appended) /\ AtMost(nb, m - 1) /\ Stale(nb, Seen)
        /\ nb.cur < Size /\ m = appended + nb.cur + 1
    <3>1. \A i \in 1..Size : nb.cells[i] \in Nat /\ nb.cells[i] <= Seen
      BY <1>0, <2>3 DEF Buffer, Cell, AtMost
    <3>2. Seen <= m - 1
      BY <1>0, <1>3, <1>8 DEF Cell
    <3>3. AtMost(nb, m - 1)
      BY <1>0, <1>8, <3>1, <3>2 DEF AtMost
    <3>4. Stale(nb, Seen) /\ Holds(nb, appended)
      BY <1>0, <2>3, <3>1 DEF Stale, Holds
    <3>. QED
      BY <1>0, <1>2, <1>8, <2>3, <3>3, <3>4
  <2>5. PICK c : c = Put(nb, m)
    OBVIOUS
  <2>6. /\ c \in Buffer /\ c.cur = 1
        /\ Holds(c, appended) /\ AtMost(c, m) /\ Stale(c, Seen)
        /\ m \in Live(c)
    BY <1>0, <2>3, <2>4, <2>5, PutProperties
  <2>7. PICK h \in Starts(Append(buffers, b)) :
              /\ Chain(Append(buffers, b), h)
              /\ h[1] = mid /\ h[Len(Append(buffers, b)) + 1] = appended
    BY <1>0, <1>4, ChainAppend
  <2>8. Clean(Append(buffers, b), m)
    BY <1>0, <1>4, <1>8, CleanAppend
  <2>9. \A x \in (mid + 1)..m : x \in Held(Append(buffers, b)) \cup Held(<<c>>)
    <3>1. \A x \in (mid + 1)..m : x = m \/ x \in (mid + 1)..appended
      BY <1>8 DEF Cell
    <3>2. /\ Held(Append(buffers, b)) = Held(buffers) \cup Held(<<b>>)
          /\ Held(<<c>>) = Live(c)
      BY <1>0, <2>6, HeldProperties
    <3>. QED
      BY <1>4, <2>6, <3>1, <3>2
  <2>10. PICK q \in Seq(Buffer) : q = Append(buffers, b) /\ q # << >>
    BY <1>0, AppendProperties
  <2>11. FrontHolds(mid)'
    <3>1. Clean(buffers, appended)'
      BY <1>7, <1>8, <2>2, <2>8, <2>10 DEF Clean
    <3>2. currentBuffer' = <<c>> /\ buffers' = q /\ appended' = m /\ m = appended + c.cur
      BY <1>2, <1>8, <2>2, <2>5, <2>6, <2>10
    <3>. QED
      BY <1>7, <2>6, <2>7, <2>9, <2>10, <3>1, <3>2 DEF FrontHolds
  <2>12. Types' /\ Spares' /\ Logged'
    BY <1>0, <1>1, <1>7, <1>8, <2>2, <2>10 DEF Types, Spares, Spare, Logged
  <2>. QED
    BY <1>3, <1>6, <1>7, <1>8, <2>11, <2>12 DEF Inv, Passed, Cell
<1>. QED
  BY <1>10, <1>11

LEMMA SwapStep ==
    ASSUME SizeAssumption, Inv, pc \in {"lock", "wait"}, SwapBuffers
    PROVE  Inv'
<1>0. /\ Types /\ Spares /\ Logged /\ buffers \in Seq(Buffer) /\ appended \in Cell
      /\ Size \in Nat /\ MaxMessages \in Nat /\ appended \in Nat
  BY LenProperties DEF Inv, Types, SizeAssumption, Cell
<1>1. /\ currentBuffer' = newBuffer1 /\ newBuffer1' = << >>
      /\ buffersToWrite' = buffers \o currentBuffer /\ buffers' = << >> /\ pc' = "write"
      /\ disk' = disk /\ stream' = stream /\ writtenBytes' = writtenBytes /\ counts' = counts
      /\ appended' = appended /\ writing' = writing /\ written' = written
      /\ running' = running /\ stopper' = stopper
  BY DEF SwapBuffers, fileVars
<1>2. PICK mid \in Cell :
          Seen <= mid /\ mid <= appended /\ FrontHolds(mid) /\ BackHolds(mid)
  BY DEF Inv, Passed
<1>3. PICK f \in Starts(buffers), b \in Buffer :
        /\ currentBuffer = <<b>>
        /\ Chain(buffers, f) /\ f[1] = mid
        /\ Holds(b, f[Len(buffers) + 1]) /\ appended = f[Len(buffers) + 1] + b.cur
        /\ Clean(buffers, appended) /\ AtMost(b, appended) /\ Stale(b, Seen)
        /\ \A x \in (mid + 1)..appended : x \in Held(buffers) \cup Held(currentBuffer)
  BY <1>2 DEF FrontHolds
<1>4. PICK q \in Seq(Buffer) : q = Append(buffers, b) /\ Len(q) = Len(buffers) + 1
  BY <1>0, AppendProperties
<1>5. buffersToWrite' = q
  BY <1>0, <1>1, <1>3, <1>4
<1>6. PICK h \in Starts(q) : Chain(q, h) /\ h[1] = mid /\ h[Len(q) + 1] = appended
  BY <1>0, <1>3, <1>4, ChainAppend
<1>7. Clean(q, appended)
  BY <1>0, <1>3, <1>4, CleanAppend
<1>8. \A x \in (mid + 1)..appended : x \in Held(q)
  BY <1>0, <1>3, <1>4, HeldProperties
<1>9. /\ Seen = mid /\ stream = << >> /\ writing = 1 /\ written = 0 /\ Seen \in Nat
      /\ Len(disk) \in Nat /\ Len(stream) = 0 /\ Seen' = Seen
  BY <1>0, <1>1, <1>2, LenProperties, EmptySeq DEF BackHolds, Logged, Types, Seen, Cell
<1>10. Len(buffers) \in Nat /\ (buffers # << >> => Len(buffers) >= 1)
  BY <1>0, LenProperties, EmptySeq
<1>11. BackHolds(appended)'
  <2>1. q[1].cur \in Nat
    <3>1. q[1] \in Buffer
      BY <1>4, <1>10
    <3>. QED
      BY <1>0, <3>1 DEF Buffer
  <2>2. Seen' = h[1] + (IF 0 < q[1].cur THEN 0 ELSE q[1].cur)
    BY <1>6, <1>9, <2>1
  <2>3. h[1] <= Len(disk')
    BY <1>1, <1>6, <1>9 DEF Seen
  <2>4. WrittenSoFar(h, appended)' = Seen'
    BY <1>1, <1>5, <1>9, <2>2 DEF WrittenSoFar
  <2>5. Clean(buffersToWrite, appended)'
    BY <1>1, <1>5, <1>7, <1>9 DEF Clean
  <2>6. pc' \in {"write", "recycle"}
    BY <1>1
  <2>7. \A x \in (h[1] + 1)..appended : x \in Held(q)
    BY <1>6, <1>8
  <2>. QED
    BY <1>1, <1>5, <1>6, <2>3, <2>4, <2>5, <2>6, <2>7 DEF BackHolds
<1>12. PICK s \in Buffer : newBuffer1 = <<s>> /\ s.cur = 0 /\ AtMost(s, Seen)
  BY <1>0 DEF Spares, Spare
<1>13. FrontHolds(appended)'
  <2>1. PICK k : k = [i \in 1..1 |-> appended]
    OBVIOUS
  <2>2. Len(<< >>) = 0 /\ k \in [1..(0 + 1) -> Cell] /\ k[0 + 1] = appended /\ k[1] = appended
    BY <1>0, <2>1
  <2>3. k \in Starts(buffers') /\ Chain(buffers', k) /\ k[Len(buffers') + 1] = appended
    BY <1>1, <2>2 DEF Chain, Starts
  <2>4. Clean(buffers, appended)'
    BY <1>1, <2>2 DEF Clean
  <2>5. \A i \in 1..Size : s.cells[i] \in Nat /\ s.cells[i] <= Seen
    BY <1>0, <1>12 DEF Buffer, Cell, AtMost
  <2>6. AtMost(s, appended) /\ Stale(s, Seen') /\ Holds(s, appended)
    <3>1. \A i \in 1..Size : s.cells[i] <= appended
      BY <1>0, <1>2, <1>9, <2>5 DEF Cell
    <3>2. \A i \in (s.cur + 1)..Size : s.cells[i] <= Seen
      BY <1>0, <1>12, <2>5
    <3>. QED
      BY <1>9, <1>12, <3>1, <3>2 DEF AtMost, Stale, Holds
  <2>7. (appended + 1)..appended = {} /\ appended = appended + s.cur
    BY <1>0, <1>12
  <2>. QED
    BY <1>1, <1>12, <2>2, <2>3, <2>4, <2>6, <2>7 DEF FrontHolds
<1>14. Types'
  BY <1>0, <1>1, <1>4, <1>5, <1>9, <1>10, EmptySeq DEF Types
<1>15. Logged'
  BY <1>0, <1>1 DEF Logged
<1>16. Spares'
  <2>1. CASE nextBuffer = << >>
    <3>1. nextBuffer' = newBuffer2 /\ newBuffer2' = << >>
      BY <2>1 DEF SwapBuffers, SpareNeeded
    <3>2. Len(q) >= 2
      BY <1>0, <1>4, <1>10, <2>1 DEF Spares
    <3>. QED
      BY <1>0, <1>1, <1>5, <1>9, <3>1, <3>2 DEF Spares, Spare
  <2>2. CASE nextBuffer # << >>
    <3>1. nextBuffer' = nextBuffer /\ newBuffer2' = newBuffer2
      BY <2>2 DEF SwapBuffers, SpareNeeded
    <3>2. Len(q) >= 1
      BY <1>4, <1>10
    <3>. QED
      BY <1>0, <1>1, <1>5, <1>9, <2>2, <3>1, <3>2 DEF Spares, Spare
  <2>. QED
    BY <2>1, <2>2
<1>17. Seen' <= appended' /\ appended' <= appended' /\ appended' \in Cell
  BY <1>0, <1>1, <1>2, <1>9 DEF Cell
<1>18. Passed'
  BY <1>11, <1>13, <1>17 DEF Passed
<1>. QED
  BY <1>14, <1>15, <1>16, <1>18 DEF Inv

\* A partial write takes the next messages of the buffer and then its old contents
LEMMA WriteStep ==
    ASSUME SizeAssumption, Inv, NEW n \in 0..(Size - written), WriteSome(n)
    PROVE  Inv'
<1>0. /\ Types /\ Spares /\ Logged /\ buffersToWrite \in Seq(Buffer) /\ Size \in Nat
      /\ MaxMessages \in Nat
  BY DEF Inv, Types, SizeAssumption
<1>1. /\ pc = "write" /\ written < Size /\ written' = written + n
      /\ fwrite(SubSeq(buffersToWrite[writing].cells, written + 1, written + n))
      /\ appended' = appended /\ currentBuffer' = currentBuffer /\ nextBuffer' = nextBuffer
      /\ buffers' = buffers /\ newBuffer1' = newBuffer1 /\ newBuffer2' = newBuffer2
      /\ buffersToWrite' = buffersToWrite /\ writing' = writing /\ pc' = pc
      /\ writtenBytes' = writtenBytes /\ counts' = counts /\ running' = running
      /\ stopper' = stopper
  BY DEF WriteSome, frontVars
<1>2. /\ writing \in 1..Len(buffersToWrite) /\ written \in 0..Size /\ n \in Nat
      /\ written' \in 0..Size /\ Seen \in Nat
  BY <1>0, <1>1, LenProperties DEF Types, Seen
<1>3. PICK mid \in Cell :
          Seen <= mid /\ mid <= appended /\ FrontHolds(mid) /\ BackHolds(mid)
  BY DEF Inv, Passed
<1>4. PICK g \in Starts(buffersToWrite) :
            /\ Chain(buffersToWrite, g) /\ g[Len(buffersToWrite) + 1] = mid
            /\ g[1] <= Len(disk)
            /\ Clean(buffersToWrite, mid)
            /\ \A m \in (g[1] + 1)..mid : m \in Held(buffersToWrite)
            /\ Seen = WrittenSoFar(g, mid)
  BY <1>1, <1>3 DEF BackHolds
<1>5. PICK b \in Buffer : b = buffersToWrite[writing]
  BY <1>0, <1>2
<1>6. /\ b.cur \in 0..Size /\ b.cells \in [1..Size -> Cell] /\ \A i \in 1..Size : b.cells[i] \in Nat
  BY <1>0 DEF Buffer, Cell
<1>7. PICK lo \in Nat : lo = g[writing]
  <2>1. writing \in 1..(Len(buffersToWrite) + 1)
    BY <1>0, <1>2, LenProperties
  <2>. QED
    BY <1>0, <2>1 DEF Starts, Cell
<1>8. /\ \A i \in 1..b.cur : b.cells[i] = lo + i
      /\ \A i \in (b.cur + 1)..Size : b.cells[i] <= Seen
      /\ \A i \in 1..Size : b.cells[i] <= mid
  BY <1>2, <1>4, <1>5, <1>7 DEF Chain, Clean, Holds, Stale, AtMost
<1>9. Seen = lo + (IF written < b.cur THEN written ELSE b.cur)
  BY <1>1, <1>4, <1>5, <1>7 DEF WrittenSoFar
<1>10. PICK m \in 0..n : m = IF written >= b.cur THEN 0
                             ELSE IF written + n <= b.cur THEN n ELSE b.cur - written
  BY <1>2, <1>6
<1>11. PICK cells : cells = SubSeq(b.cells, written + 1, written + n)
  OBVIOUS
<1>12. /\ cells \in Seq(Nat) /\ Len(cells) = n
       /\ \A i \in 1..n : cells[i] = b.cells[written + i]
  <2>1. PICK q : q = b.cells
    OBVIOUS
  <2>2. q \in [1..Size -> Nat]
    BY <1>6, <2>1
  <2>3. q \in Seq(Nat) /\ Len(q) = Size
    BY <1>0, <2>2
  <2>4. written + n <= Size /\ written \in Nat
    BY <1>0, <1>2
  <2>5. written + n <= Len(q)
    BY <2>3, <2>4
  <2>6. /\ SubSeq(q, written + 1, written + n) \in Seq(Nat)
        /\ Len(SubSeq(q, written + 1, written + n)) = n
        /\ \A i \in 1..n : SubSeq(q, written + 1, written + n)[i] = q[written + i]
    <3>1. PICK w \in Nat : w = written /\ w + n <= Len(q)
      BY <2>4, <2>5, Zenon
    <3>2. n \in Nat /\ q \in Seq(Nat)
      BY <1>2, <2>3, Zenon
    <3>3. /\ SubSeq(q, w + 1, w + n) \in Seq(Nat) /\ Len(SubSeq(q, w + 1, w + n)) = n
          /\ \A i \in 1..n : SubSeq(q, w + 1, w + n)[i] = q[w + i]
      BY <3>1, <3>2, Middle
    <3>. QED
      BY <3>1, <3>3, Zenon
  <2>. QED
    BY <1>11, <2>1, <2>6, Zenon
<1>13. \A i \in 1..m : cells[i] = Seen + i
  <2>. TAKE i \in 1..m
  <2>1. i \in 1..n /\ written + i \in 1..b.cur /\ written < b.cur
    BY <1>2, <1>6, <1>10
  <2>2. cells[i] = lo + (written + i)
    BY <1>8, <1>12, <2>1
  <2>. QED
    BY <1>2, <1>9, <2>1, <2>2
<1>14. \A i \in (m + 1)..n : cells[i] <= Seen
  <2>. TAKE i \in (m + 1)..n
  <2>1. i \in 1..n /\ written + i \in (b.cur + 1)..Size
    <3>1. PICK c \in Nat, w \in Nat, j \in Nat :
              c = b.cur /\ w = written /\ j = i /\ c <= Size /\ w + n <= Size /\ j <= n
              /\ m + 1 <= j
      BY <1>0, <1>2, <1>6, <1>10
    <3>2. m = IF w >= c THEN 0 ELSE IF w + n <= c THEN n ELSE c - w
      BY <1>10, <3>1, Zenon
    <3>3. c + 1 <= w + j
      <4>1. CASE w >= c
        BY <3>1, <3>2, <4>1
      <4>2. CASE w < c /\ w + n <= c
        BY <1>2, <3>1, <3>2, <4>2
      <4>3. CASE w < c /\ w + n > c
        <5>1. m = c - w
          BY <1>2, <3>1, <3>2, <4>3
        <5>. QED
          BY <3>1, <5>1
      <4>. QED
        BY <1>2, <3>1, <4>1, <4>2, <4>3
    <3>4. w + j \in (c + 1)..Size
      BY <1>0, <1>2, <3>1, <3>3
    <3>5. j \in 1..n
      BY <1>2, <3>1, <1>10
    <3>. QED
      BY <3>1, <3>4, <3>5, Zenon
  <2>. QED
    BY <1>8, <1>12, <2>1
<1>15. Grown(m)
  BY <1>0, <1>1, <1>2, <1>5, <1>11, <1>12, <1>13, <1>14, WriteEffect
<1>16. /\ Seen' = Seen + m /\ Seen' \in Nat /\ Seen <= Seen' /\ m \in Nat
       /\ disk' \in Seq(Nat) /\ Len(disk) <= Len(disk') /\ Len(disk) \in Nat /\ Len(disk') \in Nat
  BY <1>0, <1>2, <1>15, LenProperties DEF Grown, Types
<1>17. Seen' <= mid
  <2>1. CASE m = 0
    BY <1>2, <1>3, <1>16, <2>1
  <2>2. CASE m # 0
    <3>1. m \in 1..m /\ m \in 1..n /\ written + m \in 1..Size
      BY <1>0, <1>2, <1>10, <2>2
    <3>2. cells[m] = Seen + m /\ cells[m] = b.cells[written + m] /\ b.cells[written + m] <= mid
      BY <1>8, <1>12, <1>13, <3>1
    <3>. QED
      BY <1>16, <3>2
  <2>. QED
    BY <2>1, <2>2
<1>18. FrontHolds(mid)'
  BY <1>0, <1>1, <1>3, <1>16, FrontStays DEF frontVars
<1>19. BackHolds(mid)'
  <2>1. Seen' = lo + (IF written + n < b.cur THEN written + n ELSE b.cur)
    <3>1. PICK c \in Nat, w \in Nat : c = b.cur /\ w = written
      BY <1>0, <1>2, <1>6
    <3>2. m = IF w >= c THEN 0 ELSE IF w + n <= c THEN n ELSE c - w
      BY <1>10, <3>1, Zenon
    <3>3. Seen = lo + (IF w < c THEN w ELSE c)
      BY <1>9, <3>1, Zenon
    <3>4. Seen + m = lo + (IF w + n < c THEN w + n ELSE c)
      BY <1>2, <3>2, <3>3
    <3>. QED
      BY <1>16, <3>1, <3>4, Zenon
  <2>2. WrittenSoFar(g, mid)' = Seen'
    BY <1>1, <1>5, <1>7, <2>1 DEF WrittenSoFar
  <2>3. \A i \in 1..Len(buffersToWrite) :
            AtMost(buffersToWrite[i], mid) /\ Stale(buffersToWrite[i], Seen')
    BY <1>0, <1>4, <1>16, CleanStays
  <2>4. Clean(buffersToWrite, mid)'
    BY <1>1, <2>3 DEF Clean
  <2>5. g[1] <= Len(disk')
    <3>1. 1 \in 1..(Len(buffersToWrite) + 1)
      BY <1>0, LenProperties
    <3>2. g[1] \in Nat
      BY <3>1 DEF Starts, Cell
    <3>. QED
      BY <1>4, <1>16, <3>2
  <2>. QED
    BY <1>1, <1>4, <2>2, <2>4, <2>5 DEF BackHolds
<1>20. Types'
  BY <1>0, <1>1, <1>2, <1>15 DEF Types, Grown
<1>21. Logged'
  BY <1>1, <1>15 DEF Logged, Grown
<1>22. Spares'
  BY <1>0, <1>1, <1>16, SpareStays DEF Spares, Spare
<1>. QED
  BY <1>1, <1>3, <1>17, <1>18, <1>19, <1>20, <1>21, <1>22 DEF Inv, Passed

LEMMA EndStep ==
    ASSUME LogFileAssumption, SizeAssumption, Inv, EndAppend
    PROVE  Inv'
<1>0. /\ Types /\ Spares /\ Logged /\ buffersToWrite \in Seq(Buffer) /\ Size \in Nat
      /\ MaxMessages \in Nat /\ Len(buffersToWrite) \in Nat
  BY LenProperties DEF Inv, Types, SizeAssumption
<1>1. /\ pc = "write" /\ written = Size /\ written' = 0
      /\ appended' = appended /\ currentBuffer' = currentBuffer /\ nextBuffer' = nextBuffer
      /\ buffers' = buffers /\ newBuffer1' = newBuffer1 /\ newBuffer2' = newBuffer2
      /\ buffersToWrite' = buffersToWrite /\ running' = running /\ stopper' = stopper
  BY DEF EndAppend, frontVars
<1>2. PICK clock \in Clock : AfterAppend(Size, clock)
  BY DEF EndAppend
<1>3. /\ Grown(0)
      /\ writtenBytes' \in 0..(RollSize + 1) /\ counts' \in 0..(CheckEveryN - 1)
  BY <1>0, <1>2, AppendEffect
<1>4. /\ Seen \in Nat /\ Seen' = Seen /\ disk' \in Seq(Nat) /\ stream' \in Seq(Nat)
      /\ Len(disk) <= Len(disk') /\ Len(disk) \in Nat /\ Len(disk') \in Nat
  BY <1>0, <1>3, LenProperties DEF Grown, Types, Seen
<1>5. PICK mid \in Cell :
          Seen <= mid /\ mid <= appended /\ FrontHolds(mid) /\ BackHolds(mid)
  BY DEF Inv, Passed
<1>6. PICK g \in Starts(buffersToWrite) :
            /\ Chain(buffersToWrite, g) /\ g[Len(buffersToWrite) + 1] = mid
            /\ g[1] <= Len(disk)
            /\ Clean(buffersToWrite, mid)
            /\ \A m \in (g[1] + 1)..mid : m \in Held(buffersToWrite)
            /\ Seen = WrittenSoFar(g, mid)
  BY <1>1, <1>5 DEF BackHolds
<1>7. writing \in 1..Len(buffersToWrite)
  BY <1>0, <1>1 DEF Types
<1>8. PICK b \in Buffer : b = buffersToWrite[writing]
  BY <1>0, <1>7
<1>9. Seen = g[writing + 1]
  <2>1. b.cur \in 0..Size
    BY DEF Buffer
  <2>2. Seen = g[writing] + b.cur
    BY <1>0, <1>1, <1>6, <1>8, <2>1 DEF WrittenSoFar
  <2>. QED
    BY <1>6, <1>7, <1>8, <2>2 DEF Chain
<1>10. FrontHolds(mid)'
  <2>1. Seen' \in Nat /\ Seen <= Seen'
    BY <1>4
  <2>. QED
    BY <1>0, <1>1, <1>5, <2>1, FrontStays DEF frontVars
<1>11. g[1] <= Len(disk')
  <2>1. 1 \in 1..(Len(buffersToWrite) + 1)
    BY <1>0
  <2>2. g[1] \in Nat
    BY <2>1 DEF Starts, Cell
  <2>. QED
    BY <1>4, <1>6, <2>2
<1>12. Clean(buffersToWrite, mid)'
  BY <1>1, <1>4, <1>6 DEF Clean
<1>13. /\ pc' \in {"write", "recycle"}
       /\ pc' = "write" => writing' = writing + 1 /\ writing' \in 1..Len(buffersToWrite)
       /\ pc' = "recycle" => writing' = 1 /\ writing = Len(buffersToWrite)
  BY <1>0, <1>1, <1>7 DEF EndAppend
<1>14. WrittenSoFar(g, mid)' = Seen'
  <2>1. CASE pc' = "recycle"
    BY <1>4, <1>6, <1>9, <1>13, <2>1 DEF WrittenSoFar
  <2>2. CASE pc' = "write"
    <3>1. PICK c \in Buffer : c = buffersToWrite[writing']
      BY <1>0, <1>13, <2>2
    <3>2. c.cur \in Nat
      BY <1>0 DEF Buffer
    <3>3. g[writing'] = Seen'
      BY <1>4, <1>9, <1>13, <2>2
    <3>4. Seen' = g[writing'] + (IF 0 < c.cur THEN 0 ELSE c.cur)
      BY <1>4, <3>2, <3>3
    <3>. QED
      BY <1>1, <2>2, <3>1, <3>4 DEF WrittenSoFar
  <2>. QED
    BY <1>13, <2>1, <2>2
<1>15. BackHolds(mid)'
  BY <1>1, <1>6, <1>11, <1>12, <1>13, <1>14 DEF BackHolds
<1>16. Types'
  BY <1>0, <1>1, <1>3, <1>4, <1>13 DEF Types
<1>17. Logged'
  BY <1>3, <1>13 DEF Logged, Grown
<1>18. Spares'
  BY <1>0, <1>1, <1>4, <1>13 DEF Spares, Spare
<1>. QED
  BY <1>1, <1>4, <1>5, <1>10, <1>15, <1>16, <1>17, <1>18 DEF Inv, Passed

LEMMA RecycleStep ==
    ASSUME SizeAssumption, Inv, Recycle
    PROVE  Inv'
<1>0. /\ Types /\ Spares /\ Logged /\ buffersToWrite \in Seq(Buffer) /\ Size \in Nat
      /\ MaxMessages \in Nat /\ Len(buffersToWrite) \in Nat
  BY LenProperties DEF Inv, Types, SizeAssumption
<1>1. /\ pc = "recycle" /\ pc' = "test" /\ fflush
      /\ newBuffer1' = BackToFirst
      /\ newBuffer2' = IF newBuffer2 = << >> THEN <<reset(Last(Front(Kept)))>> ELSE newBuffer2
      /\ buffersToWrite' = << >>
      /\ appended' = appended /\ currentBuffer' = currentBuffer /\ nextBuffer' = nextBuffer
      /\ buffers' = buffers /\ writing' = writing /\ written' = written
      /\ writtenBytes' = writtenBytes /\ counts' = counts
      /\ running' = running /\ stopper' = stopper
  BY DEF Recycle, frontVars
<1>2. /\ Grown(0) /\ stream' = << >>
  BY <1>0, <1>1, FlushEffect
<1>3. /\ Seen \in Nat /\ Seen' = Seen /\ disk' \in Seq(Nat) /\ stream' \in Seq(Nat)
  BY <1>0, <1>2, LenProperties DEF Grown, Types, Seen
<1>4. PICK mid \in Cell :
          Seen <= mid /\ mid <= appended /\ FrontHolds(mid) /\ BackHolds(mid)
  BY DEF Inv, Passed
<1>5. Seen = mid /\ Clean(buffersToWrite, Seen)
  BY <1>1, <1>4 DEF BackHolds, WrittenSoFar
<1>6. Len(buffersToWrite) >= IF newBuffer2 = << >> THEN 2 ELSE 1
  BY <1>0, <1>1 DEF Spares
<1>7. ASSUME NEW i \in 1..Len(buffersToWrite)
      PROVE  /\ reset(buffersToWrite[i]) \in Buffer /\ reset(buffersToWrite[i]).cur = 0
             /\ AtMost(reset(buffersToWrite[i]), Seen)
  <2>1. PICK b \in Buffer : b = buffersToWrite[i]
    BY <1>0
  <2>2. PICK r : r = reset(b)
    OBVIOUS
  <2>3. r \in Buffer /\ r.cur = 0 /\ r.cells = b.cells
    <3>1. PICK q \in [1..Size -> Cell], c \in 0..Size : b = [cells |-> q, cur |-> c]
      BY DEF Buffer
    <3>2. r = [cells |-> q, cur |-> 0] /\ 0 \in 0..Size
      BY <1>0, <2>2, <3>1 DEF reset
    <3>. QED
      BY <3>1, <3>2 DEF Buffer
  <2>4. AtMost(b, Seen)
    BY <1>5, <2>1 DEF Clean
  <2>. QED
    BY <2>1, <2>2, <2>3, <2>4 DEF AtMost
<1>8. PICK l \in 1..Len(buffersToWrite) :
          l = IF Len(buffersToWrite) > 2 THEN 2 ELSE Len(buffersToWrite)
  BY <1>0, <1>6
<1>9. PICK k : k = Kept
  OBVIOUS
<1>10. k \in Seq(Buffer) /\ Len(k) = l /\ \A i \in 1..l : k[i] = buffersToWrite[i]
  <2>1. k = SubSeq(buffersToWrite, 1, l)
    BY <1>8, <1>9, Zenon DEF Kept
  <2>. QED
    BY <1>0, <1>8, <2>1
<1>11. newBuffer1' = <<reset(buffersToWrite[l])>>
  <2>1. Last(k) = buffersToWrite[l]
    BY <1>8, <1>10 DEF Last
  <2>. QED
    BY <1>1, <1>9, <2>1 DEF BackToFirst
<1>12. newBuffer2 = << >> => newBuffer2' = <<reset(buffersToWrite[1])>>
  <2>. SUFFICES ASSUME newBuffer2 = << >> PROVE newBuffer2' = <<reset(buffersToWrite[1])>>
    OBVIOUS
  <2>1. l = 2
    <3>1. PICK n \in Nat : n = Len(buffersToWrite) /\ n >= 2
      BY <1>0, <1>6
    <3>2. l = IF n > 2 THEN 2 ELSE n
      BY <1>8, <3>1, Zenon
    <3>. QED
      BY <3>1, <3>2
  <2>2. PICK c : c = Front(k)
    OBVIOUS
  <2>3. Len(c) = 1 /\ c[1] = buffersToWrite[1]
    BY <1>10, <2>1, <2>2 DEF Front
  <2>4. Last(c) = buffersToWrite[1]
    BY <2>3 DEF Last
  <2>. QED
    BY <1>1, <1>9, <2>2, <2>4
<1>13. Spares'
  <2>1. Spare(newBuffer1)' /\ newBuffer1' # << >>
    BY <1>3, <1>7, <1>8, <1>11 DEF Spare
  <2>2. Spare(newBuffer2)' /\ newBuffer2' # << >>
    <3>1. CASE newBuffer2 = << >>
      <4>1. 1 \in 1..Len(buffersToWrite)
        BY <1>0, <1>8
      <4>2. PICK r : r = reset(buffersToWrite[1])
        OBVIOUS
      <4>3. r \in Buffer /\ r.cur = 0 /\ AtMost(r, Seen')
        BY <1>3, <1>7, <4>1, <4>2
      <4>4. newBuffer2' = <<r>>
        BY <1>12, <3>1, <4>2, Zenon
      <4>. QED
        BY <4>3, <4>4 DEF Spare
    <3>2. CASE newBuffer2 # << >>
      BY <1>0, <1>1, <1>3, <3>2 DEF Spares, Spare
    <3>. QED
      BY <3>1, <3>2
  <2>3. Spare(nextBuffer)'
    BY <1>0, <1>1, <1>3 DEF Spares, Spare
  <2>. QED
    BY <1>0, <1>1, <2>1, <2>2, <2>3 DEF Spares
<1>14. FrontHolds(mid)'
  <2>1. Seen' \in Nat /\ Seen <= Seen'
    BY <1>3
  <2>. QED
    BY <1>0, <1>1, <1>4, <2>1, FrontStays DEF frontVars
<1>15. BackHolds(mid)'
  BY <1>1, <1>3, <1>5 DEF BackHolds
<1>16. Types'
  BY <1>0, <1>1, <1>3, EmptySeq DEF Types
<1>17. Logged'
  BY <1>1, <1>2 DEF Logged, Grown
<1>. QED
  BY <1>1, <1>3, <1>4, <1>13, <1>14, <1>15, <1>16, <1>17 DEF Inv, Passed

\* The steps that exchange no buffer: the thread starts, tests, waits or ends, and stop()
LEMMA OtherStep ==
    ASSUME SizeAssumption, Inv, Start \/ stop \/ TestRunning \/ Wait \/ UNCHANGED vars
    PROVE  Inv'
<1>0. Types /\ Spares /\ Logged /\ Size \in Nat /\ MaxMessages \in Nat
  BY DEF Inv, SizeAssumption
<1>1. /\ UNCHANGED frontVars /\ buffersToWrite' = buffersToWrite
      /\ writing' = writing /\ written' = written
      /\ writtenBytes' = writtenBytes /\ counts' = counts
      /\ running' \in BOOLEAN /\ stopper' \in {"idle", "notify", "join", "joined"}
  BY <1>0 DEF Start, stop, Stop, Notify, Join, TestRunning, Wait, vars, frontVars, backVars,
              fileVars, Types
<1>2. /\ fflush /\ pc \notin {"write", "recycle"} /\ pc' = "ended"
      \/ /\ NoFlush
         /\ \/ pc' = pc
            \/ pc \notin {"write", "recycle"} /\ pc' \in {"test", "lock", "wait"}
  BY DEF Start, stop, Stop, Notify, Join, TestRunning, Wait, vars, fileVars, NoFlush
<1>3. \/ newBuffer1' = newBuffer1 /\ newBuffer2' = newBuffer2
      \/ newBuffer1' = <<NewBuffer>> /\ newBuffer2' = <<NewBuffer>>
  BY DEF Start, stop, Stop, Notify, Join, TestRunning, Wait, vars, backVars
<1>4. /\ Grown(0) /\ (stream' = << >> \/ stream' = stream)
  BY <1>0, <1>2, FlushEffect
<1>5. /\ Seen \in Nat /\ Seen' = Seen /\ disk' \in Seq(Nat) /\ stream' \in Seq(Nat)
  BY <1>0, <1>4, LenProperties DEF Grown, Types, Seen
<1>6. pc' \in {"off", "test", "lock", "wait", "write", "recycle", "ended"}
      /\ (pc' \in {"write", "recycle"} <=> pc \in {"write", "recycle"})
      /\ (pc' \in {"write", "recycle"} => pc' = pc /\ NoFlush)
  BY <1>0, <1>2 DEF Types
<1>7. Types'
  BY <1>0, <1>1, <1>5, <1>6 DEF Types, frontVars
<1>8. Logged'
  BY <1>0, <1>4, <1>6 DEF Logged, Grown
<1>9. Spare(nextBuffer)' /\ Spare(newBuffer1)' /\ Spare(newBuffer2)'
  <2>1. Spare(<<NewBuffer>>)'
    <3>1. PICK z : z = [i \in 1..Size |-> 0]
      OBVIOUS
    <3>2. z \in [1..Size -> Cell] /\ 0 \in 0..Size /\ \A i \in 1..Size : z[i] <= Seen'
      BY <1>0, <1>5, <3>1 DEF Cell
    <3>3. PICK b : b = [cells |-> z, cur |-> 0]
      OBVIOUS
    <3>4. b \in Buffer /\ b.cur = 0 /\ b.cells = z
      BY <3>2, <3>3 DEF Buffer
    <3>5. NewBuffer = b
      BY <3>1, <3>3, Zenon DEF NewBuffer
    <3>. QED
      BY <3>2, <3>4, <3>5 DEF Spare, AtMost
  <2>2. \A p : Spare(p) => p = << >> \/ \E b \in Buffer : p = <<b>> /\ b.cur = 0 /\ AtMost(b, Seen')
    BY <1>5 DEF Spare
  <2>. QED
    BY <1>0, <1>1, <1>3, <2>1, <2>2 DEF Spares, Spare, frontVars
<1>10. pc' \in {"test", "lock", "wait"} => newBuffer1' # << >> /\ newBuffer2' # << >>
  BY <1>0 DEF Spares, Start, stop, Stop, Notify, Join, TestRunning, Wait, vars, backVars
<1>11. pc' \in {"write", "recycle"} => newBuffer2' = newBuffer2
  BY <1>6 DEF Start, stop, Stop, Notify, Join, TestRunning, Wait, vars, backVars
<1>12. Spares'
  BY <1>0, <1>1, <1>6, <1>9, <1>10, <1>11 DEF Spares, frontVars
<1>13. PICK mid \in Cell :
          Seen <= mid /\ mid <= appended /\ FrontHolds(mid) /\ BackHolds(mid)
  BY DEF Inv, Passed
<1>14. FrontHolds(mid)'
  <2>1. Seen' \in Nat /\ Seen <= Seen'
    BY <1>5
  <2>. QED
    BY <1>0, <1>1, <1>13, <2>1, FrontStays
<1>15. BackHolds(mid)'
  <2>1. CASE pc \in {"write", "recycle"}
    <3>1. disk' = disk /\ pc' = pc
      BY <1>6, <2>1 DEF NoFlush
    <3>. QED
      BY <1>1, <1>5, <1>13, <2>1, <3>1 DEF BackHolds, Clean, WrittenSoFar
  <2>2. CASE pc \notin {"write", "recycle"}
    BY <1>5, <1>6, <1>13, <2>2 DEF BackHolds
  <2>. QED
    BY <2>1, <2>2
<1>. QED
  BY <1>1, <1>5, <1>7, <1>8, <1>12, <1>13, <1>14, <1>15 DEF Inv, Passed, frontVars

LEMMA InitInv ==
    ASSUME SizeAssumption, LogFileAssumption, Init
    PROVE  Inv
<1>0. /\ Size \in Nat /\ MaxMessages \in Nat /\ RollSize \in Nat /\ CheckEveryN \in Nat \ {0}
      /\ Init /\ disk = << >> /\ stream = << >> /\ writtenBytes = 0 /\ counts = 0
      /\ 0 \in Cell
  BY DEF SizeAssumption, LogFileAssumption, Init, NewLogFile, Cell
<1>1. Len(disk) = 0 /\ Len(stream) = 0 /\ Seen = 0 /\ Len(buffers) = 0
  BY <1>0 DEF Seen, Init
<1>2. PICK b : b = NewBuffer
  OBVIOUS
<1>3. b \in Buffer /\ b.cur = 0 /\ \A i \in 1..Size : b.cells[i] = 0
  <2>1. PICK z : z = [i \in 1..Size |-> 0]
    OBVIOUS
  <2>2. z \in [1..Size -> Cell] /\ 0 \in 0..Size /\ \A i \in 1..Size : z[i] = 0
    BY <1>0, <2>1
  <2>3. b = [cells |-> z, cur |-> 0]
    BY <1>2, <2>1, Zenon DEF NewBuffer
  <2>. QED
    BY <2>2, <2>3 DEF Buffer
<1>4. Types
  <2>1. 0 \in 0..(RollSize + 1) /\ 0 \in 0..(CheckEveryN - 1)
    BY <1>0
  <2>2. << >> \in Seq(Nat) /\ << >> \in Seq(Buffer)
    BY EmptySeq
  <2>. QED
    BY <1>0, <2>1, <2>2 DEF Types, Init
<1>5. Spares
  <2>1. Spare(<<b>>)
    BY <1>1, <1>3 DEF Spare, AtMost
  <2>. QED
    BY <1>0, <1>2, <2>1 DEF Spares, Init, Spare
<1>6. Logged
  BY <1>0, <1>1 DEF Logged, Counts
<1>7. FrontHolds(0)
  <2>1. PICK f : f = [i \in 1..1 |-> 0]
    OBVIOUS
  <2>2. f \in [1..1 -> Cell] /\ f[1] = 0
    BY <1>0, <2>1
  <2>3. f \in Starts(buffers) /\ Chain(buffers, f) /\ Clean(buffers, 0)
    BY <1>1, <2>2 DEF Starts, Chain, Clean
  <2>4. Holds(b, 0) /\ AtMost(b, 0) /\ Stale(b, Seen)
    BY <1>0, <1>1, <1>3 DEF Holds, AtMost, Stale
  <2>5. currentBuffer = <<b>> /\ appended = 0
    BY <1>0, <1>2 DEF Init
  <2>. QED
    BY <1>1, <1>3, <2>2, <2>3, <2>4, <2>5 DEF FrontHolds
<1>8. BackHolds(0)
  BY <1>0, <1>1 DEF BackHolds, Init
<1>. QED
  BY <1>0, <1>1, <1>4, <1>5, <1>6, <1>7, <1>8 DEF Inv, Passed, Init

LEMMA InvStep ==
    ASSUME SizeAssumption, LogFileAssumption, Inv, [Next]_vars
    PROVE  Inv'
<1>1. CASE Append1
  BY <1>1, FrontStep
<1>2. CASE SwapAtOnce \/ WakeAndSwap
  BY <1>2, SwapStep DEF SwapAtOnce, WakeAndSwap
<1>3. CASE EndAppend
  BY <1>3, EndStep
<1>4. CASE Recycle
  BY <1>4, RecycleStep
<1>5. CASE \E n \in 1..(Size - written) : WriteSome(n)
  <2>1. PICK n \in 1..(Size - written) : WriteSome(n)
    BY <1>5
  <2>2. pc = "write"
    BY <2>1 DEF WriteSome
  <2>3. Size \in Nat /\ written \in 0..Size
    BY <2>2 DEF Inv, Types, SizeAssumption
  <2>4. n \in 0..(Size - written)
    BY <2>3
  <2>. QED
    BY <2>1, <2>4, WriteStep
<1>6. CASE WriteSome(0)
  <2>1. pc = "write"
    BY <1>6 DEF WriteSome
  <2>2. Size \in Nat /\ written \in 0..Size
    BY <2>1 DEF Inv, Types, SizeAssumption
  <2>3. 0 \in 0..(Size - written)
    BY <2>2
  <2>. QED
    BY <1>6, <2>3, WriteStep
<1>7. CASE Start \/ stop \/ TestRunning \/ Wait \/ UNCHANGED vars
  BY <1>7, OtherStep
<1>. QED
  BY <1>1, <1>2, <1>3, <1>4, <1>5, <1>6, <1>7 DEF Next, threadFunc, Progress

LEMMA InvHolds ==
    ASSUME SizeAssumption, LogFileAssumption
    PROVE  Spec => []Inv
<1>1. Init => Inv
  BY InitInv
<1>2. Inv /\ [Next]_vars => Inv'
  BY InvStep
<1>. QED
  BY <1>1, <1>2, PTL DEF Spec

-----------------------------------------------------------------------------
(* Theorems *)

\* The buffers, the positions of the back end and the counters of the log file keep their
\* types: currentBuffer_ is never null, and nothing but messages reaches the files.
THEOREM TypeCorrect ==
    ASSUME SizeAssumption, LogFileAssumption
    PROVE  Spec => []TypeOK
<1>1. ASSUME Inv PROVE TypeOK
  <2>0. Types /\ Spares /\ Logged /\ MaxMessages \in Nat /\ Size \in Nat
    BY <1>1 DEF Inv, SizeAssumption
  <2>1. PICK mid \in Cell :
            Seen <= mid /\ mid <= appended /\ FrontHolds(mid) /\ BackHolds(mid)
    BY <1>1 DEF Inv, Passed
  <2>2. Len(currentBuffer) = 1 /\ currentBuffer \in Seq(Buffer)
    BY <2>1 DEF FrontHolds
  <2>3. \A p \in {nextBuffer, newBuffer1, newBuffer2} : Len(p) <= 1 /\ p \in Seq(Buffer)
    <3>1. ASSUME NEW p, Spare(p) PROVE Len(p) <= 1 /\ p \in Seq(Buffer)
      <4>1. CASE p = << >>
        <5>1. Len(<< >>) <= 1 /\ << >> \in Seq(Buffer)
          BY EmptySeq
        <5>. QED
          BY <4>1, <5>1, Zenon
      <4>2. ASSUME NEW b \in Buffer, p = <<b>> PROVE Len(p) <= 1 /\ p \in Seq(Buffer)
        BY <4>2
      <4>. QED
        BY <3>1, <4>1, <4>2, Zenon DEF Spare
    <3>. QED
      BY <2>0, <3>1 DEF Spares
  <2>4. PICK ld \in Nat, ls \in Nat : ld = Len(disk) /\ ls = Len(stream) /\ ld + ls <= MaxMessages
    BY <2>0, <2>1, LenProperties DEF Types, Seen, Cell
  <2>5. disk \in Seq(1..MaxMessages)
    <3>1. disk \in Seq(Nat) /\ \A i \in 1..ld : disk[i] = 0 + i
      BY <2>0, <2>4 DEF Types, Logged, Counts
    <3>2. \A i \in 1..ld : 0 + i \in 1..MaxMessages
      BY <2>0, <2>4
    <3>3. disk \in [1..ld -> 1..MaxMessages]
      BY <2>4, <3>1, <3>2
    <3>. QED
      BY <3>3
  <2>6. stream \in Seq(1..MaxMessages)
    <3>1. stream \in Seq(Nat) /\ \A i \in 1..ls : stream[i] = ld + i
      BY <2>0, <2>4 DEF Types, Logged, Counts
    <3>2. \A i \in 1..ls : ld + i \in 1..MaxMessages
      BY <2>0, <2>4
    <3>3. stream \in [1..ls -> 1..MaxMessages]
      BY <2>4, <3>1, <3>2
    <3>. QED
      BY <3>3
  <2>7. writing \in 1..(Len(buffersToWrite) + 1) /\ written \in 0..Size
    BY <2>0, LenProperties DEF Types
  <2>. QED
    BY <2>0, <2>2, <2>3, <2>5, <2>6, <2>7 DEF Types, TypeOK, Cell
<1>. QED
  BY <1>1, InvHolds, PTL

\* No message gets lost between append(), the exchange of the buffers, the partial writes,
\* the rolled files and the recycling of the buffers.
THEOREM NoMessageDropped ==
    ASSUME SizeAssumption, LogFileAssumption
    PROVE  Spec => []NothingDropped
<1>1. ASSUME Inv PROVE NothingDropped
  <2>0. Types /\ Logged /\ MaxMessages \in Nat
    BY <1>1 DEF Inv, SizeAssumption
  <2>1. PICK mid \in Cell :
            Seen <= mid /\ mid <= appended /\ FrontHolds(mid) /\ BackHolds(mid)
    BY <1>1 DEF Inv, Passed
  <2>2. mid \in Nat /\ appended \in Nat /\ Len(disk) \in Nat
    BY <2>0, <2>1, LenProperties DEF Types, Cell
  <2>3. \A m \in (mid + 1)..appended : m \in Held(buffers) \cup Held(currentBuffer)
    BY <2>1 DEF FrontHolds
  <2>4. \A m \in 1..Len(disk) : m \in ToSet(disk)
    <3>1. disk \in Seq(Nat) /\ \A i \in 1..Len(disk) : disk[i] = 0 + i
      BY <2>0 DEF Types, Logged, Counts
    <3>2. \A i \in 1..Len(disk) : i \in DOMAIN disk /\ disk[i] = i
      BY <3>1
    <3>. QED
      BY <3>2, Zenon DEF ToSet
  <2>5. ASSUME NEW m \in 1..mid
        PROVE  \/ m \in ToSet(disk)
               \/ pc \in {"write", "recycle"} /\ m \in Held(buffersToWrite)
    <3>1. CASE pc \in {"write", "recycle"}
      <4>1. PICK g \in Starts(buffersToWrite) :
                g[1] <= Len(disk) /\ \A i \in (g[1] + 1)..mid : i \in Held(buffersToWrite)
        BY <2>1, <3>1 DEF BackHolds
      <4>2. g[1] \in Nat
        <5>1. 1 \in 1..(Len(buffersToWrite) + 1)
          BY <2>0, LenProperties DEF Types
        <5>. QED
          BY <5>1 DEF Starts, Cell
      <4>3. m \in 1..Len(disk) \/ m \in (g[1] + 1)..mid
        BY <2>2, <4>1, <4>2
      <4>. QED
        BY <2>4, <3>1, <4>1, <4>3
    <3>2. CASE pc \notin {"write", "recycle"}
      <4>1. Seen = mid /\ stream = << >>
        BY <2>0, <2>1, <3>2 DEF BackHolds, Logged
      <4>2. Len(disk) = mid
        BY <2>2, <4>1 DEF Seen
      <4>. QED
        BY <2>4, <4>2
    <3>. QED
      BY <3>1, <3>2
  <2>6. \A m \in 1..appended : m \in 1..mid \/ m \in (mid + 1)..appended
    BY <2>2
  <2>. QED
    BY <2>3, <2>5, <2>6, Zenon DEF NothingDropped
<1>. QED
  BY <1>1, InvHolds, PTL

\* In the files and the stream in front of them the messages appear for the first time in
\* the order of append(), whatever the back end writes again from a recycled buffer.
THEOREM FilesInOrder ==
    ASSUME SizeAssumption, LogFileAssumption
    PROVE  Spec => []OrderKept
<1>1. ASSUME Inv PROVE OrderKept
  <2>1. /\ disk \in Seq(Nat) /\ stream \in Seq(Nat)
        /\ Counts(disk, 0) /\ Counts(stream, Len(disk))
    BY <1>1 DEF Inv, Types, Logged
  <2>2. 0 \in Nat /\ Len(disk) = 0 + Len(disk)
    BY <2>1, LenProperties
  <2>3. PICK c \in Seq(Nat) : c = disk \o stream /\ Counts(c, 0)
    BY <2>1, <2>2, CountsConcat, Zenon
  <2>4. \A i \in DOMAIN c : c[i] = i
    BY <2>3 DEF Counts
  <2>. QED
    BY <2>3, <2>4, Zenon DEF OrderKept
<1>. QED
  BY <1>1, InvHolds, PTL

\* When the back end takes its spare buffers back, buffersToWrite has as many as it needs:
\* back() and pop_back() are never called on an empty vector.
THEOREM SparesComeBack ==
    ASSUME SizeAssumption, LogFileAssumption
    PROVE  Spec => []BackNeverEmpty
<1>1. Inv => BackNeverEmpty
  BY DEF Inv, Spares, BackNeverEmpty
<1>. QED
  BY <1>1, InvHolds, PTL

=============================================================================
