-------------------------------- MODULE LogFile --------------------------------
(***************************************************************************)
(* The files of the log (src/src/logger/LogFile.cc, FileUtil.cc): appends  *)
(* go to a stdio stream, the disk gets them when the stream is flushed or  *)
(* closed, and a new file is begun when the old one is too large or too    *)
(* old.                                                                    *)
(*                                                                         *)
(* Data are cells that hold a message or 0; disk and stream keep the first *)
(* appearance of every message.  time(2) is wall-clock time, and only      *)
(* three comparisons are made with it, which are a parameter: now is after *)
(* the last roll, now is in another period (day) than the last roll, now   *)
(* is more than flushInterval_ after the last flush.                       *)
(***************************************************************************)
EXTENDS Naturals, FiniteSets, SequencesExt

CONSTANTS RollSize,      \* rollSize_, in cells
          CheckEveryN    \* checkEveryN_

ASSUME LogFileAssumption == RollSize \in Nat /\ CheckEveryN \in Nat \ {0}

VARIABLES disk,           \* the messages in all files, oldest first
          stream,         \* the messages in the stdio buffer of the file in use
          writtenBytes,   \* writtenBytes_ of the file in use, at most RollSize + 1
          counts          \* counts_

fileVars == <<disk, stream, writtenBytes, counts>>

\* A flush is due only at a later time than that of the last roll
Clock == {c \in [afterRoll : BOOLEAN, otherPeriod : BOOLEAN, flushDue : BOOLEAN] :
             c.flushDue => c.afterRoll}

\* The constructor: rollFile opens the first file
NewLogFile == disk = << >> /\ stream = << >> /\ writtenBytes = 0 /\ counts = 0

\* The cells with messages that stdio has not seen yet, in their order: disk and stream keep
\* the first appearance of a message, fwrite puts every cell into the file.  The k-th of them
\* is the one with k - 1 before it
Fresh(cells) ==
    LET new == {i \in DOMAIN cells : cells[i] # 0 /\ cells[i] \notin ToSet(disk \o stream)}
        kth(k) == CHOOSE i \in new : Cardinality({j \in new : j < i}) = k - 1
    IN  [k \in 1..Cardinality(new) |-> cells[kth(k)]]

\* fwrite_unlocked of FileUtil::write; stdio passes on what its own buffer cannot hold
fwrite(cells) ==
    LET all == stream \o Fresh(cells)
    IN  \E n \in 0..Len(all) :
           /\ disk' = disk \o SubSeq(all, 1, n)
           /\ stream' = SubSeq(all, n + 1, Len(all))

fflush == disk' = disk \o stream /\ stream' = << >>

NoFlush == UNCHANGED <<disk, stream>>

\* A bug to tell apart: the old stream is never closed
ResetWithoutClose == disk' = disk /\ stream' = << >>

\* file_.reset(new FileUtil): fclose writes out what the old stream holds
ResetFile == fflush

\* rollFile, at most once a second, of a file with so many bytes
rollFile(clock, bytes) ==
    IF clock.afterRoll
    THEN writtenBytes' = 0 /\ ResetFile
    ELSE writtenBytes' = bytes /\ NoFlush

\* writtenBytes_ += len, as far as it matters
Written(len) == IF writtenBytes + len > RollSize THEN RollSize + 1 ELSE writtenBytes + len

\* appendInLock, after the loop of FileUtil::append has written len cells
AfterAppend(len, clock) ==
    IF Written(len) > RollSize
    THEN rollFile(clock, Written(len)) /\ UNCHANGED counts
    ELSE /\ counts' = (counts + 1) % CheckEveryN
         /\ IF counts' = 0 /\ clock.otherPeriod
            THEN rollFile(clock, Written(len))
            ELSE /\ writtenBytes' = Written(len)
                 /\ IF counts' = 0 /\ clock.flushDue THEN fflush ELSE NoFlush
=============================================================================
