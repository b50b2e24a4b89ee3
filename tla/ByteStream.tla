------------------------------ MODULE ByteStream ------------------------------
(***************************************************************************)
(* What a Buffer promises its users: a first-in first-out stream of bytes. *)
(* Users put bytes at the end, look at bytes at the front, and take bytes  *)
(* from the front.                                                         *)
(***************************************************************************)
EXTENDS Naturals, Sequences

VARIABLES content,   \* the bytes in the stream
          moved      \* the bytes a user has given or was given last

vars == <<content, moved>>

Init == content = << >> /\ moved = << >>

Front(n) == SubSeq(content, 1, n)
Rest(n) == SubSeq(content, n + 1, Len(content))

Put == content' = content \o moved'

Show(n) == moved' = Front(n) /\ UNCHANGED content

Take(n) == moved' = Front(n) /\ content' = Rest(n)

\* Taken without being looked at
Drop(n) == content' = Rest(n) /\ UNCHANGED moved

Next == Put \/ \E n \in 0..Len(content) : Show(n) \/ Drop(n) \/ Take(n)

Spec == Init /\ [][Next]_vars
=============================================================================
