------------------------------- MODULE MCBuffer -------------------------------
(* Small instances of Buffer for TLC. *)
EXTENDS Buffer
=============================================================================
