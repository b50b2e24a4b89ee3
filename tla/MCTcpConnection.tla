--------------------------- MODULE MCTcpConnection ---------------------------
(* Small instances of TcpConnection for TLC. *)
EXTENDS TcpConnection
=============================================================================
