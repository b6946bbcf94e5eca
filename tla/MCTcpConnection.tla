-------------------------- MODULE MCTcpConnection --------------------------
(* A connection with a user on its loop and one on another thread.         *)
EXTENDS TcpConnection
=============================================================================
