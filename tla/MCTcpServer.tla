---------------------------- MODULE MCTcpServer ----------------------------
(* A server with up to two threads and two descriptors for connections,    *)
(* the spare one and the rest of the program.                              *)
EXTENDS TcpServer
=============================================================================
