---------------------------- MODULE MCTcpClient ----------------------------
(* A client called by a thread and by callbacks on its loop.               *)
EXTENDS TcpClient, TLC

ConnFunctors == Conns \X {"shutdown", "forceClose", "destroyed"}

\* Callers, and connections, are interchangeable in ClientSpec.
Symmetry == Permutations(Callers) \cup Permutations(Conns)
=============================================================================
