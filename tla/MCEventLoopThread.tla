------------------------- MODULE MCEventLoopThread -------------------------
(* An owner, one more caller, one functor; functors may quit the loop.     *)
EXTENDS EventLoopThread
=============================================================================
