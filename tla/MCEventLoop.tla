---------------------------- MODULE MCEventLoop ----------------------------
(* A loop thread, two callers, three functors and one I/O watcher.         *)
EXTENDS EventLoop
=============================================================================
