-------------------------- MODULE MCReceiveBuffer --------------------------
(* Buffers of six bytes and a stream of fourteen.                          *)
EXTENDS ReceiveBuffer
=============================================================================
