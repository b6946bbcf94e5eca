---------------------------- MODULE MCConnector ----------------------------
(* A connector with the delays of Connector.h.                             *)
EXTENDS Connector
=============================================================================
