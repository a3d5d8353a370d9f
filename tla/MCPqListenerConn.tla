--------------------------- MODULE MCPqListenerConn ----------------------------
(* Instances of PqListenerConn for TLC. *)
EXTENDS PqListenerConn

CONSTANTS c1, c2, c3
================================================================================
