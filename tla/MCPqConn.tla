------------------------------- MODULE MCPqConn --------------------------------
(* Instances of PqConn for TLC. *)
EXTENDS PqConn
================================================================================
