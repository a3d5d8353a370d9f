----------------------------- MODULE MCPqListener ------------------------------
(* Instances of PqListener for TLC. *)
EXTENDS PqListener

CONSTANTS c1, c2, a, b
================================================================================
