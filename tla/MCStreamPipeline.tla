--------------------------- MODULE MCStreamPipeline ----------------------------
(* Instances of StreamPipeline for TLC: the configurations give the numbers. *)
EXTENDS StreamPipeline, TLC
================================================================================
