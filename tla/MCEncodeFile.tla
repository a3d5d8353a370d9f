----------------------------- MODULE MCEncodeFile ------------------------------
(* Instances of EncodeFile for TLC. *)
EXTENDS EncodeFile, TLC

CONSTANTS r1, r2, r3, f1

\* All the requests ask for the same channels and times.
MCOutFile == [r \in Requests |-> f1]

MCSymmetry == Permutations(Requests)
================================================================================
