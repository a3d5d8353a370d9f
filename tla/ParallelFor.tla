------------------------------ MODULE ParallelFor ------------------------------
(***************************************************************************)
(* What a caller of DownloadAllAudio (audio/util.go) may rely on: a call   *)
(* has a set of items, every item is dealt with, in any order, and the     *)
(* call returns only when none is left.  The death of the process takes    *)
(* every call with it.  How the items reach the workers (the unbuffered    *)
(* channel, the WaitGroup) is not visible here; ClipDownload implements    *)
(* this specification.                                                     *)
(***************************************************************************)
CONSTANTS Requests,   \* the calls, one for each request being served
          Clips,      \* the items
          Need        \* Need[r]: the items of call r

VARIABLES phase,      \* phase[r]: "idle", "running" or "returned"
          todo        \* todo[r]: the items of r not dealt with yet

vars == <<phase, todo>>

Init ==
  /\ phase = [r \in Requests |-> "idle"]
  /\ todo = [r \in Requests |-> {}]

Begin(r) ==
  /\ phase[r] = "idle"
  /\ phase' = [phase EXCEPT ![r] = "running"]
  /\ todo' = [todo EXCEPT ![r] = Need[r]]

Handle(r, c) ==
  /\ phase[r] = "running"
  /\ c \in todo[r]
  /\ todo' = [todo EXCEPT ![r] = @ \ {c}]
  /\ UNCHANGED phase

Return(r) ==
  /\ phase[r] = "running"
  /\ todo[r] = {}
  /\ phase' = [phase EXCEPT ![r] = "returned"]
  /\ UNCHANGED todo

\* The process dies: no call survives, and none has returned in the next one.
Die ==
  /\ phase' = [r \in Requests |-> "idle"]
  /\ todo' = [r \in Requests |-> {}]

Next ==
  \/ \E r \in Requests : Begin(r) \/ Return(r)
  \/ \E r \in Requests, c \in Clips : Handle(r, c)
  \/ Die

Spec == Init /\ [][Next]_vars
================================================================================
