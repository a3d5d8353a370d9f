----------------------------- MODULE SimpleQueries -----------------------------
(***************************************************************************)
(* lib/pq/notify.go: what the comment of ListenerConn.ExecSimpleQuery      *)
(* promises to those who call it from several goroutines.                  *)
(*                                                                         *)
(* A call returns what the server answered to its own query, or, once the  *)
(* connection has failed, that the query was not executed; the query of a  *)
(* call made after that never runs.  The first reason for the failure      *)
(* stays.                                                                  *)
(***************************************************************************)
CONSTANT Calls

VARIABLES
  reason,     \* why the connection is over, or "none"
  call,       \* call[c]: "idle", "called", or what it returned
  answer      \* answer[c]: what the server made of its query, "no" before it ran

sqVars == <<reason, call, answer>>

Init ==
  /\ reason = "none"
  /\ call = [c \in Calls |-> "idle"]
  /\ answer = [c \in Calls |-> "no"]

Begin(c) ==
  /\ call[c] = "idle"
  /\ call' = [call EXCEPT ![c] = IF reason = "none" THEN "called" ELSE "refused"]
  /\ UNCHANGED <<reason, answer>>

Run(c) ==
  /\ call[c] \in {"called", "failed"} /\ answer[c] = "no"
  /\ \E a \in {"ok", "error"} : answer' = [answer EXCEPT ![c] = a]
  /\ UNCHANGED <<reason, call>>

Executed(c) ==
  /\ call[c] = "called" /\ answer[c] # "no"
  /\ call' = [call EXCEPT ![c] = answer[c]]
  /\ UNCHANGED <<reason, answer>>

NotExecuted(c) ==
  /\ call[c] = "called" /\ reason # "none"
  /\ call' = [call EXCEPT ![c] = "failed"]
  /\ UNCHANGED <<reason, answer>>

\* A sender whose query cannot be sent finds the connection over and returns.
Abandon(c) ==
  /\ call[c] = "called"
  /\ reason' = IF reason = "none" THEN "write" ELSE reason
  /\ call' = [call EXCEPT ![c] = "failed"]
  /\ UNCHANGED answer

Over(why) ==
  /\ reason = "none" /\ reason' = why
  /\ UNCHANGED <<call, answer>>

Next ==
  \/ \E c \in Calls : Begin(c) \/ Run(c) \/ Executed(c) \/ NotExecuted(c) \/ Abandon(c)
  \/ \E why \in {"lost", "closed"} : Over(why)

Spec == Init /\ [][Next]_sqVars
================================================================================
