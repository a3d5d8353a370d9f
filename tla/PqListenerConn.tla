---------------------------- MODULE PqListenerConn -----------------------------
(***************************************************************************)
(* lib/pq/notify.go: ListenerConn, a connection on which several           *)
(* goroutines run simple queries (LISTEN, UNLISTEN, ping) while one        *)
(* goroutine receives their replies and the notifications.                 *)
(*                                                                         *)
(* connectionLock is held across steps only by a call in acquireSenderLock *)
(* that waits for senderLock, and senderLock by the calls in Sending, so   *)
(* that pc says who holds them.  PostgreSQL and TCP are external: what the *)
(* server sends is read in order, and after its end some of it may be      *)
(* lost.                                                                   *)
(***************************************************************************)
EXTENDS Integers, Sequences

CONSTANTS
  Calls,      \* the calls of ExecSimpleQuery, each by a goroutine of its own
  Pings,      \* those made by Ping
  Cap,        \* the capacity of the notification channel
  MaxNotes    \* bound: notifications the server sends

ASSUME PingsAssumption == Pings \subseteq Calls
ASSUME CapAssumption == Cap \in Nat /\ MaxNotes \in Nat

VARIABLES
  pc,         \* pc[c]: where the call c is, or what it returned
  rpc,        \* where listenerConnMain is
  rmsg,       \* the message it is about to put into replyChan
  err,        \* l.err: "none", or who set it
  connState,  \* l.connState
  replyChan,  \* the messages in the channel, of capacity 2
  notes,      \* notifications in notificationChan
  bad,        \* cn.bad
  socket,     \* cn.c on this side: "open" or "closed"
  \* the server
  server,     \* "up", "dying" (a fatal ErrorResponse is on its way), "gone"
  reply,      \* reply[c]: what is on its way for the query of c
  ran,        \* ran[c]: what the server made of the query of c, "no" before it ran
  unsent      \* notifications it has yet to send

local == <<err, connState, replyChan, notes, bad, socket>>
remote == <<server, reply, ran, unsent>>
vars == <<pc, rpc, rmsg, local, remote>>

Sending == {"locked", "write", "wait", "waitE", "abandon"}
Returned == {"ok", "error", "failed", "refused", "panicked"}

\* With the types: a lock has one holder.
TypeOK ==
  /\ \A c, d \in Calls : pc[c] = "acquire" /\ pc[d] = "acquire" => c = d
  /\ \A c, d \in Calls : pc[c] \in Sending /\ pc[d] \in Sending => c = d
  /\ pc \in [Calls -> {"idle", "acquire"} \cup Sending \cup Returned]
  /\ rpc \in {"recv", "note", "reply", "cleanup", "close", "closenotes", "ended"}
  /\ rmsg \in {"E", "Z"}
  /\ err \in {"none", "lost", "write", "closed"}
  /\ connState \in {"idle", "response", "ready"}
  /\ replyChan \in Seq({"E", "Z"}) /\ Len(replyChan) <= 2
  /\ notes \in 0..Cap
  /\ bad \in BOOLEAN
  /\ socket \in {"open", "closed"}
  /\ server \in {"up", "dying", "gone"}
  /\ reply \in [Calls -> {"none", "sent", "CZ", "EZ", "Z", "done"}]
  /\ ran \in [Calls -> {"no", "ok", "error"}]
  /\ unsent \in 0..MaxNotes

Init ==
  /\ pc = [c \in Calls |-> "idle"]
  /\ rpc = "recv" /\ rmsg = "Z"
  /\ err = "none" /\ connState = "idle" /\ replyChan = << >> /\ notes = 0
  /\ bad = FALSE /\ socket = "open" /\ server = "up"
  /\ reply = [c \in Calls |-> "none"] /\ ran = [c \in Calls |-> "no"]
  /\ unsent = MaxNotes

ConnectionLockFree == \A c \in Calls : pc[c] # "acquire"
SenderLockFree == \A c \in Calls : pc[c] \notin Sending

--------------------------------------------------------------------------------
(* The connection *)

\* conn.Close: nothing on a bad connection; else a Terminate message, and the
\* socket is closed if it could be written.
CnClose ==
  /\ UNCHANGED bad
  /\ \/ ~bad /\ socket = "open" /\ socket' = "closed"
     \/ (bad \/ socket = "closed" \/ server # "up") /\ UNCHANGED socket

\* acquireSenderLock, up to the senderLock
Acquire(c) ==
  /\ pc[c] = "idle"
  /\ ConnectionLockFree
  /\ pc' = [pc EXCEPT ![c] = IF err = "none" THEN "acquire" ELSE "refused"]
  /\ UNCHANGED <<rpc, rmsg, local, remote>>

Lock_Any(c) ==
  /\ pc[c] = "acquire"
  /\ pc' = [pc EXCEPT ![c] = "locked"]
  /\ UNCHANGED <<rpc, rmsg, local, remote>>

Lock(c) ==
  /\ pc[c] = "acquire"
  /\ SenderLockFree
  /\ pc' = [pc EXCEPT ![c] = "locked"]
  /\ UNCHANGED <<rpc, rmsg, local, remote>>

\* sendSimpleQuery: setState first, and the query after it.
SetState(c) ==
  /\ pc[c] = "locked"
  /\ \/ /\ connState = "idle" /\ connState' = "response"
        /\ pc' = [pc EXCEPT ![c] = "write"]
        /\ UNCHANGED bad
     \/ /\ connState # "idle" /\ bad' = TRUE
        /\ pc' = [pc EXCEPT ![c] = "panicked"]
        /\ UNCHANGED connState
  /\ UNCHANGED <<rpc, rmsg, err, replyChan, notes, socket, remote>>

\* The query is on its way; a server that is gone may not be noticed.
Write(c) ==
  /\ pc[c] = "write" /\ socket = "open"
  /\ pc' = [pc EXCEPT ![c] = "wait"]
  /\ reply' = [reply EXCEPT ![c] = "sent"]
  /\ UNCHANGED <<rpc, rmsg, local, server, ran, unsent>>

\* A net.OpError, which errRecover turns into a bad connection
WriteFails(c) ==
  /\ pc[c] = "write"
  /\ socket = "closed" \/ server # "up"
  /\ pc' = [pc EXCEPT ![c] = "abandon"]
  /\ bad' = TRUE
  /\ UNCHANGED <<rpc, rmsg, err, connState, replyChan, notes, socket, remote>>

\* ExecSimpleQuery after that error: it waits for connectionLock, while it holds
\* senderLock.
Abandon_NoLock(c) ==
  /\ pc[c] = "abandon"
  /\ pc' = [pc EXCEPT ![c] = "failed"]
  /\ err' = IF err = "none" THEN "write" ELSE err
  /\ CnClose
  /\ UNCHANGED <<rpc, rmsg, connState, replyChan, notes, remote>>

Abandon(c) ==
  /\ pc[c] = "abandon"
  /\ ConnectionLockFree
  /\ pc' = [pc EXCEPT ![c] = "failed"]
  /\ err' = IF err = "none" THEN "write" ELSE err
  /\ CnClose
  /\ UNCHANGED <<rpc, rmsg, connState, replyChan, notes, remote>>

\* ExecSimpleQuery takes a message from replyChan; it returns after the Z, and
\* Ping panics when it returns an error.
Reply_First(c) ==
  /\ pc[c] \in {"wait", "waitE"}
  /\ replyChan # << >>
  /\ replyChan' = Tail(replyChan)
  /\ pc' = [pc EXCEPT ![c] = IF Head(replyChan) = "E" THEN "error" ELSE "ok"]
  /\ UNCHANGED <<rpc, rmsg, err, connState, notes, bad, socket, remote>>

Reply(c) ==
  /\ pc[c] \in {"wait", "waitE"}
  /\ replyChan # << >>
  /\ replyChan' = Tail(replyChan)
  /\ \/ Head(replyChan) = "E" /\ pc' = [pc EXCEPT ![c] = "waitE"]
     \/ /\ Head(replyChan) = "Z" /\ pc[c] = "wait"
        /\ pc' = [pc EXCEPT ![c] = "ok"]
     \/ /\ Head(replyChan) = "Z" /\ pc[c] = "waitE"
        /\ pc' = [pc EXCEPT ![c] = IF c \in Pings THEN "panicked" ELSE "error"]
  /\ UNCHANGED <<rpc, rmsg, err, connState, notes, bad, socket, remote>>

ReplyClosed(c) ==
  /\ pc[c] \in {"wait", "waitE"}
  /\ replyChan = << >> /\ rpc \in {"closenotes", "ended"}
  /\ pc' = [pc EXCEPT ![c] = "failed"]
  /\ UNCHANGED <<rpc, rmsg, local, remote>>

\* ListenerConn.Close; on a connection that is over it returns an error.
Close ==
  /\ ConnectionLockFree
  /\ err = "none" /\ err' = "closed"
  /\ CnClose
  /\ UNCHANGED <<pc, rpc, rmsg, connState, replyChan, notes, remote>>

--------------------------------------------------------------------------------
(* listenerConnMain *)

\* What of the reply to c is left after its first message
Rest(c) == IF reply[c] = "Z" THEN "done" ELSE "Z"

\* 'C', 'I': nobody waits for it.
RecvComplete(c) ==
  /\ rpc = "recv" /\ reply[c] = "CZ"
  /\ reply' = [reply EXCEPT ![c] = Rest(c)]
  /\ IF connState = "response"
     THEN connState' = "ready" /\ UNCHANGED rpc
     ELSE rpc' = "cleanup" /\ UNCHANGED connState
  /\ UNCHANGED <<pc, rmsg, err, replyChan, notes, bad, socket, server, ran, unsent>>

\* 'E': to the call that waits for a response, or the end of the connection.
RecvError(c) ==
  /\ rpc = "recv" /\ reply[c] = "EZ"
  /\ reply' = [reply EXCEPT ![c] = Rest(c)]
  /\ IF connState = "response"
     THEN connState' = "ready" /\ rmsg' = "E" /\ rpc' = "reply"
     ELSE rpc' = "cleanup" /\ UNCHANGED <<connState, rmsg>>
  /\ UNCHANGED <<pc, err, replyChan, notes, bad, socket, server, ran, unsent>>

RecvReady_NotSent(c) ==
  /\ rpc = "recv" /\ reply[c] = "Z"
  /\ reply' = [reply EXCEPT ![c] = Rest(c)]
  /\ connState' = "idle"
  /\ UNCHANGED <<pc, rpc, rmsg, err, replyChan, notes, bad, socket, server, ran, unsent>>

RecvReady(c) ==
  /\ rpc = "recv" /\ reply[c] = "Z"
  /\ reply' = [reply EXCEPT ![c] = Rest(c)]
  /\ IF connState = "ready"
     THEN connState' = "idle" /\ rmsg' = "Z" /\ rpc' = "reply"
     ELSE rpc' = "cleanup" /\ UNCHANGED <<connState, rmsg>>
  /\ UNCHANGED <<pc, err, replyChan, notes, bad, socket, server, ran, unsent>>

\* An ErrorResponse that answers no query, after the replies sent before it.  It
\* goes to a call that waits for one all the same.
RecvFatal ==
  /\ rpc = "recv" /\ server = "dying"
  /\ \A c \in Calls : reply[c] \notin {"CZ", "EZ", "Z"}
  /\ server' = "gone"
  /\ IF connState = "response"
     THEN connState' = "ready" /\ rmsg' = "E" /\ rpc' = "reply"
     ELSE rpc' = "cleanup" /\ UNCHANGED <<connState, rmsg>>
  /\ UNCHANGED <<pc, err, replyChan, notes, bad, socket, reply, ran, unsent>>

RecvNotification ==
  /\ rpc = "recv" /\ server = "up" /\ unsent > 0
  /\ unsent' = unsent - 1
  /\ rpc' = "note"
  /\ UNCHANGED <<pc, rmsg, local, server, reply, ran>>

\* The connection is lost, or was closed on this side.
RecvFails ==
  /\ rpc = "recv"
  /\ server = "gone" \/ socket = "closed"
  /\ rpc' = "cleanup"
  /\ UNCHANGED <<pc, rmsg, local, remote>>

PutReply ==
  /\ rpc = "reply" /\ Len(replyChan) < 2
  /\ replyChan' = Append(replyChan, rmsg)
  /\ rpc' = "recv"
  /\ UNCHANGED <<pc, rmsg, err, connState, notes, bad, socket, remote>>

PutNotification ==
  /\ rpc = "note" /\ notes < Cap
  /\ notes' = notes + 1
  /\ rpc' = "recv"
  /\ UNCHANGED <<pc, rmsg, err, connState, replyChan, bad, socket, remote>>

\* listenerConnMain after its loop
CleanUp ==
  /\ rpc = "cleanup"
  /\ ConnectionLockFree
  /\ err' = IF err = "none" THEN "lost" ELSE err
  /\ CnClose
  /\ rpc' = "close"
  /\ UNCHANGED <<pc, rmsg, connState, replyChan, notes, remote>>

CloseReplyChan ==
  /\ rpc = "close" /\ rpc' = "closenotes"
  /\ UNCHANGED <<pc, rmsg, local, remote>>

CloseNotificationChan ==
  /\ rpc = "closenotes" /\ rpc' = "ended"
  /\ UNCHANGED <<pc, rmsg, local, remote>>

--------------------------------------------------------------------------------
(* The server, and the reader of the notifications *)

Run(c) ==
  /\ server = "up" /\ reply[c] = "sent"
  /\ \E a \in IF c \in Pings THEN {"ok"} ELSE {"ok", "error"} :
       /\ ran' = [ran EXCEPT ![c] = a]
       /\ reply' = [reply EXCEPT ![c] = IF a = "ok" THEN "CZ" ELSE "EZ"]
  /\ UNCHANGED <<pc, rpc, rmsg, local, server, unsent>>

\* It shuts down with a last message, or is gone.
Fail ==
  /\ \/ server = "up" /\ server' \in {"dying", "gone"}
     \/ server = "dying" /\ server' = "gone"
  /\ UNCHANGED <<pc, rpc, rmsg, local, reply, ran, unsent>>

TakeNotification ==
  /\ notes > 0 /\ notes' = notes - 1
  /\ UNCHANGED <<pc, rpc, rmsg, err, connState, replyChan, bad, socket, remote>>

--------------------------------------------------------------------------------
Receive ==
  \/ \E c \in Calls : RecvComplete(c) \/ RecvError(c) \/ RecvReady(c)
  \/ RecvFatal \/ RecvNotification \/ RecvFails \/ PutReply \/ PutNotification
  \/ CleanUp \/ CloseReplyChan \/ CloseNotificationChan

Next ==
  \/ \E c \in Calls :
       \/ Acquire(c) \/ Lock(c) \/ SetState(c) \/ Write(c) \/ WriteFails(c)
       \/ Abandon(c) \/ Reply(c) \/ ReplyClosed(c)
       \/ RecvComplete(c) \/ RecvError(c) \/ RecvReady(c)
       \/ Run(c)
  \/ Close
  \/ RecvFatal \/ RecvNotification \/ RecvFails \/ PutReply \/ PutNotification
  \/ CleanUp \/ CloseReplyChan \/ CloseNotificationChan
  \/ Fail \/ TakeNotification

Spec == Init /\ [][Next]_vars

\* The goroutines that can go on do.  Nothing is assumed of the server, of those
\* who make the calls, or of the reader of the notifications.
Step(c) == Lock(c) \/ SetState(c) \/ Write(c) \/ WriteFails(c) \/ Abandon(c) \/ Reply(c) \/ ReplyClosed(c)

FairSpec ==
  Spec /\ WF_vars(Receive) /\ \A c \in Calls : WF_vars(Step(c))

--------------------------------------------------------------------------------
(* Safety *)

\* Nothing on this connection finds it in a state it did not expect: no two
\* queries run at once, no ping is answered with an error, and the goroutine that
\* receives never waits for room in replyChan.
NeverHeldUp ==
  /\ \A c \in Calls : pc[c] # "panicked"
  /\ rpc = "reply" => Len(replyChan) < 2

\* Several goroutines, notifications, a server that shuts down and a Close
\* notwithstanding, each call returns the answer to its own query or fails
\* because the connection is over.
Call(c) == IF pc[c] \in {"acquire"} \cup Sending THEN "called" ELSE pc[c]

Simple == INSTANCE SimpleQueries WITH
            reason <- err, call <- [c \in Calls |-> Call(c)], answer <- ran

ImplementsSimpleQueries == Simple!Spec

--------------------------------------------------------------------------------
(* The inductive invariant *)

\* A call that could not be completed is the last one on this connection.
Busy == {c \in Calls : pc[c] \in Sending \cup {"failed"}}

\* What is on its way to the call that waits
Pipe == IF rpc = "reply" THEN Append(replyChan, rmsg) ELSE replyChan

\* Who may be where: one call has each lock, and none is admitted once the
\* connection is over.
LocksOf ==
  /\ \A c, d \in Busy : c = d
  /\ err # "none" => \A c \in Calls : pc[c] # "acquire"
  /\ rpc \in {"close", "closenotes", "ended"} => err # "none"
  /\ (\E c \in Calls : pc[c] = "failed") => err # "none"

\* What the server made of a query, how much of its reply was read, and what the
\* call returned
AnswerOf(c) ==
  /\ reply[c] # "none" => pc[c] \in {"wait", "waitE", "ok", "error", "failed"}
  /\ reply[c] \in {"none", "sent"} <=> ran[c] = "no"
  /\ reply[c] = "CZ" => ran[c] = "ok"
  /\ reply[c] = "EZ" => ran[c] = "error"
  /\ ran[c] = "error" => c \notin Pings
  /\ pc[c] \in {"ok", "error"} => ran[c] = pc[c]
  /\ pc[c] = "failed" /\ reply[c] # "none" => rpc \in {"closenotes", "ended"}

\* Without a call on the connection nothing is under way.
QuietUnlessBusy ==
  Busy = {} =>
    /\ connState = "idle" /\ Pipe = << >>
    /\ \A c \in Calls : reply[c] \in {"none", "done"}

\* For the call on the connection: its place, its reply, the protocol state and
\* the messages on their way to it agree, also after a fatal error that came in the
\* place of its reply.
Cut == connState = "ready" /\ server = "gone"

StageOf(c) ==
  /\ reply[c] = "none" =>
       \/ pc[c] = "locked" /\ connState = "idle" /\ Pipe = << >>
       \/ /\ pc[c] \in {"write", "abandon", "failed"}
          /\ (connState = "response" /\ Pipe = << >>) \/ (Cut /\ Pipe = <<"E">>)
  /\ reply[c] = "sent" =>
       \/ pc[c] # "waitE" /\ connState = "response" /\ Pipe = << >>
       \/ pc[c] # "waitE" /\ Cut /\ Pipe = <<"E">>
       \/ pc[c] # "wait" /\ Cut /\ Pipe = << >>
  /\ reply[c] \in {"CZ", "EZ"} =>
       pc[c] # "waitE" /\ connState = "response" /\ Pipe = << >>
  /\ reply[c] = "Z" =>
       /\ connState = "ready"
       /\ \/ ran[c] = "ok" /\ pc[c] # "waitE" /\ Pipe = << >>
          \/ ran[c] = "error" /\ pc[c] # "waitE" /\ Pipe = <<"E">>
          \/ ran[c] = "error" /\ pc[c] # "wait" /\ Pipe = << >>
  /\ reply[c] = "done" =>
       /\ connState = "idle"
       /\ \/ ran[c] = "ok" /\ pc[c] = "wait" /\ Pipe = <<"Z">>
          \/ ran[c] = "error" /\ pc[c] = "wait" /\ Pipe = <<"E", "Z">>
          \/ ran[c] = "error" /\ pc[c] = "waitE" /\ Pipe = <<"Z">>

Exclusive(c) ==
  /\ StageOf(c)
  /\ \A d \in Calls \ {c} : reply[d] \in {"none", "done"}

IInv ==
  /\ TypeOK /\ LocksOf
  /\ \A c \in Calls : AnswerOf(c) /\ pc[c] # "panicked"
  /\ QuietUnlessBusy
  /\ \A c \in Busy : Exclusive(c)

--------------------------------------------------------------------------------
(* Waiting *)

\* A call waits for senderLock with connectionLock in its hands, and the one that
\* has senderLock cannot go on before somebody else gets connectionLock.
Deadlocked ==
  \E c, d \in Calls :
    /\ pc[c] = "acquire"
    /\ \/ pc[d] = "abandon"
       \/ pc[d] \in {"wait", "waitE"} /\ rpc = "cleanup" /\ replyChan = << >>

\* The goroutine that receives waits for whoever reads the notifications.
NotesUnread == rpc = "note" /\ notes = Cap

\* A server that is up has yet to answer the call that waits.
Unanswered ==
  /\ server # "gone" /\ socket = "open" /\ rpc = "recv"
  /\ \E c \in Calls : pc[c] = "wait" /\ reply[c] = "sent"

\* The call c, or listenerConnMain, can go on: it holds or finds free the lock it
\* needs, and what it waits for is there.
CallGoesOn(c) ==
  \/ pc[c] = "acquire" /\ SenderLockFree
  \/ pc[c] \in {"locked", "write"}
  \/ pc[c] = "abandon" /\ ConnectionLockFree
  \/ pc[c] \in {"wait", "waitE"} /\ (replyChan # << >> \/ rpc \in {"closenotes", "ended"})

ReceiverGoesOn ==
  \/ /\ rpc = "recv"
     /\ \/ \E c \in Calls : reply[c] \in {"CZ", "EZ", "Z"}
        \/ server # "up" \/ socket = "closed"
  \/ rpc = "note" /\ notes < Cap
  \/ rpc = "reply" /\ Len(replyChan) < 2
  \/ rpc = "cleanup" /\ ConnectionLockFree
  \/ rpc \in {"close", "closenotes"}

\* The order in which the two locks are taken is the only circle in which these
\* goroutines wait for one another: as long as a call is not over, one of them can
\* go on, or waits for the server or for the reader of the notifications, or they
\* are in that deadlock.
OnlyLockOrderBlocks ==
  (\E c \in Calls : pc[c] \in {"acquire"} \cup Sending) =>
    \/ ReceiverGoesOn \/ \E c \in Calls : CallGoesOn(c)
    \/ Deadlocked \/ NotesUnread \/ Unanswered

--------------------------------------------------------------------------------
(* Liveness *)

\* A call that does not return waits for a server that does not answer, or for
\* notifications that nobody reads, or is one of a deadlock.
StuckOnlyByLockOrder ==
  []<>~NotesUnread /\ []<>~Unanswered =>
    \A c \in Calls : pc[c] = "acquire" ~> pc[c] \in Returned \/ Deadlocked

\* Once there, nobody gets out of the deadlock, whatever the server, the network
\* and the application do.
DeadlockedForGood == [][Deadlocked => Deadlocked']_vars

\* notify.go:197: "make sure nobody's waiting for a response to it, since there's
\* not going to be one."
LostConnectionFreesCallers ==
  []<>~NotesUnread =>
    \A c \in Calls : (server = "gone" /\ pc[c] = "wait") ~> pc[c] \in Returned
================================================================================
