------------------------------ MODULE PqListener -------------------------------
(***************************************************************************)
(* lib/pq/notify.go: Listener, which keeps a ListenerConn connected and    *)
(* subscribed to the channels it was asked for, and passes notifications   *)
(* on to the application.                                                  *)
(*                                                                         *)
(* l.lock is held across steps only by main in resync and by a call that   *)
(* waits for the reply to its query, so that main and pc say who holds it. *)
(* The connection is what PqListenerConn leaves of it for one query at a   *)
(* time: its end closes replyChan and then notificationChan.  Time is      *)
(* abstracted (a sleep may be of any length); so are event callbacks.      *)
(***************************************************************************)
EXTENDS Integers, Sequences

CONSTANTS
  Calls,      \* calls of Listen, Unlisten, UnlistenAll and Ping, each by a goroutine
  Channels,
  ChanCap,    \* the capacity of notificationChan, 32 in the code
  NotifyCap,  \* the capacity of l.Notify, 32 in the code
  MaxNotes,   \* bound: notifications published
  MaxLosses   \* bound: connections the server or the network ends

ASSUME CapAssumption == ChanCap \in Nat \ {0} /\ NotifyCap \in Nat \ {0}
ASSUME BoundAssumption == MaxNotes \in Nat /\ MaxLosses \in Nat

Request == [op : {"listen", "unlisten"}, ch : Channels] \cup [op : {"unlistenall", "ping"}]

VARIABLES
  pc,         \* pc[c]: where the call c is, or whether it returned an error
  req,        \* req[c]: what it was asked for
  main,       \* where listenerMain is
  rs,         \* where the goroutine of resync is
  todo,       \* the channels it has yet to subscribe
  rsNil,      \* has resync set its notificationChan to nil?
  first,      \* nextReconnect.IsZero()
  cnSet,      \* l.cn # nil
  isClosed, channels,
  nbuf,       \* entries in l.Notify
  \* the connection that main uses or sets up
  conn,       \* "none", "up", "down" (not noticed yet), "replyclosed", "closed"
  wire,       \* what the server has sent on it
  chan,       \* notifications in notificationChan
  query,      \* the query the server has to answer, if any
  subs,       \* the channels this session listens on
  unsent, losses,
  missed      \* for the properties: a notification was lost since the last nil

calls == <<pc, req>>
resyncing == <<rs, todo, rsNil>>
listener == <<cnSet, isClosed, channels>>
link == <<conn, wire, chan, query, subs>>
env == <<unsent, losses>>
vars == <<calls, main, resyncing, first, listener, nbuf, link, env, missed>>

TypeOK ==
  /\ pc \in [Calls -> {"idle", "lock", "query", "cond", "woken", "ok", "error"}]
  /\ req \in [Calls -> Request]
  /\ main \in {"connect", "lock", "resync", "nil", "loop", "forward", "cleanup", "closed",
               "end", "ended"}
  /\ rs \in {"off", "next", "wait", "range", "drain", "stuck", "doneok", "doneerr"}
  /\ todo \subseteq Channels /\ channels \subseteq Channels /\ subs \subseteq Channels
  /\ rsNil \in BOOLEAN /\ first \in BOOLEAN /\ cnSet \in BOOLEAN /\ isClosed \in BOOLEAN
  /\ missed \in BOOLEAN
  /\ nbuf \in 0..NotifyCap /\ chan \in 0..ChanCap
  /\ conn \in {"none", "up", "down", "replyclosed", "closed"}
  /\ wire \in Seq({"note", "ok", "error"})
  /\ query \in SUBSET Request
  /\ unsent \in 0..MaxNotes /\ losses \in 0..MaxLosses
  \* The lock has one holder, and the connection one query.
  /\ \A c, d \in Calls : pc[c] = "query" /\ pc[d] = "query" => c = d
  /\ \A c \in Calls : pc[c] = "query" => main # "resync"

Init ==
  /\ pc = [c \in Calls |-> "idle"]
  /\ req = [c \in Calls |-> [op |-> "ping"]]
  /\ main = "connect" /\ rs = "off" /\ todo = {} /\ rsNil = FALSE /\ first = TRUE
  /\ cnSet = FALSE /\ isClosed = FALSE /\ channels = {} /\ nbuf = 0
  /\ conn = "none" /\ wire = << >> /\ chan = 0 /\ query = {} /\ subs = {}
  /\ unsent = MaxNotes /\ losses = MaxLosses /\ missed = FALSE

LockFree == main # "resync" /\ \A c \in Calls : pc[c] # "query"

\* What the connection owes the application: channels whose Listen is complete,
\* but for those being unlistened.
Promised ==
  {ch \in channels : \A c \in Calls :
     /\ pc[c] \in {"cond", "woken"} => req[c].ch # ch
     /\ pc[c] = "query" =>
          ~(req[c].op = "unlistenall" \/ (req[c].op = "unlisten" /\ req[c].ch = ch))}

\* Notifications are dropped.
Drop == missed' = (missed \/ Promised # {})

--------------------------------------------------------------------------------
(* The methods *)

Goes(c, place) == pc' = [pc EXCEPT ![c] = place]

Call(c) ==
  /\ pc[c] = "idle" /\ pc' = [pc EXCEPT ![c] = "lock"]
  /\ \E r \in Request : req' = [req EXCEPT ![c] = r]
  /\ UNCHANGED <<main, resyncing, first, listener, nbuf, link, env, missed>>

\* Returned at once: closed, already open, not open, or no connection to ping.
Refused(r) ==
  \/ isClosed
  \/ r.op = "listen" /\ r.ch \in channels
  \/ r.op = "unlisten" /\ r.ch \notin channels
  \/ r.op = "ping" /\ ~cnSet

Refuse(c) ==
  /\ pc[c] = "lock" /\ LockFree /\ Refused(req[c])
  /\ pc' = [pc EXCEPT ![c] = "error"]
  /\ UNCHANGED <<req, main, resyncing, first, listener, nbuf, link, env, missed>>

Send_NoLock(c) ==
  /\ pc[c] = "lock" /\ ~Refused(req[c]) /\ cnSet
  /\ conn \in {"up", "down"}
  /\ pc' = [pc EXCEPT ![c] = "query"]
  /\ query' = {req[c]}
  /\ UNCHANGED <<req, main, resyncing, first, listener, nbuf, conn, wire, chan, subs, env, missed>>

\* ExecSimpleQuery up to its wait for the reply
Send(c) ==
  /\ pc[c] = "lock" /\ LockFree /\ ~Refused(req[c]) /\ cnSet
  /\ conn \in {"up", "down"}
  /\ pc' = [pc EXCEPT ![c] = "query"]
  /\ query' = {req[c]}
  /\ UNCHANGED <<req, main, resyncing, first, listener, nbuf, conn, wire, chan, subs, env, missed>>

\* A set of channels after a request
With(r, set) ==
  (set \cup {ch \in Channels : r.op = "listen" /\ r.ch = ch})
    \ {ch \in Channels : r.op = "unlistenall" \/ (r.op = "unlisten" /\ r.ch = ch)}

\* The list of channels after a request the server did not refuse, or did not get
Listed(r) == With(r, channels)

\* Listen, Unlisten and UnlistenAll go on without a connection, or one that is
\* about to go away; Listen waits for the next one if there is none.
Finish(c) ==
  /\ channels' = Listed(req[c])
  /\ \/ req[c].op = "ping" /\ Goes(c, "error")
     \/ req[c].op = "listen" /\ ~cnSet /\ Goes(c, "cond")
     \/ req[c].op # "ping" /\ (req[c].op = "listen" => cnSet) /\ Goes(c, "ok")

NotSent(c) ==
  /\ pc[c] = "lock" /\ LockFree /\ ~Refused(req[c])
  /\ conn # "up" \/ ~cnSet
  /\ Finish(c)
  /\ UNCHANGED <<req, main, resyncing, first, cnSet, isClosed, nbuf, link, env, missed>>

NotAnswered(c) ==
  /\ pc[c] = "query" /\ conn \in {"replyclosed", "closed"}
  /\ Finish(c)
  /\ query' = {}
  /\ UNCHANGED <<req, main, resyncing, first, cnSet, isClosed, nbuf, conn, wire, chan, subs, env, missed>>

Answer_Ignored(c) ==
  /\ pc[c] = "query" /\ wire # << >> /\ Head(wire) \in {"ok", "error"}
  /\ conn \in {"up", "down"}
  /\ wire' = Tail(wire)
  /\ pc' = [pc EXCEPT ![c] = Head(wire)]
  /\ channels' = Listed(req[c])
  /\ UNCHANGED <<req, main, resyncing, first, cnSet, isClosed, nbuf, conn, chan, query, subs, env, missed>>

\* The receiver passes the reply on, and the call returns.
Answer(c) ==
  /\ pc[c] = "query" /\ wire # << >> /\ Head(wire) \in {"ok", "error"}
  /\ conn \in {"up", "down"}
  /\ wire' = Tail(wire)
  /\ pc' = [pc EXCEPT ![c] = Head(wire)]
  /\ channels' = IF Head(wire) = "ok" THEN Listed(req[c]) ELSE channels
  /\ UNCHANGED <<req, main, resyncing, first, cnSet, isClosed, nbuf, conn, chan, query, subs, env, missed>>

\* Listen after reconnectCond.Wait
Wake(c) ==
  /\ pc[c] = "woken" /\ LockFree
  /\ \/ isClosed /\ Goes(c, "error")
     \/ ~isClosed /\ Goes(c, IF cnSet THEN "ok" ELSE "cond")
  /\ UNCHANGED <<req, main, resyncing, first, listener, nbuf, link, env, missed>>

Close ==
  /\ LockFree /\ ~isClosed
  /\ isClosed' = TRUE
  /\ conn' = IF cnSet /\ conn = "up" THEN "down" ELSE conn
  /\ UNCHANGED <<calls, main, resyncing, first, cnSet, channels, nbuf, wire, chan, query, subs, env, missed>>

--------------------------------------------------------------------------------
(* listenerMain *)

Dial ==
  /\ main = "connect"
  /\ \/ main' = "closed" /\ UNCHANGED link
     \/ /\ main' = "lock"
        /\ conn' = "up" /\ wire' = << >> /\ chan' = 0 /\ query' = {} /\ subs' = {}
  /\ UNCHANGED <<calls, resyncing, first, listener, nbuf, env, missed>>

Resync ==
  /\ main = "lock" /\ LockFree
  /\ main' = "resync" /\ rs' = "next" /\ todo' = channels /\ rsNil' = FALSE
  /\ UNCHANGED <<calls, first, listener, nbuf, link, env, missed>>

\* resync's own loop throws notifications away, until its goroutine is done.
Ignore ==
  /\ main = "resync" /\ ~rsNil
  /\ \/ chan > 0 /\ chan' = chan - 1 /\ Drop /\ UNCHANGED rsNil
     \/ chan = 0 /\ conn = "closed" /\ rsNil' = TRUE /\ UNCHANGED <<chan, missed>>
  /\ UNCHANGED <<calls, main, rs, todo, first, listener, nbuf, conn, wire, query, subs, env>>

\* connect after resync: without a server for all the channels it drops the
\* connection; else it wakes up those who wait for one.
Connected_Quiet ==
  /\ main = "resync" /\ rs = "doneok"
  /\ rs' = "off" /\ cnSet' = TRUE
  /\ pc' = [c \in Calls |-> IF pc[c] = "cond" THEN "woken" ELSE pc[c]]
  /\ main' = "loop" /\ first' = FALSE
  /\ UNCHANGED <<req, todo, rsNil, isClosed, channels, nbuf, link, env, missed>>

Connected_NoBroadcast ==
  /\ main = "resync" /\ rs = "doneok"
  /\ rs' = "off" /\ cnSet' = TRUE
  /\ main' = IF first THEN "loop" ELSE "nil"
  /\ first' = FALSE
  /\ UNCHANGED <<pc, req, todo, rsNil, isClosed, channels, nbuf, link, env, missed>>

Connected ==
  /\ main = "resync" /\ rs = "doneok"
  /\ rs' = "off" /\ cnSet' = TRUE
  /\ pc' = [c \in Calls |-> IF pc[c] = "cond" THEN "woken" ELSE pc[c]]
  /\ main' = IF first THEN "loop" ELSE "nil"
  /\ first' = FALSE
  /\ UNCHANGED <<req, todo, rsNil, isClosed, channels, nbuf, link, env, missed>>

NotConnected ==
  /\ main = "resync" /\ rs = "doneerr"
  /\ rs' = "off" /\ conn' = "none" /\ main' = "closed"
  /\ UNCHANGED <<calls, todo, rsNil, first, listener, nbuf, wire, chan, query, subs, env, missed>>

\* closed(), after a failed connect and after disconnectCleanup
CheckClosed_Never ==
  /\ main = "closed" /\ LockFree
  /\ main' = "connect"
  /\ UNCHANGED <<calls, resyncing, first, listener, nbuf, link, env, missed>>

CheckClosed ==
  /\ main = "closed" /\ LockFree
  /\ main' = IF isClosed THEN "end" ELSE "connect"
  /\ UNCHANGED <<calls, resyncing, first, listener, nbuf, link, env, missed>>

SendNil ==
  /\ main = "nil" /\ nbuf < NotifyCap
  /\ nbuf' = nbuf + 1 /\ missed' = FALSE
  /\ main' = "loop"
  /\ UNCHANGED <<calls, resyncing, first, listener, link, env>>

Take ==
  /\ main = "loop"
  /\ \/ chan > 0 /\ chan' = chan - 1 /\ main' = "forward"
     \/ chan = 0 /\ conn = "closed" /\ main' = "cleanup" /\ UNCHANGED chan
  /\ UNCHANGED <<calls, resyncing, first, listener, nbuf, conn, wire, query, subs, env, missed>>

Forward ==
  /\ main = "forward" /\ nbuf < NotifyCap
  /\ nbuf' = nbuf + 1
  /\ main' = "loop"
  /\ UNCHANGED <<calls, resyncing, first, listener, link, env, missed>>

DisconnectCleanup ==
  /\ main = "cleanup" /\ LockFree
  /\ cnSet' = FALSE /\ conn' = "none"
  /\ main' = "closed"
  /\ UNCHANGED <<calls, resyncing, first, isClosed, channels, nbuf, wire, chan, query, subs, env, missed>>

End ==
  /\ main = "end" /\ main' = "ended"
  /\ UNCHANGED <<calls, resyncing, first, listener, nbuf, link, env, missed>>

--------------------------------------------------------------------------------
(* The goroutine of resync *)

RsListen ==
  /\ rs = "next"
  /\ \E ch \in todo :
       /\ todo' = todo \ {ch}
       /\ \/ conn \in {"up", "down"} /\ rs' = "wait" /\ query' = {[op |-> "listen", ch |-> ch]}
          \/ conn # "up" /\ rs' = "range" /\ UNCHANGED query
  /\ UNCHANGED <<calls, main, rsNil, first, listener, nbuf, conn, wire, chan, subs, env, missed>>

RsAll ==
  /\ rs = "next" /\ todo = {}
  /\ rs' = "doneok"
  /\ UNCHANGED <<calls, main, todo, rsNil, first, listener, nbuf, link, env, missed>>

RsAnswer ==
  /\ rs = "wait" /\ conn \in {"up", "down"}
  /\ wire # << >> /\ Head(wire) \in {"ok", "error"}
  /\ wire' = Tail(wire)
  /\ rs' = IF Head(wire) = "ok" THEN "next" ELSE "doneerr"
  /\ UNCHANGED <<calls, main, todo, rsNil, first, listener, nbuf, conn, chan, query, subs, env, missed>>

RsNotAnswered ==
  /\ rs = "wait" /\ conn \in {"replyclosed", "closed"}
  /\ rs' = "range" /\ query' = {}
  /\ UNCHANGED <<calls, main, todo, rsNil, first, listener, nbuf, conn, wire, chan, subs, env, missed>>

\* It ranges over notificationChan, the variable that resync's loop sets to nil,
\* and a receive from a nil channel never returns.
RsRange ==
  /\ rs = "range"
  /\ rs' = IF rsNil THEN "stuck" ELSE "drain"
  /\ UNCHANGED <<calls, main, todo, rsNil, first, listener, nbuf, link, env, missed>>

RsDrain ==
  /\ rs = "drain"
  /\ \/ chan > 0 /\ chan' = chan - 1 /\ Drop /\ UNCHANGED rs
     \/ chan = 0 /\ conn = "closed" /\ rs' = "doneerr" /\ UNCHANGED <<chan, missed>>
  /\ UNCHANGED <<calls, main, todo, rsNil, first, listener, nbuf, conn, wire, query, subs, env>>

--------------------------------------------------------------------------------
(* The receiver of the connection *)

Receive ==
  /\ conn \in {"up", "down"} /\ wire # << >> /\ Head(wire) = "note" /\ chan < ChanCap
  /\ wire' = Tail(wire) /\ chan' = chan + 1
  /\ UNCHANGED <<calls, main, resyncing, first, listener, nbuf, conn, query, subs, env, missed>>

\* It notices the end of the connection; what it had not received is lost.
ReceiveEnds ==
  /\ conn = "down"
  /\ conn' = "replyclosed" /\ wire' = << >>
  /\ IF wire = << >> THEN UNCHANGED missed ELSE Drop
  /\ UNCHANGED <<calls, main, resyncing, first, listener, nbuf, chan, query, subs, env>>

CloseNotificationChan ==
  /\ conn = "replyclosed" /\ conn' = "closed"
  /\ UNCHANGED <<calls, main, resyncing, first, listener, nbuf, wire, chan, query, subs, env, missed>>

--------------------------------------------------------------------------------
(* The server and the application *)

Execute ==
  /\ conn = "up"
  /\ \E r \in query :
       \/ /\ wire' = Append(wire, "ok")
          /\ subs' = With(r, subs)
       \/ r.op # "ping" /\ wire' = Append(wire, "error") /\ UNCHANGED subs
  /\ query' = {}
  /\ UNCHANGED <<calls, main, resyncing, first, listener, nbuf, conn, chan, env, missed>>

\* Somebody notifies a channel.
Publish(ch) ==
  /\ unsent > 0 /\ unsent' = unsent - 1
  /\ IF conn = "up" /\ ch \in subs
     THEN wire' = Append(wire, "note") /\ UNCHANGED missed
     ELSE missed' = (missed \/ ch \in Promised) /\ UNCHANGED wire
  /\ UNCHANGED <<calls, main, resyncing, first, listener, nbuf, conn, chan, query, subs, losses>>

Lose ==
  /\ conn = "up" /\ losses > 0
  /\ conn' = "down" /\ losses' = losses - 1
  /\ UNCHANGED <<calls, main, resyncing, first, listener, nbuf, wire, chan, query, subs, unsent, missed>>

Read ==
  /\ nbuf > 0 /\ nbuf' = nbuf - 1
  /\ UNCHANGED <<calls, main, resyncing, first, listener, link, env, missed>>

--------------------------------------------------------------------------------
Main ==
  \/ Dial \/ Resync \/ Connected \/ NotConnected \/ CheckClosed \/ SendNil
  \/ Take \/ Forward \/ DisconnectCleanup \/ End

Resyncer == RsListen \/ RsAll \/ RsAnswer \/ RsNotAnswered \/ RsRange \/ RsDrain

\* The receiver may have read the notification at the head of wire already, and
\* then waits for the full channel; or the socket fails before it is read.
HeldUp == wire # << >> /\ Head(wire) = "note" /\ chan = ChanCap

Receiver == Receive \/ (~HeldUp /\ ReceiveEnds) \/ CloseNotificationChan

Next ==
  \/ \E c \in Calls :
       \/ Call(c) \/ Refuse(c) \/ Send(c) \/ NotSent(c)
       \/ NotAnswered(c) \/ Answer(c) \/ Wake(c)
  \/ Close
  \/ Dial \/ Resync \/ Ignore \/ Connected \/ NotConnected \/ CheckClosed \/ SendNil
  \/ Take \/ Forward \/ DisconnectCleanup \/ End
  \/ RsListen \/ RsAll \/ RsAnswer \/ RsNotAnswered \/ RsRange \/ RsDrain
  \/ Receive \/ ReceiveEnds \/ CloseNotificationChan
  \/ Execute \/ \E ch \in Channels : Publish(ch)
  \/ Lose \/ Read

Spec == Init /\ [][Next]_vars

\* The goroutines go on when they can.  Nothing is assumed of the server, the
\* network and the application.
Step(c) == Refuse(c) \/ Send(c) \/ NotSent(c) \/ NotAnswered(c) \/ Answer(c) \/ Wake(c)

FairSpec ==
  /\ Spec
  /\ WF_vars(Main) /\ WF_vars(Ignore) /\ WF_vars(Resyncer) /\ WF_vars(Receiver)
  /\ \A c \in Calls : WF_vars(Step(c))

--------------------------------------------------------------------------------
(* Safety *)

\* Whatever is called while the connection comes and goes, when nobody holds the
\* lock a live connection listens on the channels of the list, no more, no fewer.
SubscriptionsAgree == LockFree /\ cnSet /\ conn = "up" => subs = channels

\* Notifications are lost with a connection and while the next one is set up.  The
\* application has been told, by a nil, before main waits for the next one.
GapsAnnounced == main \in {"loop", "forward"} /\ conn = "up" => ~missed

--------------------------------------------------------------------------------
(* The inductive invariant *)

\* Where everybody may be
StageInv ==
  /\ cnSet <=> main \in {"nil", "loop", "forward", "cleanup"}
  /\ cnSet => ~first
  /\ rs # "off" <=> main = "resync"
  /\ main \in {"connect", "closed", "end", "ended"} => conn = "none"
  /\ main = "cleanup" => conn = "closed"
  /\ \A c \in Calls : pc[c] = "query" => cnSet
  /\ \A c \in Calls : pc[c] \in {"cond", "woken"} => req[c].op = "listen"
  \* for those who wait
  /\ cnSet => \A c \in Calls : pc[c] # "cond"
  /\ cnSet \/ main \in {"lock", "resync"} => conn # "none"
  /\ main = "resync" /\ rsNil => conn = "closed"
  /\ rs \in {"range", "drain"} => conn # "up"

\* What a session listens on, and the answer that is under way, if one is.  On one
\* that is over only the order of the messages matters.
NoReply(w) == \A i \in 1..Len(w) : w[i] = "note"
OneReply(w, x) ==
  \E i \in 1..Len(w) : w[i] = x /\ \A j \in 1..Len(w) : j # i => w[j] = "note"

Quiet(set) ==
  conn \in {"up", "down"} => query = {} /\ NoReply(wire) /\ (conn = "up" => subs = set)

Asked(r, before, after) ==
  conn \in {"up", "down"} =>
    \/ query = {r} /\ NoReply(wire) /\ (conn = "up" => subs = before)
    \/ query = {} /\ OneReply(wire, "ok") /\ (conn = "up" => subs = after)
    \/ query = {} /\ OneReply(wire, "error") /\ (conn = "up" => subs = before)

SessionInv ==
  /\ main = "lock" => Quiet({})
  /\ main = "resync" => todo \subseteq channels
  /\ rs \in {"next", "doneok"} => Quiet(channels \ todo)
  /\ rs = "doneok" => todo = {}
  /\ rs = "wait" =>
       \E ch \in channels \ todo :
         Asked([op |-> "listen", ch |-> ch], (channels \ todo) \ {ch}, channels \ todo)
  /\ cnSet /\ (\A c \in Calls : pc[c] # "query") => Quiet(channels)
  /\ \A c \in Calls : pc[c] = "query" => Asked(req[c], channels, Listed(req[c]))

\* Before the first connection there is nothing to miss.
FirstInv ==
  first =>
    /\ ~missed
    /\ \A ch \in channels : \E c \in Calls :
         pc[c] = "cond" /\ req[c] = [op |-> "listen", ch |-> ch]

IInv == TypeOK /\ StageInv /\ SessionInv /\ FirstInv /\ GapsAnnounced

--------------------------------------------------------------------------------
(* Waiting *)

\* resync never returns, and its caller holds l.lock.
Stuck == main = "resync" /\ rs = "stuck"

\* main waits for the application, and somebody for the server.
Unread == main \in {"nil", "forward"} /\ nbuf = NotifyCap
Unanswered == query # {} /\ conn = "up"

\* Who can go on: a call, main, the goroutine of resync, the receiver.
ReplyHere == conn \in {"up", "down"} /\ wire # << >> /\ Head(wire) \in {"ok", "error"}
NoteHere == conn \in {"up", "down"} /\ wire # << >> /\ Head(wire) = "note"
NoReplyComes == conn \in {"replyclosed", "closed"}
ChanReady == chan > 0 \/ conn = "closed"

CallGoesOn(c) ==
  \/ pc[c] \in {"lock", "woken"} /\ LockFree
  \/ pc[c] = "query" /\ (ReplyHere \/ NoReplyComes)

MainGoesOn ==
  \/ main \in {"connect", "end"}
  \/ main \in {"lock", "closed", "cleanup"} /\ LockFree
  \/ main = "resync" /\ (rs \in {"doneok", "doneerr"} \/ (~rsNil /\ ChanReady))
  \/ main \in {"nil", "forward"} /\ nbuf < NotifyCap
  \/ main = "loop" /\ ChanReady

ResyncGoesOn ==
  \/ rs \in {"next", "range"}
  \/ rs = "wait" /\ (ReplyHere \/ NoReplyComes)
  \/ rs = "drain" /\ ChanReady

ReceiverGoesOn ==
  \/ NoteHere /\ chan < ChanCap
  \/ conn = "down" /\ ~(NoteHere /\ chan = ChanCap)
  \/ conn = "replyclosed"

\* The lock, the condition variable, the channels and the replies never hold
\* everybody up: as long as somebody waits, one of them can go on, or main waits for
\* the application, or the server has yet to answer, or resync waits on its nil
\* channel.  Only a Listen that waited for a connection when the listener ended is
\* left alone.
OnlyResyncBlocks ==
  (\E c \in Calls : pc[c] \in {"lock", "query", "woken"} \/ (pc[c] = "cond" /\ main # "ended")) =>
    \/ \E c \in Calls : CallGoesOn(c)
    \/ MainGoesOn \/ ResyncGoesOn \/ ReceiverGoesOn
    \/ Unread \/ Unanswered \/ Stuck

\* A resync on the nil channel is the end of the listener: no call returns any more,
\* whatever the server, the application and the other goroutines do.
StuckForGood ==
  [][Stuck => Stuck' /\ \A c \in Calls : pc[c] # "idle" => UNCHANGED pc[c]]_vars

--------------------------------------------------------------------------------
(* Liveness *)

\* The application reads l.Notify, and the server answers or is gone.
Served ==
  /\ []<>~Unread
  /\ []<>~Unanswered

Done(c) == pc[c] \in {"ok", "error"}

\* The calls hang only as long as there is no connection, for the server, or
\* because nobody reads l.Notify.
StuckOnlyUnconnected ==
  Served /\ <>[]cnSet => \A c \in Calls : pc[c] = "lock" ~> Done(c)

\* notify.go:670: "Close disconnects the Listener from the database and shuts it
\* down."  But connect does not look at isClosed: a listener that was closed while
\* it dialed, or slept before, is connected all the same, and never ends.
CloseShutsDown == Served => (isClosed ~> main = "ended")

\* A closed listener that is not about to dial, and whose connection is over, by
\* Close or by the network, connects no more: its goroutine ends, unless resync
\* never returns.
EndsOnceDisconnected ==
  Served =>
    ((isClosed /\ main # "connect" /\ conn # "up") ~> (main = "ended" \/ Stuck))

\* notify.go:608: "If we couldn't reach the server, wait for notificationChan to
\* close and then return the error message from the connection"
LostResyncReturns ==
  Served => ((main = "resync" /\ conn = "closed") ~> main # "resync")
================================================================================
