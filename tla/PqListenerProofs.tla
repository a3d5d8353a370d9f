--------------------------- MODULE PqListenerProofs ----------------------------
(***************************************************************************)
(* Proofs about PqListener, for any number of calls and channels, any      *)
(* capacities, and any number of notifications and of lost connections.    *)
(***************************************************************************)
EXTENDS PqListener, SequenceTheorems, TLAPS

Msg == {"note", "ok", "error"}

\* The messages of a session, when one is taken from the front
LEMMA TakeMessage ==
  ASSUME NEW w \in Seq(Msg), w # << >>
  PROVE  /\ Tail(w) \in Seq(Msg)
         /\ Head(w) = "note" => /\ NoReply(w) => NoReply(Tail(w))
                                /\ \A x \in {"ok", "error"} : OneReply(w, x) => OneReply(Tail(w), x)
         /\ Head(w) # "note" => /\ ~NoReply(w)
                                /\ \A x \in {"ok", "error"} :
                                     OneReply(w, x) => x = Head(w) /\ NoReply(Tail(w))
<1>1. /\ Tail(w) \in Seq(Msg) /\ Len(w) \in Nat /\ Len(w) > 0 /\ Len(Tail(w)) = Len(w) - 1
      /\ Head(w) = w[1] /\ \A i \in 1..(Len(w) - 1) : Tail(w)[i] = w[i + 1]
  OBVIOUS
<1>2. NoReply(w) => NoReply(Tail(w))
  BY <1>1 DEF NoReply
<1>3. ASSUME NEW x \in {"ok", "error"}, OneReply(w, x)
      PROVE  /\ Head(w) = "note" => OneReply(Tail(w), x)
             /\ Head(w) # "note" => x = Head(w) /\ NoReply(Tail(w))
  <2>1. PICK i \in 1..Len(w) : w[i] = x /\ \A j \in 1..Len(w) : j # i => w[j] = "note"
    BY <1>3 DEF OneReply
  <2>2. CASE i = 1
    BY <1>1, <2>1, <2>2 DEF NoReply
  <2>3. CASE i # 1
    <3>1. i - 1 \in 1..(Len(w) - 1) /\ Tail(w)[i - 1] = x /\ Head(w) = "note"
      BY <1>1, <2>1, <2>3
    <3>2. \A j \in 1..(Len(w) - 1) : j # i - 1 => Tail(w)[j] = "note"
      BY <1>1, <2>1, <2>3
    <3> QED
      BY <1>1, <3>1, <3>2 DEF OneReply
  <2> QED
    BY <2>2, <2>3
<1>4. Head(w) # "note" => ~NoReply(w)
  BY <1>1 DEF NoReply
<1> QED
  BY <1>1, <1>2, <1>3, <1>4

\* ... and when the server adds one
LEMMA AddMessage ==
  ASSUME NEW w \in Seq(Msg)
  PROVE  /\ NoReply(<< >>)
         /\ \A m \in Msg : Append(w, m) \in Seq(Msg)
         /\ NoReply(w) => NoReply(Append(w, "note"))
         /\ \A x \in {"ok", "error"} :
              /\ NoReply(w) => OneReply(Append(w, x), x)
              /\ OneReply(w, x) => OneReply(Append(w, "note"), x)
<1>1. ASSUME NEW m \in Msg
      PROVE  /\ Append(w, m) \in Seq(Msg) /\ Len(w) \in Nat /\ Len(Append(w, m)) = Len(w) + 1
             /\ Append(w, m)[Len(w) + 1] = m /\ \A i \in 1..Len(w) : Append(w, m)[i] = w[i]
  OBVIOUS
<1>2. NoReply(<< >>)
  BY DEF NoReply
<1>3. NoReply(w) => NoReply(Append(w, "note"))
  BY <1>1 DEF NoReply, Msg
<1>4. ASSUME NEW x \in {"ok", "error"}, NoReply(w) PROVE OneReply(Append(w, x), x)
  <2>1. x \in Msg
    BY DEF Msg
  <2>2. \A j \in 1..(Len(w) + 1) : j # Len(w) + 1 => Append(w, x)[j] = "note"
    BY <1>1, <1>4, <2>1 DEF NoReply
  <2> QED
    BY <1>1, <2>1, <2>2 DEF OneReply
<1>5. ASSUME NEW x \in {"ok", "error"}, OneReply(w, x) PROVE OneReply(Append(w, "note"), x)
  <2>1. PICK i \in 1..Len(w) : w[i] = x /\ \A j \in 1..Len(w) : j # i => w[j] = "note"
    BY <1>5 DEF OneReply
  <2>2. /\ i \in 1..(Len(w) + 1) /\ Append(w, "note")[i] = x
        /\ \A j \in 1..(Len(w) + 1) : j # i => Append(w, "note")[j] = "note"
    BY <1>1, <2>1 DEF Msg
  <2> QED
    BY <1>1, <2>2 DEF OneReply, Msg
<1> QED
  BY <1>1, <1>2, <1>3, <1>4, <1>5

\* The variables keep their types; the lock has one holder.
LEMMA TypeStep == TypeOK /\ StageInv /\ [Next]_vars => TypeOK'
<1> SUFFICES ASSUME TypeOK, StageInv, [Next]_vars PROVE TypeOK'
  OBVIOUS
<1> /\ wire # << >> => /\ Tail(wire) \in Seq({"note", "ok", "error"})
                       /\ Head(wire) \in {"note", "ok", "error"}
    /\ Append(wire, "note") \in Seq({"note", "ok", "error"})
    /\ Append(wire, "ok") \in Seq({"note", "ok", "error"})
    /\ Append(wire, "error") \in Seq({"note", "ok", "error"})
    /\ << >> \in Seq({"note", "ok", "error"})
  BY DEF TypeOK
<1> USE CapAssumption, BoundAssumption
<1> USE DEF TypeOK, calls, resyncing, listener, link, env
<1>1. ASSUME NEW c \in Calls, Call(c) PROVE TypeOK'
  BY <1>1 DEF Call, StageInv
<1>2. ASSUME NEW c \in Calls, Refuse(c) PROVE TypeOK'
  BY <1>2 DEF Refuse, LockFree, Refused, StageInv
<1>3. ASSUME NEW c \in Calls, Send(c) PROVE TypeOK'
  BY <1>3 DEF Send, LockFree, Refused, StageInv
<1>4. ASSUME NEW c \in Calls, NotSent(c) PROVE TypeOK'
  BY <1>4 DEF NotSent, LockFree, Refused, Finish, Goes, Listed, With, StageInv
<1>5. ASSUME NEW c \in Calls, NotAnswered(c) PROVE TypeOK'
  BY <1>5 DEF NotAnswered, Finish, Goes, Listed, With, StageInv
<1>6. ASSUME NEW c \in Calls, Answer(c) PROVE TypeOK'
  BY <1>6 DEF Answer, Listed, With, StageInv
<1>7. ASSUME NEW c \in Calls, Wake(c) PROVE TypeOK'
  BY <1>7 DEF Wake, LockFree, Goes, StageInv
<1>8. CASE Close
  BY <1>8 DEF Close, LockFree, StageInv
<1>9. CASE Dial
  <2>1. chan' \in 0..ChanCap
    BY <1>9 DEF Dial
  <2>2. wire' \in Seq({"note", "ok", "error"})
    BY <1>9 DEF Dial
  <2>3. query' \in SUBSET Request
    BY <1>9 DEF Dial, Request
  <2> QED
    BY <1>9, <2>1, <2>2, <2>3 DEF Dial, StageInv
<1>10. CASE Resync
  BY <1>10 DEF Resync, LockFree, StageInv
<1>11. CASE Ignore
  <2>1. chan' \in 0..ChanCap
    BY <1>11 DEF Ignore, Drop
  <2>2. rsNil' \in BOOLEAN
    BY <1>11 DEF Ignore, Drop
  <2>3. missed' \in BOOLEAN
    BY <1>11 DEF Ignore, Drop
  <2> QED
    BY <1>11, <2>1, <2>2, <2>3 DEF Ignore, Drop, StageInv
<1>12. CASE Connected
  BY <1>12 DEF Connected, StageInv
<1>13. CASE NotConnected
  BY <1>13 DEF NotConnected, StageInv
<1>14. CASE CheckClosed
  BY <1>14 DEF CheckClosed, LockFree, StageInv
<1>15. CASE SendNil
  <2>1. nbuf' \in 0..NotifyCap
    BY <1>15 DEF SendNil
  <2>2. missed' \in BOOLEAN
    BY <1>15 DEF SendNil
  <2> QED
    BY <1>15, <2>1, <2>2 DEF SendNil, StageInv
<1>16. CASE Take
  BY <1>16 DEF Take, StageInv
<1>17. CASE Forward
  BY <1>17 DEF Forward, StageInv
<1>18. CASE DisconnectCleanup
  BY <1>18 DEF DisconnectCleanup, LockFree, StageInv
<1>19. CASE End
  BY <1>19 DEF End, StageInv
<1>20. CASE RsListen
  <2>1. query' \in SUBSET Request
    BY <1>20 DEF RsListen, Request
  <2> QED
    BY <1>20, <2>1 DEF RsListen, StageInv
<1>21. CASE RsAll
  BY <1>21 DEF RsAll, StageInv
<1>22. CASE RsAnswer
  BY <1>22 DEF RsAnswer, StageInv
<1>23. CASE RsNotAnswered
  BY <1>23 DEF RsNotAnswered, StageInv
<1>24. CASE RsRange
  BY <1>24 DEF RsRange, StageInv
<1>25. CASE RsDrain
  <2>1. chan' \in 0..ChanCap
    BY <1>25 DEF RsDrain, Drop
  <2>2. missed' \in BOOLEAN
    BY <1>25 DEF RsDrain, Drop
  <2> QED
    BY <1>25, <2>1, <2>2 DEF RsDrain, Drop, StageInv
<1>26. CASE Receive
  BY <1>26 DEF Receive, StageInv
<1>27. CASE ReceiveEnds
  BY <1>27 DEF ReceiveEnds, Drop, StageInv
<1>28. CASE CloseNotificationChan
  BY <1>28 DEF CloseNotificationChan, StageInv
<1>29. CASE Execute
  BY <1>29 DEF Execute, With, StageInv
<1>30. ASSUME NEW ch \in Channels, Publish(ch) PROVE TypeOK'
  <2>1. wire' \in Seq({"note", "ok", "error"})
    BY <1>30 DEF Publish
  <2>2. unsent' \in 0..MaxNotes
    BY <1>30 DEF Publish
  <2>3. missed' \in BOOLEAN
    BY <1>30 DEF Publish
  <2> QED
    BY <1>30, <2>1, <2>2, <2>3 DEF Publish, StageInv
<1>31. CASE Lose
  BY <1>31 DEF Lose, StageInv
<1>32. CASE Read
  BY <1>32 DEF Read, StageInv
<1>33. CASE UNCHANGED vars
  BY <1>33 DEF vars, StageInv
<1> QED
  BY <1>1, <1>2, <1>3, <1>4, <1>5, <1>6, <1>7, <1>8, <1>9, <1>10, <1>11, <1>12,
     <1>13, <1>14, <1>15, <1>16, <1>17, <1>18, <1>19, <1>20, <1>21, <1>22, <1>23,
     <1>24, <1>25, <1>26, <1>27, <1>28, <1>29, <1>30, <1>31, <1>32, <1>33 DEF Next

\* Where everybody is
LEMMA StageStep == TypeOK /\ StageInv /\ [Next]_vars => StageInv'
<1> SUFFICES ASSUME TypeOK, StageInv, [Next]_vars PROVE StageInv'
  OBVIOUS
<1> USE DEF TypeOK, StageInv, calls, resyncing, listener, link, env
<1>1. ASSUME NEW c \in Calls, Call(c) PROVE StageInv'
  BY <1>1 DEF Call
<1>2. ASSUME NEW c \in Calls, Refuse(c) PROVE StageInv'
  BY <1>2 DEF Refuse, LockFree, Refused
<1>3. ASSUME NEW c \in Calls, Send(c) PROVE StageInv'
  BY <1>3 DEF Send, LockFree, Refused
<1>4. ASSUME NEW c \in Calls, NotSent(c) PROVE StageInv'
  BY <1>4 DEF NotSent, LockFree, Refused, Finish, Goes, Listed, With
<1>5. ASSUME NEW c \in Calls, NotAnswered(c) PROVE StageInv'
  BY <1>5 DEF NotAnswered, Finish, Goes, Listed, With
<1>6. ASSUME NEW c \in Calls, Answer(c) PROVE StageInv'
  BY <1>6 DEF Answer, Listed, With
<1>7. ASSUME NEW c \in Calls, Wake(c) PROVE StageInv'
  BY <1>7 DEF Wake, LockFree, Goes
<1>8. CASE Close
  BY <1>8 DEF Close, LockFree
<1>9. CASE Dial
  BY <1>9 DEF Dial
<1>10. CASE Resync
  BY <1>10 DEF Resync, LockFree
<1>11. CASE Ignore
  BY <1>11 DEF Ignore, Drop
<1>12. CASE Connected
  BY <1>12 DEF Connected
<1>13. CASE NotConnected
  BY <1>13 DEF NotConnected
<1>14. CASE CheckClosed
  BY <1>14 DEF CheckClosed, LockFree
<1>15. CASE SendNil
  BY <1>15 DEF SendNil
<1>16. CASE Take
  BY <1>16 DEF Take
<1>17. CASE Forward
  BY <1>17 DEF Forward
<1>18. CASE DisconnectCleanup
  BY <1>18 DEF DisconnectCleanup, LockFree
<1>19. CASE End
  BY <1>19 DEF End
<1>20. CASE RsListen
  BY <1>20 DEF RsListen
<1>21. CASE RsAll
  BY <1>21 DEF RsAll
<1>22. CASE RsAnswer
  BY <1>22 DEF RsAnswer
<1>23. CASE RsNotAnswered
  BY <1>23 DEF RsNotAnswered
<1>24. CASE RsRange
  BY <1>24 DEF RsRange
<1>25. CASE RsDrain
  BY <1>25 DEF RsDrain, Drop
<1>26. CASE Receive
  BY <1>26 DEF Receive
<1>27. CASE ReceiveEnds
  BY <1>27 DEF ReceiveEnds, Drop
<1>28. CASE CloseNotificationChan
  BY <1>28 DEF CloseNotificationChan
<1>29. CASE Execute
  BY <1>29 DEF Execute, With
<1>30. ASSUME NEW ch \in Channels, Publish(ch) PROVE StageInv'
  BY <1>30 DEF Publish
<1>31. CASE Lose
  BY <1>31 DEF Lose
<1>32. CASE Read
  BY <1>32 DEF Read
<1>33. CASE UNCHANGED vars
  BY <1>33 DEF vars
<1> QED
  BY <1>1, <1>2, <1>3, <1>4, <1>5, <1>6, <1>7, <1>8, <1>9, <1>10, <1>11, <1>12,
     <1>13, <1>14, <1>15, <1>16, <1>17, <1>18, <1>19, <1>20, <1>21, <1>22, <1>23,
     <1>24, <1>25, <1>26, <1>27, <1>28, <1>29, <1>30, <1>31, <1>32, <1>33 DEF Next

\* A session listens on what it was asked for.
LEMMA SessionStep == TypeOK /\ StageInv /\ SessionInv /\ [Next]_vars => SessionInv'
<1> SUFFICES ASSUME TypeOK, StageInv, SessionInv, [Next]_vars PROVE SessionInv'
  OBVIOUS
<1> /\ wire # << >> => /\ Head(wire) = "note" =>
                            /\ NoReply(wire) => NoReply(Tail(wire))
                            /\ OneReply(wire, "ok") => OneReply(Tail(wire), "ok")
                            /\ OneReply(wire, "error") => OneReply(Tail(wire), "error")
                       /\ Head(wire) # "note" =>
                            /\ ~NoReply(wire)
                            /\ OneReply(wire, "ok") => "ok" = Head(wire) /\ NoReply(Tail(wire))
                            /\ OneReply(wire, "error") => "error" = Head(wire) /\ NoReply(Tail(wire))
    /\ NoReply(<< >>)
    /\ NoReply(wire) => /\ NoReply(Append(wire, "note"))
                        /\ OneReply(Append(wire, "ok"), "ok")
                        /\ OneReply(Append(wire, "error"), "error")
    /\ OneReply(wire, "ok") => OneReply(Append(wire, "note"), "ok")
    /\ OneReply(wire, "error") => OneReply(Append(wire, "note"), "error")
  BY TakeMessage, AddMessage DEF TypeOK, Msg
<1> USE DEF TypeOK, StageInv, SessionInv, Quiet, Asked, calls, resyncing, listener, link, env
<1>1. ASSUME NEW c \in Calls, Call(c) PROVE SessionInv'
  BY <1>1 DEF Call, Listed, With
<1>2. ASSUME NEW c \in Calls, Refuse(c) PROVE SessionInv'
  BY <1>2 DEF Refuse, LockFree, Refused, Listed, With
<1>3. ASSUME NEW c \in Calls, Send(c) PROVE SessionInv'
  BY <1>3 DEF Send, LockFree, Refused, Listed, With
<1>4. ASSUME NEW c \in Calls, NotSent(c) PROVE SessionInv'
  BY <1>4 DEF NotSent, LockFree, Refused, Finish, Goes, Listed, With
<1>5. ASSUME NEW c \in Calls, NotAnswered(c) PROVE SessionInv'
  BY <1>5 DEF NotAnswered, Finish, Goes, Listed, With
<1>6. ASSUME NEW c \in Calls, Answer(c) PROVE SessionInv'
  BY <1>6 DEF Answer, Listed, With
<1>7. ASSUME NEW c \in Calls, Wake(c) PROVE SessionInv'
  BY <1>7 DEF Wake, LockFree, Goes, Listed, With
<1>8. CASE Close
  BY <1>8 DEF Close, LockFree, Listed, With
<1>9. CASE Dial
  BY <1>9 DEF Dial, Listed, With
<1>10. CASE Resync
  BY <1>10 DEF Resync, LockFree, Listed, With
<1>11. CASE Ignore
  BY <1>11 DEF Ignore, Drop, Listed, With
<1>12. CASE Connected
  BY <1>12 DEF Connected, Listed, With
<1>13. CASE NotConnected
  BY <1>13 DEF NotConnected, Listed, With
<1>14. CASE CheckClosed
  BY <1>14 DEF CheckClosed, LockFree, Listed, With
<1>15. CASE SendNil
  BY <1>15 DEF SendNil, Listed, With
<1>16. CASE Take
  BY <1>16 DEF Take, Listed, With
<1>17. CASE Forward
  BY <1>17 DEF Forward, Listed, With
<1>18. CASE DisconnectCleanup
  BY <1>18 DEF DisconnectCleanup, LockFree, Listed, With
<1>19. CASE End
  BY <1>19 DEF End, Listed, With
<1>20. CASE RsListen
  BY <1>20 DEF RsListen, Listed, With
<1>21. CASE RsAll
  BY <1>21 DEF RsAll, Listed, With
<1>22. CASE RsAnswer
  BY <1>22 DEF RsAnswer, Listed, With
<1>23. CASE RsNotAnswered
  BY <1>23 DEF RsNotAnswered, Listed, With
<1>24. CASE RsRange
  BY <1>24 DEF RsRange, Listed, With
<1>25. CASE RsDrain
  BY <1>25 DEF RsDrain, Drop, Listed, With
<1>26. CASE Receive
  BY <1>26 DEF Receive, Listed, With
<1>27. CASE ReceiveEnds
  BY <1>27 DEF ReceiveEnds, Drop, Listed, With
<1>28. CASE CloseNotificationChan
  BY <1>28 DEF CloseNotificationChan, Listed, With
<1>29. CASE Execute
  <2>1. PICK r \in query : \/ wire' = Append(wire, "ok") /\ subs' = With(r, subs)
                           \/ r.op # "ping" /\ wire' = Append(wire, "error") /\ UNCHANGED subs
    BY <1>29 DEF Execute
  <2>2. query' = {} /\ conn = "up" /\ UNCHANGED <<calls, main, resyncing, first, listener, conn>>
    BY <1>29 DEF Execute
  <2>3. main' # "lock" /\ rs' \notin {"next", "doneok"}
    BY <2>1, <2>2
  <2>4. ~(cnSet /\ \A c \in Calls : pc[c] # "query")
    BY <2>1, <2>2
  <2>5. ASSUME NEW ch \in channels \ todo,
               Asked([op |-> "listen", ch |-> ch], (channels \ todo) \ {ch}, channels \ todo)
        PROVE  Asked([op |-> "listen", ch |-> ch], (channels \ todo) \ {ch}, channels \ todo)'
    <3>1. r = [op |-> "listen", ch |-> ch] /\ NoReply(wire) /\ subs = (channels \ todo) \ {ch}
      BY <2>1, <2>2, <2>5
    <3>2. With(r, subs) = channels \ todo
      BY <3>1 DEF With
    <3> QED
      BY <2>1, <2>2, <3>1, <3>2
  <2>6. ASSUME NEW c \in Calls, pc[c] = "query" PROVE Asked(req[c], channels, Listed(req[c]))'
    <3>1. r = req[c] /\ NoReply(wire) /\ subs = channels
      BY <2>1, <2>2, <2>6
    <3> QED
      BY <2>1, <2>2, <3>1 DEF Listed, With
  <2>7. rs = "wait" =>
          \E ch \in channels \ todo :
            Asked([op |-> "listen", ch |-> ch], (channels \ todo) \ {ch}, channels \ todo)'
    <3> HIDE DEF Asked
    <3> QED
      BY <2>5 DEF SessionInv
  <2> HIDE DEF Asked, Quiet
  <2> QED
    BY <2>2, <2>3, <2>4, <2>6, <2>7 DEF SessionInv
<1>30. ASSUME NEW ch \in Channels, Publish(ch) PROVE SessionInv'
  <2>1. /\ UNCHANGED <<calls, main, resyncing, first, listener, conn, query, subs>>
        /\ wire' \in {wire, Append(wire, "note")}
    BY <1>30 DEF Publish
  <2>2. /\ NoReply(wire) => NoReply(wire)'
        /\ OneReply(wire, "ok") => OneReply(wire, "ok")'
        /\ OneReply(wire, "error") => OneReply(wire, "error")'
    BY <2>1
  <2> HIDE DEF TypeOK, StageInv
  <2> QED
    BY <2>1, <2>2 DEF Listed, With
<1>31. CASE Lose
  BY <1>31 DEF Lose, Listed, With
<1>32. CASE Read
  BY <1>32 DEF Read, Listed, With
<1>33. CASE UNCHANGED vars
  BY <1>33 DEF vars, Listed, With
<1> QED
  BY <1>1, <1>2, <1>3, <1>4, <1>5, <1>6, <1>7, <1>8, <1>9, <1>10, <1>11, <1>12,
     <1>13, <1>14, <1>15, <1>16, <1>17, <1>18, <1>19, <1>20, <1>21, <1>22, <1>23,
     <1>24, <1>25, <1>26, <1>27, <1>28, <1>29, <1>30, <1>31, <1>32, <1>33 DEF Next

\* Nothing is missed before the first connection.
LEMMA FirstStep == TypeOK /\ StageInv /\ FirstInv /\ [Next]_vars => FirstInv'
<1> SUFFICES ASSUME TypeOK, StageInv, FirstInv, [Next]_vars PROVE FirstInv'
  OBVIOUS
<1> first => Promised = {}
  <2> SUFFICES ASSUME first, NEW ch \in channels,
                      \A c \in Calls : pc[c] \in {"cond", "woken"} => req[c].ch # ch
               PROVE  FALSE
    BY DEF Promised
  <2>1. PICK c \in Calls : pc[c] = "cond" /\ req[c] = [op |-> "listen", ch |-> ch]
    BY DEF FirstInv
  <2> QED
    BY <2>1
<1> USE DEF TypeOK, StageInv, FirstInv, calls, resyncing, listener, link, env
<1>1. ASSUME NEW c \in Calls, Call(c) PROVE FirstInv'
  BY <1>1 DEF Call
<1>2. ASSUME NEW c \in Calls, Refuse(c) PROVE FirstInv'
  BY <1>2 DEF Refuse, LockFree, Refused
<1>3. ASSUME NEW c \in Calls, Send(c) PROVE FirstInv'
  BY <1>3 DEF Send, LockFree, Refused
<1>4. ASSUME NEW c \in Calls, NotSent(c) PROVE FirstInv'
  <2> SUFFICES ASSUME first PROVE FirstInv'
    BY <1>4 DEF NotSent
  <2>1. /\ ~cnSet /\ pc[c] = "lock" /\ channels' = Listed(req[c])
        /\ UNCHANGED <<first, missed, req>>
    BY <1>4 DEF NotSent, Finish
  <2>2. \A d \in Calls : pc[d] = "cond" => pc'[d] = "cond"
    BY <1>4, <2>1 DEF NotSent, Finish, Goes
  <2>3. ASSUME NEW ch \in Listed(req[c]), ch \notin channels
        PROVE  pc'[c] = "cond" /\ req[c] = [op |-> "listen", ch |-> ch]
    <3>1. req[c].op = "listen" /\ req[c].ch = ch
      BY <2>3 DEF Listed, With
    <3>2. req[c] = [op |-> "listen", ch |-> ch]
      BY <3>1 DEF Request
    <3> QED
      BY <1>4, <2>1, <3>1, <3>2 DEF NotSent, Finish, Goes
  <2> QED
    BY <2>1, <2>2, <2>3
<1>5. ASSUME NEW c \in Calls, NotAnswered(c) PROVE FirstInv'
  BY <1>5 DEF NotAnswered, Finish, Goes, Listed, With
<1>6. ASSUME NEW c \in Calls, Answer(c) PROVE FirstInv'
  BY <1>6 DEF Answer, Listed, With
<1>7. ASSUME NEW c \in Calls, Wake(c) PROVE FirstInv'
  BY <1>7 DEF Wake, LockFree, Goes
<1>8. CASE Close
  BY <1>8 DEF Close, LockFree
<1>9. CASE Dial
  BY <1>9 DEF Dial
<1>10. CASE Resync
  BY <1>10 DEF Resync, LockFree
<1>11. CASE Ignore
  BY <1>11 DEF Ignore, Drop
<1>12. CASE Connected
  BY <1>12 DEF Connected
<1>13. CASE NotConnected
  BY <1>13 DEF NotConnected
<1>14. CASE CheckClosed
  BY <1>14 DEF CheckClosed, LockFree
<1>15. CASE SendNil
  BY <1>15 DEF SendNil
<1>16. CASE Take
  BY <1>16 DEF Take
<1>17. CASE Forward
  BY <1>17 DEF Forward
<1>18. CASE DisconnectCleanup
  BY <1>18 DEF DisconnectCleanup, LockFree
<1>19. CASE End
  BY <1>19 DEF End
<1>20. CASE RsListen
  BY <1>20 DEF RsListen
<1>21. CASE RsAll
  BY <1>21 DEF RsAll
<1>22. CASE RsAnswer
  BY <1>22 DEF RsAnswer
<1>23. CASE RsNotAnswered
  BY <1>23 DEF RsNotAnswered
<1>24. CASE RsRange
  BY <1>24 DEF RsRange
<1>25. CASE RsDrain
  BY <1>25 DEF RsDrain, Drop
<1>26. CASE Receive
  BY <1>26 DEF Receive
<1>27. CASE ReceiveEnds
  BY <1>27 DEF ReceiveEnds, Drop
<1>28. CASE CloseNotificationChan
  BY <1>28 DEF CloseNotificationChan
<1>29. CASE Execute
  BY <1>29 DEF Execute, With
<1>30. ASSUME NEW ch \in Channels, Publish(ch) PROVE FirstInv'
  BY <1>30 DEF Publish
<1>31. CASE Lose
  BY <1>31 DEF Lose
<1>32. CASE Read
  BY <1>32 DEF Read
<1>33. CASE UNCHANGED vars
  BY <1>33 DEF vars
<1> QED
  BY <1>1, <1>2, <1>3, <1>4, <1>5, <1>6, <1>7, <1>8, <1>9, <1>10, <1>11, <1>12,
     <1>13, <1>14, <1>15, <1>16, <1>17, <1>18, <1>19, <1>20, <1>21, <1>22, <1>23,
     <1>24, <1>25, <1>26, <1>27, <1>28, <1>29, <1>30, <1>31, <1>32, <1>33 DEF Next

\* What the application was promised while it is connected is what it gets.
LEMMA GapStep ==
  TypeOK /\ StageInv /\ SessionInv /\ FirstInv /\ GapsAnnounced /\ [Next]_vars => GapsAnnounced'
<1> SUFFICES ASSUME TypeOK, StageInv, SessionInv, FirstInv, GapsAnnounced, [Next]_vars
             PROVE  GapsAnnounced'
  OBVIOUS
<1> main \in {"loop", "forward"} /\ conn = "up" => Promised \subseteq subs
  <2> SUFFICES ASSUME main \in {"loop", "forward"}, conn = "up", NEW x \in Promised PROVE x \in subs
    OBVIOUS
  <2>1. CASE \A c \in Calls : pc[c] # "query"
    BY <2>1 DEF StageInv, SessionInv, Quiet, Promised
  <2>2. ASSUME NEW c \in Calls, pc[c] = "query" PROVE x \in subs
    <3>1. x \in channels /\ x \in Listed(req[c])
      BY <2>2 DEF Promised, Listed, With, TypeOK
    <3> QED
      BY <2>2, <3>1 DEF SessionInv, Asked
  <2> QED
    BY <2>1, <2>2
<1> USE DEF TypeOK, StageInv, FirstInv, GapsAnnounced, calls, resyncing, listener, link, env
<1>1. ASSUME NEW c \in Calls, Call(c) PROVE GapsAnnounced'
  BY <1>1 DEF Call
<1>2. ASSUME NEW c \in Calls, Refuse(c) PROVE GapsAnnounced'
  BY <1>2 DEF Refuse, LockFree, Refused
<1>3. ASSUME NEW c \in Calls, Send(c) PROVE GapsAnnounced'
  BY <1>3 DEF Send, LockFree, Refused
<1>4. ASSUME NEW c \in Calls, NotSent(c) PROVE GapsAnnounced'
  BY <1>4 DEF NotSent, LockFree, Refused, Finish, Goes, Listed, With
<1>5. ASSUME NEW c \in Calls, NotAnswered(c) PROVE GapsAnnounced'
  BY <1>5 DEF NotAnswered, Finish, Goes, Listed, With
<1>6. ASSUME NEW c \in Calls, Answer(c) PROVE GapsAnnounced'
  BY <1>6 DEF Answer, Listed, With
<1>7. ASSUME NEW c \in Calls, Wake(c) PROVE GapsAnnounced'
  BY <1>7 DEF Wake, LockFree, Goes
<1>8. CASE Close
  BY <1>8 DEF Close, LockFree
<1>9. CASE Dial
  BY <1>9 DEF Dial
<1>10. CASE Resync
  BY <1>10 DEF Resync, LockFree
<1>11. CASE Ignore
  BY <1>11 DEF Ignore, Drop
<1>12. CASE Connected
  BY <1>12 DEF Connected
<1>13. CASE NotConnected
  BY <1>13 DEF NotConnected
<1>14. CASE CheckClosed
  BY <1>14 DEF CheckClosed, LockFree
<1>15. CASE SendNil
  BY <1>15 DEF SendNil
<1>16. CASE Take
  BY <1>16 DEF Take
<1>17. CASE Forward
  BY <1>17 DEF Forward
<1>18. CASE DisconnectCleanup
  BY <1>18 DEF DisconnectCleanup, LockFree
<1>19. CASE End
  BY <1>19 DEF End
<1>20. CASE RsListen
  BY <1>20 DEF RsListen
<1>21. CASE RsAll
  BY <1>21 DEF RsAll
<1>22. CASE RsAnswer
  BY <1>22 DEF RsAnswer
<1>23. CASE RsNotAnswered
  BY <1>23 DEF RsNotAnswered
<1>24. CASE RsRange
  BY <1>24 DEF RsRange
<1>25. CASE RsDrain
  BY <1>25 DEF RsDrain, Drop
<1>26. CASE Receive
  BY <1>26 DEF Receive
<1>27. CASE ReceiveEnds
  BY <1>27 DEF ReceiveEnds, Drop
<1>28. CASE CloseNotificationChan
  BY <1>28 DEF CloseNotificationChan
<1>29. CASE Execute
  BY <1>29 DEF Execute, With
<1>30. ASSUME NEW ch \in Channels, Publish(ch) PROVE GapsAnnounced'
  BY <1>30 DEF Publish
<1>31. CASE Lose
  BY <1>31 DEF Lose
<1>32. CASE Read
  BY <1>32 DEF Read
<1>33. CASE UNCHANGED vars
  BY <1>33 DEF vars
<1> QED
  BY <1>1, <1>2, <1>3, <1>4, <1>5, <1>6, <1>7, <1>8, <1>9, <1>10, <1>11, <1>12,
     <1>13, <1>14, <1>15, <1>16, <1>17, <1>18, <1>19, <1>20, <1>21, <1>22, <1>23,
     <1>24, <1>25, <1>26, <1>27, <1>28, <1>29, <1>30, <1>31, <1>32, <1>33 DEF Next

\* The invariant holds at first.
LEMMA InvInit == Init => IInv
<1> SUFFICES ASSUME Init PROVE IInv
  OBVIOUS
<1> USE DEF Init
<1>1. TypeOK
  <2>1. << >> \in Seq({"note", "ok", "error"})
    OBVIOUS
  <2>2. [c \in Calls |-> [op |-> "ping"]] \in [Calls -> Request]
    BY DEF Request
  <2>3. /\ rsNil \in BOOLEAN /\ first \in BOOLEAN /\ cnSet \in BOOLEAN /\ isClosed \in BOOLEAN
        /\ missed \in BOOLEAN
    OBVIOUS
  <2>4. /\ nbuf \in 0..NotifyCap /\ chan \in 0..ChanCap
        /\ unsent \in 0..MaxNotes /\ losses \in 0..MaxLosses
    BY CapAssumption, BoundAssumption
  <2> QED
    BY <2>1, <2>2, <2>3, <2>4 DEF TypeOK
<1>2. StageInv /\ FirstInv /\ GapsAnnounced
  BY DEF StageInv, FirstInv, GapsAnnounced
<1>3. SessionInv
  BY DEF SessionInv
<1> QED
  BY <1>1, <1>2, <1>3 DEF IInv

\* The invariant is inductive.
THEOREM Inductive == Spec => []IInv
<1>1. IInv /\ [Next]_vars => IInv'
  BY TypeStep, StageStep, SessionStep, FirstStep, GapStep DEF IInv
<1> QED
  BY InvInit, <1>1, PTL DEF Spec

\* The variables keep their types, and l.lock its one holder (notify.go:382).
THEOREM TypeCorrect == Spec => []TypeOK
<1>1. IInv => TypeOK
  BY DEF IInv
<1> QED
  BY <1>1, Inductive, PTL

\* When nobody holds l.lock, a live connection listens on exactly the channels of
\* the list, whatever was called while connections came and went (notify.go:449-554,
\* 596-619).
THEOREM Agree == Spec => []SubscriptionsAgree
<1>1. IInv => SubscriptionsAgree
  BY DEF IInv, SessionInv, Quiet, SubscriptionsAgree, LockFree
<1> QED
  BY <1>1, Inductive, PTL

\* No notification of a channel that was listened to is lost without a nil in its
\* place (notify.go:720-725).
THEOREM Announced == Spec => []GapsAnnounced
<1>1. IInv => GapsAnnounced
  BY DEF IInv
<1> QED
  BY <1>1, Inductive, PTL

\* What the receiver can do with what is on the wire: nothing is left lying there,
\* unless the channel is full.
LEMMA WireMoves ==
  ASSUME IInv, ~ReceiverGoesOn, conn \in {"up", "down"},
         NEW r, NEW before, NEW after, Asked(r, before, after)
  PROVE  Unanswered \/ ReplyHere \/ chan = ChanCap
<1> TypeOK
  BY DEF IInv
<1>1. wire # << >> => Head(wire) \in Msg
  BY DEF TypeOK, Msg
<1>2. CASE query = {r}
  <2>1. CASE conn = "up"
    BY <1>2, <2>1 DEF Unanswered
  <2>2. CASE conn = "down"
    BY <2>2 DEF ReceiverGoesOn
  <2> QED
    BY <2>1, <2>2
<1>3. ASSUME NEW x, OneReply(wire, x) PROVE ReplyHere \/ chan = ChanCap
  <2>1. wire # << >>
    BY <1>3 DEF OneReply, TypeOK
  <2>2. CASE Head(wire) = "note"
    BY <2>1, <2>2, CapAssumption DEF ReceiverGoesOn, NoteHere, TypeOK
  <2>3. CASE Head(wire) # "note"
    BY <1>1, <2>1, <2>3 DEF ReplyHere, Msg
  <2> QED
    BY <2>2, <2>3
<1> QED
  BY <1>2, <1>3 DEF Asked

\* While resync has the lock somebody goes on, unless it is stuck.
LEMMA ResyncMoves ==
  ASSUME IInv, main = "resync", ~MainGoesOn, ~ResyncGoesOn, ~ReceiverGoesOn
  PROVE  Unanswered \/ Stuck
<1> TypeOK /\ StageInv /\ SessionInv
  BY DEF IInv
<1>1. rs \in {"wait", "drain", "stuck"}
  BY DEF TypeOK, StageInv, MainGoesOn, ResyncGoesOn
<1>2. conn \in {"up", "down", "closed"}
  BY DEF TypeOK, StageInv, ReceiverGoesOn
<1>3. CASE rs = "wait"
  <2>1. conn \in {"up", "down"} /\ ~ReplyHere
    BY <1>2, <1>3 DEF ResyncGoesOn, NoReplyComes
  <2>2. chan # ChanCap
    BY <2>1, CapAssumption DEF StageInv, MainGoesOn, ChanReady, TypeOK
  <2>3. PICK ch \in channels \ todo :
          Asked([op |-> "listen", ch |-> ch], (channels \ todo) \ {ch}, channels \ todo)
    BY <1>3 DEF SessionInv
  <2> QED
    BY <2>1, <2>2, <2>3, WireMoves
<1>4. CASE rs = "drain"
  <2>1. conn = "down" /\ chan = 0
    BY <1>2, <1>4 DEF StageInv, ResyncGoesOn, ChanReady, TypeOK
  <2> QED
    BY <2>1, CapAssumption DEF ReceiverGoesOn
<1> QED
  BY <1>1, <1>3, <1>4 DEF Stuck

\* While a call waits for its reply with the lock in its hands somebody goes on.
LEMMA QueryMoves ==
  ASSUME IInv, NEW c \in Calls, pc[c] = "query",
         ~CallGoesOn(c), ~MainGoesOn, ~ReceiverGoesOn
  PROVE  Unanswered \/ Unread
<1> TypeOK /\ StageInv /\ SessionInv
  BY DEF IInv
<1>1. main \in {"nil", "loop", "forward", "cleanup"} /\ conn # "none"
  BY DEF StageInv
<1>2. conn \in {"up", "down"} /\ ~ReplyHere
  BY <1>1 DEF CallGoesOn, NoReplyComes, TypeOK
<1>3. main # "cleanup"
  BY <1>2 DEF StageInv
<1>4. CASE main = "loop"
  <2>1. chan # ChanCap
    BY <1>4, CapAssumption DEF MainGoesOn, ChanReady, TypeOK
  <2>2. Asked(req[c], channels, Listed(req[c]))
    BY DEF SessionInv
  <2> QED
    BY <1>2, <2>1, <2>2, WireMoves
<1>5. CASE main \in {"nil", "forward"}
  BY <1>5, CapAssumption DEF MainGoesOn, Unread, TypeOK
<1> QED
  BY <1>1, <1>3, <1>4, <1>5

\* l.lock, the condition variable, the two channels and the replies of the listener
\* never hold up everybody who waits, for any number of calls and channels: the one
\* halt of its own making is resync's range over a nil channel (notify.go:612, 630).
THEOREM OneNilChannel == Spec => []OnlyResyncBlocks
<1>1. IInv => OnlyResyncBlocks
  <2> SUFFICES ASSUME IInv, NEW c \in Calls,
                      pc[c] \in {"lock", "query", "woken"} \/ (pc[c] = "cond" /\ main # "ended"),
                      \A d \in Calls : ~CallGoesOn(d),
                      ~MainGoesOn, ~ResyncGoesOn, ~ReceiverGoesOn
               PROVE  Unread \/ Unanswered \/ Stuck
    BY DEF OnlyResyncBlocks
  <2> TypeOK /\ StageInv
    BY DEF IInv
  <2>1. CASE main = "resync"
    BY <2>1, ResyncMoves
  <2>2. ASSUME NEW d \in Calls, pc[d] = "query" PROVE Unread \/ Unanswered
    BY <2>2, QueryMoves
  <2>3. CASE LockFree
    <3>1. pc[c] = "cond" /\ main # "ended"
      BY <2>3 DEF CallGoesOn, LockFree
    <3>2. ~cnSet
      BY <3>1 DEF StageInv
    <3>3. main \notin {"loop", "connect", "end", "lock", "closed", "cleanup", "resync"}
      BY <2>3, <3>2 DEF StageInv, MainGoesOn, LockFree
    <3> QED
      BY <3>1, <3>2, <3>3 DEF StageInv, TypeOK
  <2> QED
    BY <2>1, <2>2, <2>3 DEF LockFree
<1> QED
  BY <1>1, Inductive, PTL

\* Nobody but the goroutine of resync could end it, and it waits for good; every
\* method needs the lock.
LEMMA StuckStep ==
  ASSUME TypeOK, StageInv, [Next]_vars, Stuck
  PROVE  Stuck' /\ \A d \in Calls : pc[d] # "idle" => UNCHANGED pc[d]
<1> DEFINE Held == Stuck' /\ \A d \in Calls : pc[d] # "idle" => UNCHANGED pc[d]
<1> \A d \in Calls : pc[d] # "query"
  BY DEF Stuck, TypeOK
<1> USE DEF Stuck, TypeOK, calls, resyncing, listener, link, env
<1>1. ASSUME NEW c \in Calls, Call(c) PROVE Held
  BY <1>1 DEF Call
<1>2. ASSUME NEW c \in Calls, Refuse(c) PROVE Held
  BY <1>2 DEF Refuse, LockFree
<1>3. ASSUME NEW c \in Calls, Send(c) PROVE Held
  BY <1>3 DEF Send, LockFree
<1>4. ASSUME NEW c \in Calls, NotSent(c) PROVE Held
  BY <1>4 DEF NotSent, LockFree
<1>5. ASSUME NEW c \in Calls, NotAnswered(c) PROVE Held
  BY <1>5 DEF NotAnswered
<1>6. ASSUME NEW c \in Calls, Answer(c) PROVE Held
  BY <1>6 DEF Answer
<1>7. ASSUME NEW c \in Calls, Wake(c) PROVE Held
  BY <1>7 DEF Wake, LockFree
<1>8. CASE Close
  BY <1>8 DEF Close, LockFree
<1>9. CASE Dial
  BY <1>9 DEF Dial
<1>10. CASE Resync
  BY <1>10 DEF Resync, LockFree
<1>11. CASE Ignore
  BY <1>11 DEF Ignore
<1>12. CASE Connected
  BY <1>12 DEF Connected
<1>13. CASE NotConnected
  BY <1>13 DEF NotConnected
<1>14. CASE CheckClosed
  BY <1>14 DEF CheckClosed, LockFree
<1>15. CASE SendNil
  BY <1>15 DEF SendNil
<1>16. CASE Take
  BY <1>16 DEF Take
<1>17. CASE Forward
  BY <1>17 DEF Forward
<1>18. CASE DisconnectCleanup
  BY <1>18 DEF DisconnectCleanup, LockFree
<1>19. CASE End
  BY <1>19 DEF End
<1>20. CASE RsListen
  BY <1>20 DEF RsListen
<1>21. CASE RsAll
  BY <1>21 DEF RsAll
<1>22. CASE RsAnswer
  BY <1>22 DEF RsAnswer
<1>23. CASE RsNotAnswered
  BY <1>23 DEF RsNotAnswered
<1>24. CASE RsRange
  BY <1>24 DEF RsRange
<1>25. CASE RsDrain
  BY <1>25 DEF RsDrain
<1>26. CASE Receive
  BY <1>26 DEF Receive
<1>27. CASE ReceiveEnds
  BY <1>27 DEF ReceiveEnds
<1>28. CASE CloseNotificationChan
  BY <1>28 DEF CloseNotificationChan
<1>29. CASE Execute
  BY <1>29 DEF Execute
<1>30. ASSUME NEW ch \in Channels, Publish(ch) PROVE Held
  BY <1>30 DEF Publish
<1>31. CASE Lose
  BY <1>31 DEF Lose
<1>32. CASE Read
  BY <1>32 DEF Read
<1>33. CASE UNCHANGED vars
  BY <1>33 DEF vars
<1> QED
  BY <1>1, <1>2, <1>3, <1>4, <1>5, <1>6, <1>7, <1>8, <1>9, <1>10, <1>11,
     <1>12, <1>13, <1>14, <1>15, <1>16, <1>17, <1>18, <1>19, <1>20, <1>21, <1>22,
     <1>23, <1>24, <1>25, <1>26, <1>27, <1>28, <1>29, <1>30, <1>31, <1>32, <1>33 DEF Next

\* After resync's loop has set the variable to nil before its goroutine ranges over
\* it, no call of the listener returns any more (notify.go:596-635, 663).
THEOREM NothingReturns == Spec => StuckForGood
<1>1. IInv /\ [Next]_vars =>
        [Stuck => Stuck' /\ \A c \in Calls : pc[c] # "idle" => UNCHANGED pc[c]]_vars
  BY StuckStep DEF IInv
<1> QED
  BY <1>1, Inductive, PTL DEF Spec, StuckForGood
================================================================================
