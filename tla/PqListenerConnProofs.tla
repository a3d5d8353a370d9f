------------------------- MODULE PqListenerConnProofs --------------------------
(***************************************************************************)
(* Proofs about PqListenerConn, for any number of calls, any capacity of   *)
(* the notification channel and any number of notifications, with every    *)
(* failure of the server and of the network.                               *)
(***************************************************************************)
EXTENDS PqListenerConn, SequenceTheorems, TLAPS

\* The variables keep their types, and a lock its one holder.
LEMMA TypeStep == TypeOK /\ [Next]_vars => TypeOK'
<1> SUFFICES ASSUME TypeOK, [Next]_vars PROVE TypeOK'
  OBVIOUS
<1> USE CapAssumption, PingsAssumption DEF TypeOK, Sending, Returned, local, remote, ConnectionLockFree, SenderLockFree, Rest
<1>1. ASSUME NEW q \in Calls, Acquire(q) PROVE TypeOK'
  BY <1>1 DEF Acquire
<1>2. ASSUME NEW q \in Calls, Lock(q) PROVE TypeOK'
  BY <1>2 DEF Lock
<1>3. ASSUME NEW q \in Calls, SetState(q) PROVE TypeOK'
  <2>1. CASE connState = "idle"
    BY <1>3, <2>1 DEF SetState
  <2>2. CASE connState # "idle"
    <3>1. bad' \in BOOLEAN
      BY <1>3, <2>2, Zenon DEF SetState
    <3> QED
      BY <1>3, <2>2, <3>1 DEF SetState
  <2> QED
    BY <2>1, <2>2
<1>4. ASSUME NEW q \in Calls, Write(q) PROVE TypeOK'
  BY <1>4 DEF Write
<1>5. ASSUME NEW q \in Calls, WriteFails(q) PROVE TypeOK'
  BY <1>5 DEF WriteFails
<1>6. ASSUME NEW q \in Calls, Abandon(q) PROVE TypeOK'
  BY <1>6 DEF Abandon, CnClose
<1>7. ASSUME NEW q \in Calls, Reply(q) PROVE TypeOK'
  BY <1>7 DEF Reply
<1>8. ASSUME NEW q \in Calls, ReplyClosed(q) PROVE TypeOK'
  BY <1>8 DEF ReplyClosed
<1>9. ASSUME NEW q \in Calls, RecvComplete(q) PROVE TypeOK'
  BY <1>9 DEF RecvComplete
<1>10. ASSUME NEW q \in Calls, RecvError(q) PROVE TypeOK'
  BY <1>10 DEF RecvError
<1>11. ASSUME NEW q \in Calls, RecvReady(q) PROVE TypeOK'
  BY <1>11 DEF RecvReady
<1>12. ASSUME NEW q \in Calls, Run(q) PROVE TypeOK'
  BY <1>12 DEF Run
<1>13. CASE Close
  BY <1>13 DEF Close, CnClose
<1>14. CASE RecvFatal
  BY <1>14 DEF RecvFatal
<1>15. CASE RecvNotification
  BY <1>15 DEF RecvNotification
<1>16. CASE RecvFails
  BY <1>16 DEF RecvFails
<1>17. CASE PutReply
  BY <1>17 DEF PutReply
<1>18. CASE PutNotification
  BY <1>18 DEF PutNotification
<1>19. CASE CleanUp
  BY <1>19 DEF CleanUp, CnClose
<1>20. CASE CloseReplyChan
  BY <1>20 DEF CloseReplyChan
<1>21. CASE CloseNotificationChan
  BY <1>21 DEF CloseNotificationChan
<1>22. CASE Fail
  BY <1>22 DEF Fail
<1>23. CASE TakeNotification
  BY <1>23 DEF TakeNotification
<1>24. CASE UNCHANGED vars
  BY <1>24 DEF vars
<1> QED
  BY <1>1, <1>2, <1>3, <1>4, <1>5, <1>6, <1>7, <1>8, <1>9, <1>10, <1>11, <1>12,
     <1>13, <1>14, <1>15, <1>16, <1>17, <1>18, <1>19, <1>20, <1>21, <1>22, <1>23,
     <1>24 DEF Next

\* One call has each lock, and none is admitted once the connection is over.
LEMMA LocksStep == IInv /\ [Next]_vars => LocksOf'
<1> SUFFICES ASSUME IInv, [Next]_vars PROVE LocksOf'
  OBVIOUS
<1> TypeOK /\ LocksOf
  BY DEF IInv
<1> USE DEF TypeOK, LocksOf, Busy, Sending, Returned, local, remote, ConnectionLockFree, SenderLockFree
<1>1. ASSUME NEW q \in Calls, Acquire(q) PROVE LocksOf'
  BY <1>1 DEF Acquire
<1>2. ASSUME NEW q \in Calls, Lock(q) PROVE LocksOf'
  BY <1>2 DEF Lock
<1>3. ASSUME NEW q \in Calls, SetState(q) PROVE LocksOf'
  BY <1>3 DEF SetState
<1>4. ASSUME NEW q \in Calls, Write(q) PROVE LocksOf'
  BY <1>4 DEF Write
<1>5. ASSUME NEW q \in Calls, WriteFails(q) PROVE LocksOf'
  BY <1>5 DEF WriteFails
<1>6. ASSUME NEW q \in Calls, Abandon(q) PROVE LocksOf'
  BY <1>6 DEF Abandon, CnClose
<1>7. ASSUME NEW q \in Calls, Reply(q) PROVE LocksOf'
  BY <1>7 DEF Reply
<1>8. ASSUME NEW q \in Calls, ReplyClosed(q) PROVE LocksOf'
  BY <1>8 DEF ReplyClosed
<1>9. ASSUME NEW q \in Calls, RecvComplete(q) PROVE LocksOf'
  BY <1>9 DEF RecvComplete
<1>10. ASSUME NEW q \in Calls, RecvError(q) PROVE LocksOf'
  BY <1>10 DEF RecvError
<1>11. ASSUME NEW q \in Calls, RecvReady(q) PROVE LocksOf'
  BY <1>11 DEF RecvReady
<1>12. ASSUME NEW q \in Calls, Run(q) PROVE LocksOf'
  BY <1>12 DEF Run
<1>13. CASE Close
  BY <1>13 DEF Close, CnClose
<1>14. CASE RecvFatal
  BY <1>14 DEF RecvFatal
<1>15. CASE RecvNotification
  BY <1>15 DEF RecvNotification
<1>16. CASE RecvFails
  BY <1>16 DEF RecvFails
<1>17. CASE PutReply
  BY <1>17 DEF PutReply
<1>18. CASE PutNotification
  BY <1>18 DEF PutNotification
<1>19. CASE CleanUp
  BY <1>19 DEF CleanUp, CnClose
<1>20. CASE CloseReplyChan
  BY <1>20 DEF CloseReplyChan
<1>21. CASE CloseNotificationChan
  BY <1>21 DEF CloseNotificationChan
<1>22. CASE Fail
  BY <1>22 DEF Fail
<1>23. CASE TakeNotification
  BY <1>23 DEF TakeNotification
<1>24. CASE UNCHANGED vars
  BY <1>24 DEF vars
<1> QED
  BY <1>1, <1>2, <1>3, <1>4, <1>5, <1>6, <1>7, <1>8, <1>9, <1>10, <1>11, <1>12,
     <1>13, <1>14, <1>15, <1>16, <1>17, <1>18, <1>19, <1>20, <1>21, <1>22, <1>23,
     <1>24 DEF Next

\* Whatever the receiver is about to send comes after what is in the channel: a call
\* takes the first message of the two together, the receiver adds one at the end.
LEMMA PipeTake ==
  ASSUME TypeOK, replyChan # << >>, replyChan' = Tail(replyChan), UNCHANGED <<rpc, rmsg>>
  PROVE  Pipe # << >> /\ Head(Pipe) = Head(replyChan) /\ Pipe' = Tail(Pipe)
<1>1. CASE rpc = "reply"
  <2>1. Pipe = Append(replyChan, rmsg) /\ Pipe' = Append(Tail(replyChan), rmsg)
    BY <1>1 DEF Pipe
  <2>2. replyChan \in Seq({"E", "Z"}) /\ Len(replyChan) > 0 /\ rmsg \in {"E", "Z"}
    BY DEF TypeOK
  <2> QED
    BY <2>1, <2>2
<1>2. CASE rpc # "reply"
  BY <1>2 DEF Pipe
<1> QED
  BY <1>1, <1>2

\* What there is to add to replyChan and to take from it
LEMMA Messages ==
  /\ Append(<< >>, "E") = <<"E">> /\ Append(<< >>, "Z") = <<"Z">>
  /\ Append(<<"E">>, "Z") = <<"E", "Z">>
  /\ Tail(<<"E">>) = << >> /\ Tail(<<"Z">>) = << >> /\ Tail(<<"E", "Z">>) = <<"Z">>
  /\ Len(<< >>) = 0 /\ Len(<<"E">>) = 1 /\ Len(<<"Z">>) = 1 /\ Len(<<"E", "Z">>) = 2
  /\ Head(<<"E">>) = "E" /\ Head(<<"Z">>) = "Z" /\ Head(<<"E", "Z">>) = "E"
<1> DEFINE s == Append(<<"E">>, "Z")
<1>1. s \in Seq({"E", "Z"}) /\ <<"E", "Z">> \in Seq({"E", "Z"}) /\ Len(s) = 2
  OBVIOUS
<1>2. s[1] = "E" /\ s[2] = "Z"
  OBVIOUS
<1>3. \A i \in 1..Len(s) : s[i] = <<"E", "Z">>[i]
  BY <1>1, <1>2
<1>4. s = <<"E", "Z">>
  <2> DEFINE t == <<"E", "Z">>
  <2>1. t \in Seq({"E", "Z"}) /\ Len(s) = Len(t) /\ \A i \in 1..Len(s) : s[i] = t[i]
    BY <1>1, <1>3
  <2> HIDE DEF s, t
  <2>2. s = t
    BY <1>1, <2>1, SeqEqual
  <2> QED
    BY <2>2 DEF t
<1> QED
  BY <1>4

\* The receiving goroutine has a message for replyChan,
LEMMA PipeAdd ==
  ASSUME rpc # "reply", rpc' = "reply", UNCHANGED replyChan
  PROVE  Pipe' = Append(Pipe, rmsg')
  BY DEF Pipe

\* or nothing that concerns it moves.
LEMMA PipeSame ==
  ASSUME UNCHANGED <<replyChan, rmsg>>, rpc = "reply" <=> rpc' = "reply"
  PROVE  Pipe' = Pipe
  BY DEF Pipe

\* A call returns what the server made of its query, and no call panics.
LEMMA AnswerStep ==
  IInv /\ [Next]_vars => \A c \in Calls : AnswerOf(c)' /\ pc'[c] # "panicked"
<1> SUFFICES ASSUME IInv, [Next]_vars, NEW c \in Calls PROVE AnswerOf(c)' /\ pc'[c] # "panicked"
  OBVIOUS
<1> TypeOK /\ LocksOf /\ AnswerOf(c) /\ pc[c] # "panicked" /\ (c \in Busy => StageOf(c))
  BY DEF IInv, Exclusive
<1> USE PingsAssumption DEF TypeOK, AnswerOf, Sending, Returned, local, remote, Rest
<1>1. ASSUME NEW q \in Calls, Acquire(q) PROVE AnswerOf(c)' /\ pc'[c] # "panicked"
  BY <1>1 DEF Acquire
<1>2. ASSUME NEW q \in Calls, Lock(q) PROVE AnswerOf(c)' /\ pc'[c] # "panicked"
  BY <1>2 DEF Lock
<1>3. ASSUME NEW q \in Calls, SetState(q) PROVE AnswerOf(c)' /\ pc'[c] # "panicked"
  <2>1. CASE c = q
    <3>1. connState = "idle"
      BY <1>3, <2>1 DEF SetState, StageOf, Busy, Cut
    <3> QED
      BY <1>3, <2>1, <3>1 DEF SetState
  <2>2. CASE c # q
    BY <1>3, <2>2 DEF SetState
  <2> QED
    BY <2>1, <2>2
<1>4. ASSUME NEW q \in Calls, Write(q) PROVE AnswerOf(c)' /\ pc'[c] # "panicked"
  BY <1>4 DEF Write
<1>5. ASSUME NEW q \in Calls, WriteFails(q) PROVE AnswerOf(c)' /\ pc'[c] # "panicked"
  BY <1>5 DEF WriteFails
<1>6. ASSUME NEW q \in Calls, Abandon(q) PROVE AnswerOf(c)' /\ pc'[c] # "panicked"
  BY <1>6 DEF Abandon, CnClose
<1>7. ASSUME NEW q \in Calls, Reply(q) PROVE AnswerOf(c)' /\ pc'[c] # "panicked"
  <2>1. CASE c = q
    <3>1. c \in Busy /\ StageOf(c)
      BY <1>7, <2>1 DEF Reply, Busy
    <3>2. Pipe # << >> /\ Head(Pipe) = Head(replyChan)
      BY <1>7, PipeTake DEF Reply
    <3>3. Head(replyChan) = "Z" => ran[c] = IF pc[c] = "wait" THEN "ok" ELSE "error"
      BY <1>7, <2>1, <3>1, <3>2 DEF Reply, StageOf
    <3> QED
      BY <1>7, <2>1, <3>3 DEF Reply
  <2>2. CASE c # q
    BY <1>7, <2>2 DEF Reply
  <2> QED
    BY <2>1, <2>2
<1>8. ASSUME NEW q \in Calls, ReplyClosed(q) PROVE AnswerOf(c)' /\ pc'[c] # "panicked"
  BY <1>8 DEF ReplyClosed
<1>9. ASSUME NEW q \in Calls, RecvComplete(q) PROVE AnswerOf(c)' /\ pc'[c] # "panicked"
  BY <1>9 DEF RecvComplete
<1>10. ASSUME NEW q \in Calls, RecvError(q) PROVE AnswerOf(c)' /\ pc'[c] # "panicked"
  BY <1>10 DEF RecvError
<1>11. ASSUME NEW q \in Calls, RecvReady(q) PROVE AnswerOf(c)' /\ pc'[c] # "panicked"
  BY <1>11 DEF RecvReady
<1>12. ASSUME NEW q \in Calls, Run(q) PROVE AnswerOf(c)' /\ pc'[c] # "panicked"
  BY <1>12 DEF Run
<1>13. CASE Close
  BY <1>13 DEF Close, CnClose
<1>14. CASE RecvFatal
  BY <1>14 DEF RecvFatal
<1>15. CASE RecvNotification
  BY <1>15 DEF RecvNotification
<1>16. CASE RecvFails
  BY <1>16 DEF RecvFails
<1>17. CASE PutReply
  BY <1>17 DEF PutReply
<1>18. CASE PutNotification
  BY <1>18 DEF PutNotification
<1>19. CASE CleanUp
  BY <1>19 DEF CleanUp, CnClose
<1>20. CASE CloseReplyChan
  BY <1>20 DEF CloseReplyChan
<1>21. CASE CloseNotificationChan
  BY <1>21 DEF CloseNotificationChan
<1>22. CASE Fail
  BY <1>22 DEF Fail
<1>23. CASE TakeNotification
  BY <1>23 DEF TakeNotification
<1>24. CASE UNCHANGED vars
  BY <1>24 DEF vars
<1> QED
  BY <1>1, <1>2, <1>3, <1>4, <1>5, <1>6, <1>7, <1>8, <1>9, <1>10, <1>11, <1>12,
     <1>13, <1>14, <1>15, <1>16, <1>17, <1>18, <1>19, <1>20, <1>21, <1>22, <1>23,
     <1>24 DEF Next

\* Without a call on the connection nothing is under way.
LEMMA QuietStep == IInv /\ [Next]_vars => QuietUnlessBusy'
<1> DEFINE Quiet == /\ connState = "idle" /\ Pipe = << >>
                    /\ \A c \in Calls : reply[c] \in {"none", "done"}
<1> SUFFICES ASSUME IInv, [Next]_vars, Busy' = {} PROVE Quiet'
  BY DEF QuietUnlessBusy
<1> TypeOK /\ (Busy = {} => Quiet) /\ \A c \in Calls : AnswerOf(c) /\ (c \in Busy => Exclusive(c))
  BY DEF IInv, QuietUnlessBusy
<1> HIDE DEF Quiet
<1> USE DEF Sending, local, remote
<1>1. ASSUME NEW q \in Calls, Acquire(q) PROVE Quiet'
  <2>1. Busy = {}
    BY <1>1 DEF Acquire, Busy, TypeOK
  <2>2. Pipe' = Pipe
    BY <1>1, PipeSame DEF Acquire
  <2> QED
    BY <1>1, <2>1, <2>2 DEF Acquire, Quiet
<1>2. ASSUME NEW q \in Calls, Lock(q) PROVE Quiet'
  BY <1>2 DEF Lock, Busy, TypeOK
<1>3. ASSUME NEW q \in Calls, SetState(q) PROVE Quiet'
  <2>1. q \in Busy /\ StageOf(q) /\ reply[q] = "none"
    BY <1>3 DEF SetState, Busy, AnswerOf, Exclusive, Returned
  <2>2. q \in Busy'
    BY <1>3, <2>1 DEF SetState, StageOf, Busy, TypeOK
  <2> QED
    BY <2>2
<1>4. ASSUME NEW q \in Calls, Write(q) PROVE Quiet'
  BY <1>4 DEF Write, Busy, TypeOK
<1>5. ASSUME NEW q \in Calls, WriteFails(q) PROVE Quiet'
  BY <1>5 DEF WriteFails, Busy, TypeOK
<1>6. ASSUME NEW q \in Calls, Abandon(q) PROVE Quiet'
  BY <1>6 DEF Abandon, Busy, TypeOK
<1>7. ASSUME NEW q \in Calls, Reply(q) PROVE Quiet'
  <2>1. q \in Busy /\ Exclusive(q)
    BY <1>7 DEF Reply, Busy
  <2>2. Pipe # << >> /\ Head(Pipe) = Head(replyChan) /\ Pipe' = Tail(Pipe)
    BY <1>7, PipeTake DEF Reply
  <2>3. Head(replyChan) = "Z"
    BY <1>7 DEF Reply, Busy, TypeOK
  <2>4. reply[q] = "done" /\ connState = "idle" /\ Pipe = <<"Z">>
    BY <1>7, <2>1, <2>2, <2>3 DEF Reply, Exclusive, StageOf, TypeOK
  <2> QED
    BY <1>7, <2>1, <2>2, <2>4 DEF Reply, Exclusive, Quiet
<1>8. ASSUME NEW q \in Calls, ReplyClosed(q) PROVE Quiet'
  BY <1>8 DEF ReplyClosed, Busy, TypeOK
<1>9. ASSUME NEW q \in Calls, RecvComplete(q) PROVE Quiet'
  <2>1. Busy = {}
    BY <1>9 DEF RecvComplete, Busy
  <2> QED
    BY <1>9, <2>1 DEF RecvComplete, Quiet
<1>10. ASSUME NEW q \in Calls, RecvError(q) PROVE Quiet'
  <2>1. Busy = {}
    BY <1>10 DEF RecvError, Busy
  <2> QED
    BY <1>10, <2>1 DEF RecvError, Quiet
<1>11. ASSUME NEW q \in Calls, RecvReady(q) PROVE Quiet'
  <2>1. Busy = {}
    BY <1>11 DEF RecvReady, Busy
  <2> QED
    BY <1>11, <2>1 DEF RecvReady, Quiet
<1>12. ASSUME NEW q \in Calls, Run(q) PROVE Quiet'
  <2>1. Busy = {}
    BY <1>12 DEF Run, Busy
  <2> QED
    BY <1>12, <2>1 DEF Run, Quiet
<1>13. CASE Close
  <2>1. Busy = {}
    BY <1>13 DEF Close, Busy, TypeOK
  <2>2. Pipe' = Pipe
    BY <1>13, PipeSame DEF Close
  <2> QED
    BY <1>13, <2>1, <2>2 DEF Close, Quiet
<1>14. CASE RecvFatal
  <2>1. Busy = {}
    BY <1>14 DEF RecvFatal, Busy
  <2>2. rpc' = "cleanup" /\ UNCHANGED <<connState, rmsg>>
    BY <1>14, <2>1 DEF RecvFatal, Quiet
  <2>3. Pipe' = Pipe
    BY <1>14, <2>2, PipeSame DEF RecvFatal
  <2> QED
    BY <1>14, <2>1, <2>2, <2>3 DEF RecvFatal, Quiet
<1>15. CASE RecvNotification
  <2>1. Busy = {}
    BY <1>15 DEF RecvNotification, Busy, TypeOK
  <2>2. Pipe' = Pipe
    BY <1>15, PipeSame DEF RecvNotification
  <2> QED
    BY <1>15, <2>1, <2>2 DEF RecvNotification, Quiet
<1>16. CASE RecvFails
  <2>1. Busy = {}
    BY <1>16 DEF RecvFails, Busy, TypeOK
  <2>2. Pipe' = Pipe
    BY <1>16, PipeSame DEF RecvFails
  <2> QED
    BY <1>16, <2>1, <2>2 DEF RecvFails, Quiet
<1>17. CASE PutReply
  <2>1. Pipe' = Pipe
    BY <1>17 DEF PutReply, Pipe
  <2>2. Busy = {}
    BY <1>17 DEF PutReply, Busy
  <2> QED
    BY <1>17, <2>1, <2>2 DEF PutReply, Quiet
<1>18. CASE PutNotification
  <2>1. Busy = {}
    BY <1>18 DEF PutNotification, Busy, TypeOK
  <2>2. Pipe' = Pipe
    BY <1>18, PipeSame DEF PutNotification
  <2> QED
    BY <1>18, <2>1, <2>2 DEF PutNotification, Quiet
<1>19. CASE CleanUp
  <2>1. Busy = {}
    BY <1>19 DEF CleanUp, Busy, TypeOK
  <2>2. Pipe' = Pipe
    BY <1>19, PipeSame DEF CleanUp
  <2> QED
    BY <1>19, <2>1, <2>2 DEF CleanUp, Quiet
<1>20. CASE CloseReplyChan
  <2>1. Busy = {}
    BY <1>20 DEF CloseReplyChan, Busy, TypeOK
  <2>2. Pipe' = Pipe
    BY <1>20, PipeSame DEF CloseReplyChan
  <2> QED
    BY <1>20, <2>1, <2>2 DEF CloseReplyChan, Quiet
<1>21. CASE CloseNotificationChan
  <2>1. Busy = {}
    BY <1>21 DEF CloseNotificationChan, Busy, TypeOK
  <2>2. Pipe' = Pipe
    BY <1>21, PipeSame DEF CloseNotificationChan
  <2> QED
    BY <1>21, <2>1, <2>2 DEF CloseNotificationChan, Quiet
<1>22. CASE Fail
  <2>1. Busy = {}
    BY <1>22 DEF Fail, Busy, TypeOK
  <2>2. Pipe' = Pipe
    BY <1>22, PipeSame DEF Fail
  <2> QED
    BY <1>22, <2>1, <2>2 DEF Fail, Quiet
<1>23. CASE TakeNotification
  <2>1. Busy = {}
    BY <1>23 DEF TakeNotification, Busy, TypeOK
  <2>2. Pipe' = Pipe
    BY <1>23, PipeSame DEF TakeNotification
  <2> QED
    BY <1>23, <2>1, <2>2 DEF TakeNotification, Quiet
<1>24. CASE UNCHANGED vars
  BY <1>24 DEF vars, Quiet, Busy, Pipe
<1> QED
  BY <1>1, <1>2, <1>3, <1>4, <1>5, <1>6, <1>7, <1>8, <1>9, <1>10, <1>11, <1>12,
     <1>13, <1>14, <1>15, <1>16, <1>17, <1>18, <1>19, <1>20, <1>21, <1>22, <1>23,
     <1>24 DEF Next

\* For the call on the connection its place, its reply, the protocol state and the
\* messages on their way to it agree.
LEMMA ExclusiveStep == IInv /\ [Next]_vars => \A c \in Busy' : Exclusive(c)'
<1> SUFFICES ASSUME IInv, [Next]_vars, NEW c \in Busy' PROVE Exclusive(c)'
  OBVIOUS
<1>0. /\ TypeOK /\ LocksOf /\ QuietUnlessBusy /\ c \in Calls
      /\ \A d \in Calls : AnswerOf(d) /\ (d \in Busy => Exclusive(d))
  BY DEF IInv, Busy
<1> USE <1>0 DEF TypeOK, Sending, Returned, AnswerOf, Cut, local, remote, Rest
<1>1. ASSUME NEW q \in Calls, Acquire(q) PROVE Exclusive(c)'
  <2>1. Pipe' = Pipe
    BY <1>1, PipeSame DEF Acquire
  <2>2. c \in Busy
    BY <1>1 DEF Acquire, Busy
  <2> QED
    BY <1>1, <2>1, <2>2 DEF Acquire, Exclusive, StageOf
<1>2. ASSUME NEW q \in Calls, Lock(q) PROVE Exclusive(c)'
  <2>1. Busy = {} /\ c = q
    BY <1>2 DEF Lock, LocksOf, Busy, SenderLockFree
  <2>2. Pipe' = Pipe
    BY <1>2, PipeSame DEF Lock
  <2> QED
    BY <1>2, <2>1, <2>2 DEF Lock, QuietUnlessBusy, Exclusive, StageOf
<1>3. ASSUME NEW q \in Calls, SetState(q) PROVE Exclusive(c)'
  <2>1. c \in Busy /\ Exclusive(c)
    BY <1>3 DEF SetState, Busy
  <2>2. q = c
    BY <1>3, <2>1 DEF SetState, Exclusive, LocksOf, Busy
  <2>3. Pipe' = Pipe
    BY <1>3, PipeSame DEF SetState
  <2> QED
    BY <1>3, <2>1, <2>2, <2>3 DEF SetState, Exclusive, StageOf
<1>4. ASSUME NEW q \in Calls, Write(q) PROVE Exclusive(c)'
  <2>1. c \in Busy /\ Exclusive(c)
    BY <1>4 DEF Write, Busy
  <2>2. q = c
    BY <1>4, <2>1 DEF Write, Exclusive, LocksOf, Busy
  <2>3. Pipe' = Pipe
    BY <1>4, PipeSame DEF Write
  <2> QED
    BY <1>4, <2>1, <2>2, <2>3 DEF Write, Exclusive, StageOf
<1>5. ASSUME NEW q \in Calls, WriteFails(q) PROVE Exclusive(c)'
  <2>1. c \in Busy /\ Exclusive(c)
    BY <1>5 DEF WriteFails, Busy
  <2>2. q = c
    BY <1>5, <2>1 DEF WriteFails, Exclusive, LocksOf, Busy
  <2>3. Pipe' = Pipe
    BY <1>5, PipeSame DEF WriteFails
  <2> QED
    BY <1>5, <2>1, <2>2, <2>3 DEF WriteFails, Exclusive, StageOf
<1>6. ASSUME NEW q \in Calls, Abandon(q) PROVE Exclusive(c)'
  <2>1. c \in Busy /\ Exclusive(c)
    BY <1>6 DEF Abandon, Busy
  <2>2. q = c
    BY <1>6, <2>1 DEF Abandon, Exclusive, LocksOf, Busy
  <2>3. Pipe' = Pipe
    BY <1>6, PipeSame DEF Abandon
  <2> QED
    BY <1>6, <2>1, <2>2, <2>3 DEF Abandon, Exclusive, StageOf
<1>7. ASSUME NEW q \in Calls, Reply(q) PROVE Exclusive(c)'
  <2>1. c \in Busy /\ Exclusive(c)
    BY <1>7 DEF Reply, Busy
  <2>2. q = c
    BY <1>7, <2>1 DEF Reply, Exclusive, LocksOf, Busy
  <2>3. Pipe # << >> /\ Head(Pipe) = Head(replyChan) /\ Pipe' = Tail(Pipe)
    BY <1>7, PipeTake DEF Reply
  <2>4. pc'[c] = "waitE"
    BY <1>7, <2>2 DEF Reply, Busy
  <2>5. Head(Pipe) = "E" /\ pc[c] = "wait"
    BY <1>7, <2>1, <2>2, <2>3, <2>4, Messages DEF Reply, Exclusive, StageOf
  <2>6. \/ reply[c] = "sent" /\ Cut /\ Pipe = <<"E">>
        \/ reply[c] = "Z" /\ connState = "ready" /\ ran[c] = "error" /\ Pipe = <<"E">>
        \/ reply[c] = "done" /\ connState = "idle" /\ ran[c] = "error" /\ Pipe = <<"E", "Z">>
    BY <2>1, <2>3, <2>5, Messages DEF Exclusive, StageOf
  <2>7. UNCHANGED <<reply, connState, ran, server>>
    BY <1>7 DEF Reply
  <2> QED
    BY <2>1, <2>3, <2>4, <2>6, <2>7, Messages DEF Exclusive, StageOf
<1>8. ASSUME NEW q \in Calls, ReplyClosed(q) PROVE Exclusive(c)'
  <2>1. c \in Busy /\ Exclusive(c)
    BY <1>8 DEF ReplyClosed, Busy
  <2>2. q = c
    BY <1>8, <2>1 DEF ReplyClosed, Exclusive, LocksOf, Busy
  <2>3. Pipe' = Pipe /\ Pipe = << >>
    BY <1>8 DEF ReplyClosed, Pipe
  <2> QED
    BY <1>8, <2>1, <2>2, <2>3 DEF ReplyClosed, Exclusive, StageOf
<1>9. ASSUME NEW q \in Calls, RecvComplete(q) PROVE Exclusive(c)'
  <2>1. c \in Busy /\ Exclusive(c)
    BY <1>9 DEF RecvComplete, Busy
  <2>2. q = c
    BY <1>9, <2>1 DEF RecvComplete, Exclusive, LocksOf, Busy
  <2>3. Pipe' = Pipe
    BY <1>9, PipeSame DEF RecvComplete
  <2> QED
    BY <1>9, <2>1, <2>2, <2>3 DEF RecvComplete, Exclusive, StageOf
<1>10. ASSUME NEW q \in Calls, RecvError(q) PROVE Exclusive(c)'
  <2>1. c \in Busy /\ Exclusive(c)
    BY <1>10 DEF RecvError, Busy
  <2>2. q = c
    BY <1>10, <2>1 DEF RecvError, Exclusive, LocksOf, Busy
  <2>3. connState = "response" /\ Pipe = << >> /\ pc[c] # "waitE"
    BY <1>10, <2>1, <2>2 DEF RecvError, Exclusive, StageOf
  <2>4. Pipe' = <<"E">>
    BY <1>10, <2>3, PipeAdd, Messages DEF RecvError
  <2> QED
    BY <1>10, <2>1, <2>2, <2>3, <2>4 DEF RecvError, Exclusive, StageOf
<1>11. ASSUME NEW q \in Calls, RecvReady(q) PROVE Exclusive(c)'
  <2>1. c \in Busy /\ Exclusive(c)
    BY <1>11 DEF RecvReady, Busy
  <2>2. q = c
    BY <1>11, <2>1 DEF RecvReady, Exclusive, LocksOf, Busy
  <2>3. connState = "ready" /\ rmsg' = "Z"
    BY <1>11, <2>1, <2>2 DEF RecvReady, Exclusive, StageOf
  <2>4. Pipe' = Append(Pipe, "Z")
    BY <1>11, <2>3, PipeAdd DEF RecvReady
  <2>5. connState' = "idle" /\ reply'[c] = "done" /\ UNCHANGED <<pc, ran>>
    BY <1>11, <2>2, <2>3 DEF RecvReady
  <2>6. \/ ran[c] = "ok" /\ pc[c] = "wait" /\ Pipe = << >>
        \/ ran[c] = "error" /\ pc[c] = "wait" /\ Pipe = <<"E">>
        \/ ran[c] = "error" /\ pc[c] = "waitE" /\ Pipe = << >>
    BY <1>11, <2>1, <2>2 DEF RecvReady, Exclusive, StageOf, Busy
  <2>7. StageOf(c)'
    BY <2>4, <2>5, <2>6, Messages DEF StageOf
  <2> QED
    BY <1>11, <2>1, <2>2, <2>7 DEF RecvReady, Exclusive
<1>12. ASSUME NEW q \in Calls, Run(q) PROVE Exclusive(c)'
  <2>1. c \in Busy /\ Exclusive(c)
    BY <1>12 DEF Run, Busy
  <2>2. q = c
    BY <1>12, <2>1 DEF Run, Exclusive, LocksOf, Busy
  <2>3. Pipe' = Pipe
    BY <1>12, PipeSame DEF Run
  <2> QED
    BY <1>12, <2>1, <2>2, <2>3 DEF Run, Exclusive, StageOf
<1>13. CASE Close
  <2>1. Pipe' = Pipe
    BY <1>13, PipeSame DEF Close
  <2>2. c \in Busy
    BY <1>13 DEF Close, Busy
  <2> QED
    BY <1>13, <2>1, <2>2 DEF Close, Exclusive, StageOf
<1>14. CASE RecvFatal
  <2>1. c \in Busy /\ Exclusive(c)
    BY <1>14 DEF RecvFatal, Busy
  <2>2. CASE connState = "response"
    <3>1. Pipe' = Append(Pipe, "E")
      BY <1>14, <2>2, PipeAdd DEF RecvFatal
    <3>2. Pipe = << >> /\ reply[c] \in {"none", "sent"} /\ pc[c] # "waitE"
      BY <1>14, <2>1, <2>2 DEF RecvFatal, Exclusive, StageOf
    <3>3. Pipe' = <<"E">>
      BY <3>1, <3>2, Messages
    <3> QED
      BY <1>14, <2>1, <2>2, <3>2, <3>3 DEF RecvFatal, Exclusive, StageOf
  <2>3. CASE connState # "response"
    <3>1. Pipe' = Pipe
      BY <1>14, <2>3, PipeSame DEF RecvFatal
    <3> QED
      BY <1>14, <2>1, <2>3, <3>1 DEF RecvFatal, Exclusive, StageOf
  <2> QED
    BY <2>2, <2>3
<1>15. CASE RecvNotification
  <2>1. Pipe' = Pipe
    BY <1>15, PipeSame DEF RecvNotification
  <2>2. c \in Busy
    BY <1>15 DEF RecvNotification, Busy
  <2> QED
    BY <1>15, <2>1, <2>2 DEF RecvNotification, Exclusive, StageOf
<1>16. CASE RecvFails
  <2>1. Pipe' = Pipe
    BY <1>16, PipeSame DEF RecvFails
  <2>2. c \in Busy
    BY <1>16 DEF RecvFails, Busy
  <2> QED
    BY <1>16, <2>1, <2>2 DEF RecvFails, Exclusive, StageOf
<1>17. CASE PutReply
  <2>1. Pipe' = Pipe
    BY <1>17 DEF PutReply, Pipe
  <2>2. c \in Busy
    BY <1>17 DEF PutReply, Busy
  <2> QED
    BY <1>17, <2>1, <2>2 DEF PutReply, Exclusive, StageOf
<1>18. CASE PutNotification
  <2>1. Pipe' = Pipe
    BY <1>18, PipeSame DEF PutNotification
  <2>2. c \in Busy
    BY <1>18 DEF PutNotification, Busy
  <2> QED
    BY <1>18, <2>1, <2>2 DEF PutNotification, Exclusive, StageOf
<1>19. CASE CleanUp
  <2>1. Pipe' = Pipe
    BY <1>19, PipeSame DEF CleanUp
  <2>2. c \in Busy
    BY <1>19 DEF CleanUp, Busy
  <2> QED
    BY <1>19, <2>1, <2>2 DEF CleanUp, Exclusive, StageOf
<1>20. CASE CloseReplyChan
  <2>1. Pipe' = Pipe
    BY <1>20, PipeSame DEF CloseReplyChan
  <2>2. c \in Busy
    BY <1>20 DEF CloseReplyChan, Busy
  <2> QED
    BY <1>20, <2>1, <2>2 DEF CloseReplyChan, Exclusive, StageOf
<1>21. CASE CloseNotificationChan
  <2>1. Pipe' = Pipe
    BY <1>21, PipeSame DEF CloseNotificationChan
  <2>2. c \in Busy
    BY <1>21 DEF CloseNotificationChan, Busy
  <2> QED
    BY <1>21, <2>1, <2>2 DEF CloseNotificationChan, Exclusive, StageOf
<1>22. CASE Fail
  <2>1. Pipe' = Pipe
    BY <1>22, PipeSame DEF Fail
  <2>2. c \in Busy
    BY <1>22 DEF Fail, Busy
  <2> QED
    BY <1>22, <2>1, <2>2 DEF Fail, Exclusive, StageOf
<1>23. CASE TakeNotification
  <2>1. Pipe' = Pipe
    BY <1>23, PipeSame DEF TakeNotification
  <2>2. c \in Busy
    BY <1>23 DEF TakeNotification, Busy
  <2> QED
    BY <1>23, <2>1, <2>2 DEF TakeNotification, Exclusive, StageOf
<1>24. CASE UNCHANGED vars
  <2>1. Pipe' = Pipe /\ c \in Busy
    BY <1>24 DEF vars, Pipe, Busy
  <2> QED
    BY <1>24, <2>1 DEF vars, Exclusive, StageOf
<1> QED
  BY <1>1, <1>2, <1>3, <1>4, <1>5, <1>6, <1>7, <1>8, <1>9, <1>10, <1>11, <1>12,
     <1>13, <1>14, <1>15, <1>16, <1>17, <1>18, <1>19, <1>20, <1>21, <1>22, <1>23,
     <1>24 DEF Next

\* The inductive invariant holds at the start and every step keeps it.
LEMMA InvInit == Init => IInv
<1> SUFFICES ASSUME Init PROVE IInv
  OBVIOUS
<1> USE CapAssumption DEF Init
<1>1. TypeOK
  <2>1. bad \in BOOLEAN
    BY Zenon
  <2>2. replyChan \in Seq({"E", "Z"}) /\ Len(replyChan) = 0
    OBVIOUS
  <2> QED
    BY <2>1, <2>2 DEF TypeOK, Sending, Returned
<1>2. Busy = {} /\ Pipe = << >>
  BY DEF Busy, Sending, Pipe
<1> QED
  BY <1>1, <1>2 DEF IInv, LocksOf, AnswerOf, QuietUnlessBusy

\* The invariant is inductive.
LEMMA InvStep == IInv /\ [Next]_vars => IInv'
<1> SUFFICES ASSUME IInv, [Next]_vars PROVE IInv'
  OBVIOUS
<1>1. TypeOK'
  BY TypeStep DEF IInv
<1>2. LocksOf' /\ QuietUnlessBusy' /\ \A c \in Busy' : Exclusive(c)'
  BY LocksStep, QuietStep, ExclusiveStep
<1>3. \A c \in Calls : AnswerOf(c)' /\ pc'[c] # "panicked"
  BY AnswerStep
<1> QED
  BY <1>1, <1>2, <1>3 DEF IInv

\* In every reachable state: one call has each lock, none is admitted once the
\* connection is over, and the place of the call that sends, its reply, the protocol
\* state and the messages in replyChan agree.
THEOREM Inductive == Spec => []IInv
  BY InvInit, InvStep, PTL DEF Spec

\* The variables have their types, and each of the two locks one holder.
THEOREM TypeCorrect == Spec => []TypeOK
<1>1. IInv => TypeOK
  BY DEF IInv
<1> QED
  BY <1>1, Inductive, PTL

\* setState never fails in sendSimpleQuery ("two queries running at the same time"),
\* Ping never panics, and the goroutine that receives never waits for room in
\* replyChan, whatever the server, the network and other calls do.
THEOREM NeverHeldUpHolds == Spec => []NeverHeldUp
<1>1. IInv => NeverHeldUp
  <2> SUFFICES ASSUME IInv, rpc = "reply" PROVE Len(replyChan) < 2
    BY DEF IInv, NeverHeldUp
  <2>1. Pipe = Append(replyChan, rmsg) /\ replyChan \in Seq({"E", "Z"}) /\ rmsg \in {"E", "Z"}
    BY DEF Pipe, IInv, TypeOK
  <2>2. Len(Pipe) = Len(replyChan) + 1 /\ Len(replyChan) \in Nat
    BY <2>1
  <2>3. Pipe \in {<< >>, <<"E">>, <<"Z">>, <<"E", "Z">>}
    <3>1. CASE Busy = {}
      BY <3>1 DEF IInv, QuietUnlessBusy
    <3>2. ASSUME NEW c \in Busy PROVE Pipe \in {<< >>, <<"E">>, <<"Z">>, <<"E", "Z">>}
      <4>1. StageOf(c) /\ reply[c] \in {"none", "sent", "CZ", "EZ", "Z", "done"}
        BY <3>2 DEF IInv, Exclusive, Busy, TypeOK
      <4> QED
        BY <4>1 DEF StageOf
    <3> QED
      BY <3>1, <3>2
  <2>4. Len(Pipe) \in {0, 1, 2}
    <3>1. /\ Len(<< >>) = 0 /\ Len(<<"E">>) = 1 /\ Len(<<"Z">>) = 1
          /\ Len(<<"E", "Z">>) = 2
      BY Messages
    <3>2. CASE Pipe = << >>
      BY <3>1, <3>2, Zenon
    <3>3. CASE Pipe = <<"E">>
      BY <3>1, <3>3, Zenon
    <3>4. CASE Pipe = <<"Z">>
      BY <3>1, <3>4, Zenon
    <3>5. CASE Pipe = <<"E", "Z">>
      BY <3>1, <3>5, Zenon
    <3> QED
      BY <2>3, <3>2, <3>3, <3>4, <3>5
  <2> QED
    BY <2>2, <2>4
<1> QED
  BY <1>1, Inductive, PTL

\* A step of one call changes it alone in the abstraction.
LEMMA CallMap ==
  ASSUME NEW q \in Calls, NEW v, Call(q)' = v, \A c \in Calls \ {q} : Call(c)' = Call(c)
  PROVE  [c \in Calls |-> Call(c)]' = [[c \in Calls |-> Call(c)] EXCEPT ![q] = v]
  OBVIOUS

\* Every step of the two locks, the protocol state and the two goroutines is a step of
\* SimpleQueries, or none.
LEMMA ImplementsStep == IInv /\ IInv' /\ [Next]_vars => [Simple!Next]_(Simple!sqVars)
<1> SUFFICES ASSUME IInv, IInv', [Next]_vars PROVE [Simple!Next]_(Simple!sqVars)
  OBVIOUS
<1> TypeOK /\ TypeOK' /\ LocksOf /\ \A c \in Calls : AnswerOf(c) /\ AnswerOf(c)'
  BY DEF IInv
<1> USE DEF TypeOK, Sending, Returned, local, remote
<1>1. ASSUME NEW q \in Calls, Acquire(q) PROVE [Simple!Next]_(Simple!sqVars)
  <2>1. Call(q)' = (IF err = "none" THEN "called" ELSE "refused") /\ \A c \in Calls \ {q} : Call(c)' = Call(c)
    BY <1>1 DEF Acquire, Call
  <2>2. Simple!Begin(q)
    BY <1>1, <2>1, CallMap DEF Acquire, Call, Simple!Begin
  <2> QED
    BY <2>2 DEF Simple!Next
<1>2. ASSUME NEW q \in Calls, Lock(q) PROVE [Simple!Next]_(Simple!sqVars)
  <2>1. UNCHANGED <<err, ran>> /\ \A c \in Calls : Call(c)' = Call(c)
    BY <1>2 DEF Lock, Call
  <2> QED
    BY <2>1 DEF Simple!sqVars
<1>3. ASSUME NEW q \in Calls, SetState(q) PROVE [Simple!Next]_(Simple!sqVars)
  <2>1. pc'[q] # "panicked"
    BY DEF IInv
  <2>2. UNCHANGED <<err, ran>> /\ \A c \in Calls : Call(c)' = Call(c)
    BY <1>3, <2>1 DEF SetState, Call
  <2> QED
    BY <2>2 DEF Simple!sqVars
<1>4. ASSUME NEW q \in Calls, Write(q) PROVE [Simple!Next]_(Simple!sqVars)
  <2>1. UNCHANGED <<err, ran>> /\ \A c \in Calls : Call(c)' = Call(c)
    BY <1>4 DEF Write, Call
  <2> QED
    BY <2>1 DEF Simple!sqVars
<1>5. ASSUME NEW q \in Calls, WriteFails(q) PROVE [Simple!Next]_(Simple!sqVars)
  <2>1. UNCHANGED <<err, ran>> /\ \A c \in Calls : Call(c)' = Call(c)
    BY <1>5 DEF WriteFails, Call
  <2> QED
    BY <2>1 DEF Simple!sqVars
<1>6. ASSUME NEW q \in Calls, Abandon(q) PROVE [Simple!Next]_(Simple!sqVars)
  <2>1. Call(q)' = "failed" /\ \A c \in Calls \ {q} : Call(c)' = Call(c)
    BY <1>6 DEF Abandon, Call
  <2>2. Simple!Abandon(q)
    BY <1>6, <2>1, CallMap DEF Abandon, Call, Simple!Abandon
  <2> QED
    BY <2>2 DEF Simple!Next
<1>7. ASSUME NEW q \in Calls, Reply(q) PROVE [Simple!Next]_(Simple!sqVars)
  <2>1. CASE pc'[q] = "waitE"
    <3>1. UNCHANGED <<err, ran>> /\ \A c \in Calls : Call(c)' = Call(c)
      BY <1>7, <2>1 DEF Reply, Call
    <3> QED
      BY <3>1 DEF Simple!sqVars
  <2>2. CASE pc'[q] # "waitE"
    <3>1. pc'[q] \in {"ok", "error"}
      BY <1>7, <2>2 DEF Reply, IInv
    <3>2. ran'[q] = pc'[q] /\ ran' = ran
      BY <1>7, <3>1 DEF AnswerOf, Reply
    <3>3. Call(q)' = ran[q] /\ \A c \in Calls \ {q} : Call(c)' = Call(c)
      BY <1>7, <3>1, <3>2 DEF Reply, Call
    <3>4. Simple!Executed(q)
      BY <1>7, <3>1, <3>2, <3>3, CallMap DEF Reply, Call, Simple!Executed
    <3> QED
      BY <3>4 DEF Simple!Next
  <2> QED
    BY <2>1, <2>2
<1>8. ASSUME NEW q \in Calls, ReplyClosed(q) PROVE [Simple!Next]_(Simple!sqVars)
  <2>1. err # "none"
    BY <1>8 DEF ReplyClosed, LocksOf
  <2>2. Call(q)' = "failed" /\ \A c \in Calls \ {q} : Call(c)' = Call(c)
    BY <1>8 DEF ReplyClosed, Call
  <2>3. Simple!NotExecuted(q)
    BY <1>8, <2>1, <2>2, CallMap DEF ReplyClosed, Call, Simple!NotExecuted
  <2> QED
    BY <2>3 DEF Simple!Next
<1>9. ASSUME NEW q \in Calls, RecvComplete(q) PROVE [Simple!Next]_(Simple!sqVars)
  <2>1. UNCHANGED <<err, ran>> /\ \A c \in Calls : Call(c)' = Call(c)
    BY <1>9 DEF RecvComplete, Call
  <2> QED
    BY <2>1 DEF Simple!sqVars
<1>10. ASSUME NEW q \in Calls, RecvError(q) PROVE [Simple!Next]_(Simple!sqVars)
  <2>1. UNCHANGED <<err, ran>> /\ \A c \in Calls : Call(c)' = Call(c)
    BY <1>10 DEF RecvError, Call
  <2> QED
    BY <2>1 DEF Simple!sqVars
<1>11. ASSUME NEW q \in Calls, RecvReady(q) PROVE [Simple!Next]_(Simple!sqVars)
  <2>1. UNCHANGED <<err, ran>> /\ \A c \in Calls : Call(c)' = Call(c)
    BY <1>11 DEF RecvReady, Call
  <2> QED
    BY <2>1 DEF Simple!sqVars
<1>12. ASSUME NEW q \in Calls, Run(q) PROVE [Simple!Next]_(Simple!sqVars)
  <2>1. ran[q] = "no" /\ Call(q) \in {"called", "failed"}
    BY <1>12 DEF Run, AnswerOf, Call
  <2>2. Simple!Run(q)
    BY <1>12, <2>1 DEF Run, Call, Simple!Run
  <2> QED
    BY <2>2 DEF Simple!Next
<1>13. CASE Close
  <2>1. Simple!Over("closed")
    BY <1>13 DEF Close, Call, Simple!Over
  <2> QED
    BY <2>1 DEF Simple!Next
<1>14. CASE RecvFatal
  <2>1. UNCHANGED <<err, ran, pc>>
    BY <1>14 DEF RecvFatal
  <2> QED
    BY <2>1 DEF Simple!sqVars, Call
<1>15. CASE RecvNotification
  <2>1. UNCHANGED <<err, ran, pc>>
    BY <1>15 DEF RecvNotification
  <2> QED
    BY <2>1 DEF Simple!sqVars, Call
<1>16. CASE RecvFails
  <2>1. UNCHANGED <<err, ran, pc>>
    BY <1>16 DEF RecvFails
  <2> QED
    BY <2>1 DEF Simple!sqVars, Call
<1>17. CASE PutReply
  <2>1. UNCHANGED <<err, ran, pc>>
    BY <1>17 DEF PutReply
  <2> QED
    BY <2>1 DEF Simple!sqVars, Call
<1>18. CASE PutNotification
  <2>1. UNCHANGED <<err, ran, pc>>
    BY <1>18 DEF PutNotification
  <2> QED
    BY <2>1 DEF Simple!sqVars, Call
<1>19. CASE CleanUp
  <2>1. CASE err = "none"
    <3>1. Simple!Over("lost")
      BY <1>19, <2>1 DEF CleanUp, Call, Simple!Over
    <3> QED
      BY <3>1 DEF Simple!Next
  <2>2. CASE err # "none"
    BY <1>19, <2>2 DEF CleanUp, Call, Simple!sqVars
  <2> QED
    BY <2>1, <2>2
<1>20. CASE CloseReplyChan
  <2>1. UNCHANGED <<err, ran, pc>>
    BY <1>20 DEF CloseReplyChan
  <2> QED
    BY <2>1 DEF Simple!sqVars, Call
<1>21. CASE CloseNotificationChan
  <2>1. UNCHANGED <<err, ran, pc>>
    BY <1>21 DEF CloseNotificationChan
  <2> QED
    BY <2>1 DEF Simple!sqVars, Call
<1>22. CASE Fail
  <2>1. UNCHANGED <<err, ran, pc>>
    BY <1>22 DEF Fail
  <2> QED
    BY <2>1 DEF Simple!sqVars, Call
<1>23. CASE TakeNotification
  <2>1. UNCHANGED <<err, ran, pc>>
    BY <1>23 DEF TakeNotification
  <2> QED
    BY <2>1 DEF Simple!sqVars, Call
<1>24. CASE UNCHANGED vars
  BY <1>24 DEF vars, Call, Simple!sqVars
<1> QED
  BY <1>1, <1>2, <1>3, <1>4, <1>5, <1>6, <1>7, <1>8, <1>9, <1>10, <1>11, <1>12,
     <1>13, <1>14, <1>15, <1>16, <1>17, <1>18, <1>19, <1>20, <1>21, <1>22, <1>23,
     <1>24 DEF Next

\* ListenerConn.ExecSimpleQuery keeps the promise of its comment: a call returns the
\* server's answer to its own query or, once the connection is over, an error, and
\* the first reason for the end of the connection stays.
THEOREM Implements == Spec => ImplementsSimpleQueries
<1>1. Init => Simple!Init
  BY DEF Init, Simple!Init, Call, Sending
<1> QED
  BY <1>1, ImplementsStep, Inductive, PTL DEF Spec, ImplementsSimpleQueries, Simple!Spec

\* acquireSenderLock waits for senderLock with connectionLock held: if whoever has
\* senderLock needs connectionLock, or somebody who closes the connection, first,
\* nothing that may happen later frees them.
THEOREM Deadlock == Spec => DeadlockedForGood
<1>1. TypeOK /\ [Next]_vars /\ Deadlocked => Deadlocked'
  <2> DEFINE Held(c, d) ==
        /\ pc[c] = "acquire"
        /\ \/ pc[d] = "abandon"
           \/ pc[d] \in {"wait", "waitE"} /\ rpc = "cleanup" /\ replyChan = << >>
  <2> SUFFICES ASSUME TypeOK, [Next]_vars, NEW c \in Calls, NEW d \in Calls, Held(c, d)
               PROVE  Held(c, d)'
    BY DEF Deadlocked
  <2> USE DEF TypeOK, Sending, local, remote, ConnectionLockFree, SenderLockFree
  <2>1. ASSUME NEW q \in Calls, Acquire(q) PROVE Held(c, d)'
    BY <2>1 DEF Acquire
  <2>2. ASSUME NEW q \in Calls, Lock(q) PROVE Held(c, d)'
    BY <2>2 DEF Lock
  <2>3. ASSUME NEW q \in Calls, SetState(q) PROVE Held(c, d)'
    BY <2>3 DEF SetState
  <2>4. ASSUME NEW q \in Calls, Write(q) PROVE Held(c, d)'
    BY <2>4 DEF Write
  <2>5. ASSUME NEW q \in Calls, WriteFails(q) PROVE Held(c, d)'
    BY <2>5 DEF WriteFails
  <2>6. ASSUME NEW q \in Calls, Abandon(q) PROVE Held(c, d)'
    BY <2>6 DEF Abandon, CnClose
  <2>7. ASSUME NEW q \in Calls, Reply(q) PROVE Held(c, d)'
    BY <2>7 DEF Reply
  <2>8. ASSUME NEW q \in Calls, ReplyClosed(q) PROVE Held(c, d)'
    BY <2>8 DEF ReplyClosed
  <2>9. ASSUME NEW q \in Calls, RecvComplete(q) PROVE Held(c, d)'
    BY <2>9 DEF RecvComplete
  <2>10. ASSUME NEW q \in Calls, RecvError(q) PROVE Held(c, d)'
    BY <2>10 DEF RecvError
  <2>11. ASSUME NEW q \in Calls, RecvReady(q) PROVE Held(c, d)'
    BY <2>11 DEF RecvReady
  <2>12. ASSUME NEW q \in Calls, Run(q) PROVE Held(c, d)'
    BY <2>12 DEF Run
  <2>13. CASE Close
    BY <2>13 DEF Close, CnClose
  <2>14. CASE RecvFatal
    BY <2>14 DEF RecvFatal
  <2>15. CASE RecvNotification
    BY <2>15 DEF RecvNotification
  <2>16. CASE RecvFails
    BY <2>16 DEF RecvFails
  <2>17. CASE PutReply
    BY <2>17 DEF PutReply
  <2>18. CASE PutNotification
    BY <2>18 DEF PutNotification
  <2>19. CASE CleanUp
    BY <2>19 DEF CleanUp, CnClose
  <2>20. CASE CloseReplyChan
    BY <2>20 DEF CloseReplyChan
  <2>21. CASE CloseNotificationChan
    BY <2>21 DEF CloseNotificationChan
  <2>22. CASE Fail
    BY <2>22 DEF Fail
  <2>23. CASE TakeNotification
    BY <2>23 DEF TakeNotification
  <2>24. CASE UNCHANGED vars
    BY <2>24 DEF vars
  <2> QED
    BY <2>1, <2>2, <2>3, <2>4, <2>5, <2>6, <2>7, <2>8, <2>9, <2>10, <2>11, <2>12,
     <2>13, <2>14, <2>15, <2>16, <2>17, <2>18, <2>19, <2>20, <2>21, <2>22, <2>23,
     <2>24 DEF Next
<1> QED
  BY <1>1, TypeCorrect, PTL DEF Spec, DeadlockedForGood

\* The deadlock of acquireSenderLock (notify.go:95) is the only circle in which the
\* calls and listenerConnMain wait for one another, for any number of calls: every
\* other halt is one of the server or of the reader of the notifications.
THEOREM OneDeadlock == Spec => []OnlyLockOrderBlocks
<1>1. IInv => OnlyLockOrderBlocks
  <2> SUFFICES ASSUME IInv, NEW c \in Calls, pc[c] \in {"acquire"} \cup Sending,
                      ~ReceiverGoesOn, \A d \in Calls : ~CallGoesOn(d)
               PROVE  Deadlocked \/ NotesUnread \/ Unanswered
    BY DEF OnlyLockOrderBlocks
  <2> TypeOK
    BY DEF IInv
  <2>1. PICK d \in Calls : pc[d] \in Sending
    BY DEF CallGoesOn, SenderLockFree
  <2>2. Exclusive(d) /\ StageOf(d)
    BY <2>1 DEF IInv, Busy, Exclusive
  <2>3. pc[d] \in {"abandon", "wait", "waitE"}
    BY <2>1 DEF CallGoesOn, Sending
  <2>4. CASE pc[d] = "abandon"
    BY <2>4 DEF CallGoesOn, ConnectionLockFree, Deadlocked
  <2>5. CASE pc[d] \in {"wait", "waitE"}
    <3>1. replyChan = << >> /\ rpc \notin {"close", "closenotes", "ended"}
      BY <2>5 DEF CallGoesOn, ReceiverGoesOn
    <3>2. rpc # "reply"
      BY <3>1 DEF ReceiverGoesOn
    <3>3. CASE rpc = "note"
      <4>1. ~(notes < Cap) /\ notes \in 0..Cap
        BY <3>3 DEF ReceiverGoesOn, TypeOK
      <4> QED
        BY <3>3, <4>1, CapAssumption DEF NotesUnread
    <3>4. CASE rpc = "cleanup"
      BY <2>5, <3>1, <3>4 DEF ReceiverGoesOn, ConnectionLockFree, Deadlocked
    <3>5. CASE rpc = "recv"
      <4>1. server = "up" /\ socket = "open" /\ reply[d] \notin {"CZ", "EZ", "Z"}
        BY <3>5 DEF ReceiverGoesOn, TypeOK
      <4>2. Pipe = << >> /\ << >> # <<"Z">> /\ << >> # <<"E">> /\ << >> # <<"E", "Z">>
        BY <3>1, <3>5 DEF Pipe
      <4>3. reply[d] # "none"
        BY <2>2, <2>5 DEF StageOf
      <4>4. reply[d] # "done"
        BY <2>2, <4>2 DEF StageOf
      <4>5. reply[d] = "sent"
        BY <4>1, <4>3, <4>4 DEF TypeOK
      <4>6. pc[d] = "wait"
        BY <2>2, <2>5, <4>1, <4>5 DEF StageOf, Cut
      <4> QED
        BY <3>5, <4>1, <4>5, <4>6 DEF Unanswered
    <3> QED
      BY <3>1, <3>2, <3>3, <3>4, <3>5 DEF TypeOK
  <2> QED
    BY <2>3, <2>4, <2>5
<1> QED
  BY <1>1, Inductive, PTL
================================================================================
