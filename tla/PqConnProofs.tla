------------------------------ MODULE PqConnProofs -----------------------------
(***************************************************************************)
(* The inductive invariant of PqConn, for a user who may let calls overlap *)
(* and any number of requests under way.                                   *)
(*                                                                         *)
(* The argument is in ReplyInv: as long as calls are made one at a time,   *)
(* at most one reply is due, and the stage it is in fits the receive loop  *)
(* the driver is in, with what the loop has seen.  A loop then never meets *)
(* a message it does not know, ends on ReadyForQuery and leaves nothing    *)
(* unread.                                                                 *)
(***************************************************************************)
EXTENDS PqConn, SequenceTheorems, TLAPS

--------------------------------------------------------------------------------
(* Replies under way *)

\* What is left of a queue, and its first stage
LEMMA QueueTakes ==
  ASSUME NEW q \in Seq(Stage)
  PROVE  /\ Len(q) \in Nat
         /\ Len(<< >>) = 0 /\ << >> \in Seq(Stage) /\ First(<< >>) = "none"
         /\ q # << >> => /\ Len(q) > 0
                         /\ Tail(q) \in Seq(Stage) /\ Len(Tail(q)) = Len(q) - 1
                         /\ First(q) = Head(q) /\ Head(q) \in Stage
<1>1. Len(q) \in Nat
  BY LenProperties
<1>2. Len(<< >>) = 0 /\ << >> \in Seq(Stage) /\ First(<< >>) = "none"
  BY EmptySeq DEF First
<1>3. q # << >> => /\ Len(q) > 0
                   /\ Tail(q) \in Seq(Stage) /\ Len(Tail(q)) = Len(q) - 1
                   /\ Head(q) \in Stage
  <2>1. q # << >> => Len(q) \in Nat \ {0}
    BY EmptySeq
  <2> QED
    BY <1>1, <2>1, HeadTailProperties
<1>4. q # << >> => First(q) = Head(q)
  BY DEF First
<1> QED
  BY <1>1, <1>2, <1>3, <1>4

\* A stage put before a queue, after it, or in the place of its first one
LEMMA QueueAdds ==
  ASSUME NEW q \in Seq(Stage), NEW s \in Stage
  PROVE  /\ <<s>> \o q \in Seq(Stage) /\ Len(<<s>> \o q) = Len(q) + 1
         /\ First(<<s>> \o q) = s
         /\ Append(q, s) \in Seq(Stage) /\ Len(Append(q, s)) = Len(q) + 1
         /\ q = << >> => First(Append(q, s)) = s
<1>1. <<s>> \in Seq(Stage) /\ Len(<<s>>) = 1 /\ <<s>>[1] = s
  OBVIOUS
<1>2. /\ <<s>> \o q \in Seq(Stage) /\ Len(<<s>> \o q) = Len(q) + 1
      /\ Head(<<s>> \o q) = s
  <2>1. Len(q) \in Nat /\ <<s>> \o q \in Seq(Stage) /\ Len(<<s>> \o q) = 1 + Len(q)
    BY <1>1, LenProperties, ConcatProperties
  <2>2. (<<s>> \o q)[1] = s
    BY <1>1, <2>1, ConcatProperties
  <2> QED
    BY <2>1, <2>2
<1>3. <<s>> \o q # << >>
  BY <1>2, LenProperties, EmptySeq
<1>4. Append(q, s) \in Seq(Stage) /\ Len(Append(q, s)) = Len(q) + 1
  BY LenProperties
<1>5. q = << >> => Append(q, s) # << >> /\ Head(Append(q, s)) = s
  BY <1>4, EmptySeq
<1> QED
  BY <1>2, <1>3, <1>4, <1>5 DEF First

\* The reply to the oldest request moves on to the stage s.
LEMMA QueueMoves ==
  ASSUME NEW q \in Seq(Stage), NEW s \in Stage, q # << >>
  PROVE  /\ <<s>> \o Tail(q) \in Seq(Stage) /\ Len(<<s>> \o Tail(q)) = Len(q)
         /\ First(<<s>> \o Tail(q)) = s
<1>1. Tail(q) \in Seq(Stage) /\ Len(Tail(q)) = Len(q) - 1 /\ Len(q) \in Nat
  BY QueueTakes
<1>2. /\ <<s>> \o Tail(q) \in Seq(Stage) /\ Len(<<s>> \o Tail(q)) = Len(Tail(q)) + 1
      /\ First(<<s>> \o Tail(q)) = s
  BY <1>1, QueueAdds
<1> QED
  BY <1>1, <1>2

\* A request makes the queue longer by one at most, and is alone where nothing was due.
LEMMA RequestStep ==
  ASSUME TypeOK, NEW s \in Stage, Request(s)
  PROVE  /\ queue' \in Seq(Stage) /\ Len(queue') <= Len(queue) + 1
         /\ Owed = "none" => Len(queue') <= 1 /\ First(queue') = s
<1>1. queue \in Seq(Stage) /\ Len(queue) \in Nat
  BY QueueTakes DEF TypeOK
<1>2. CASE queue # << >> /\ Head(queue) = "IN"
  <2>1. queue' = <<"INF">> \o Tail(queue) /\ "INF" \in Stage /\ Owed = "IN"
    BY <1>2 DEF Request, Stage, Owed, First
  <2> QED
    BY <1>1, <1>2, <2>1, QueueMoves
<1>3. CASE ~(queue # << >> /\ Head(queue) = "IN")
  <2>1. queue' = Append(queue, s)
    BY <1>3 DEF Request
  <2>2. Owed = "none" => queue = << >> /\ Len(queue) = 0
    BY <1>1, QueueTakes DEF Owed, Stage
  <2>3. /\ Append(queue, s) \in Seq(Stage) /\ Len(Append(queue, s)) = Len(queue) + 1
        /\ queue = << >> => First(Append(queue, s)) = s
    BY <1>1, QueueAdds
  <2> QED
    BY <1>1, <2>1, <2>2, <2>3
<1> QED
  BY <1>2, <1>3

\* The end of the data moves on a COPY FROM, and nothing else.
LEMMA EndCopyStep ==
  ASSUME TypeOK, NEW s \in Stage, EndCopy(s)
  PROVE  /\ queue' \in Seq(Stage) /\ Len(queue') = Len(queue)
         /\ First(queue') = IF Owed = "IN" THEN s ELSE Owed
<1>1. queue \in Seq(Stage) /\ Len(queue) \in Nat
  BY QueueTakes DEF TypeOK
<1>2. Owed = "IN" <=> queue # << >> /\ Head(queue) = "IN"
  BY DEF Owed, First
<1>3. CASE Owed = "IN"
  BY <1>1, <1>2, <1>3, QueueMoves DEF EndCopy
<1>4. CASE Owed # "IN"
  BY <1>1, <1>2, <1>4 DEF EndCopy, Owed
<1> QED
  BY <1>3, <1>4

\* What is read is what was saved, or a message of the reply
LEMMA ReceivedSaved ==
  ASSUME NEW m \in Incoming, saved # "none"
  PROVE  m.t = saved /\ m.queue = queue /\ m.txn = txn /\ m.up = up
  BY DEF Incoming, Message

\* A new message goes with the reply that is due, is an error in it, or the last of
\* the session.
LEMMA ReceivedNew ==
  ASSUME NEW m \in Incoming, saved = "none"
  PROVE  /\ up /\ queue # << >>
         /\ \/ m.up = FALSE /\ m.t = "E" /\ m.queue = << >> /\ m.txn = txn
            \/ /\ m.up = TRUE /\ m.txn \in Txns(Head(queue), m.t)
               /\ \E next \in Stage \cup {"none"} :
                    <<Head(queue), m.t, next>> \in Replies /\ m.queue = Then(next)
            \/ /\ m.up = TRUE /\ Head(queue) \in CanFail /\ m.t = "E" /\ m.txn = Failed(Head(queue))
               /\ m.queue = Then("Z")
<1> DEFINE s == Head(queue)
<1>1. up /\ queue # << >> /\ m \in Answers(s)
  BY DEF Incoming
<1> HIDE DEF s
<1>2. \/ m \in Usual(s)
      \/ s \in CanFail /\ m = Message("E", Then("Z"), Failed(s), TRUE)
      \/ m = Message("E", << >>, txn, FALSE)
  BY <1>1 DEF Answers
<1>3. ASSUME m \in Usual(s)
      PROVE  /\ m.up = TRUE /\ m.txn \in Txns(s, m.t)
             /\ \E next \in Stage \cup {"none"} : <<s, m.t, next>> \in Replies /\ m.queue = Then(next)
  <2>1. PICK r \in Replies : r[1] = s /\ \E x \in Txns(s, r[2]) : m = Message(r[2], Then(r[3]), x, TRUE)
    BY <1>3 DEF Usual
  <2>2. r = <<r[1], r[2], r[3]>> /\ r[3] \in Stage \cup {"none"}
    BY DEF Replies, Stage
  <2>3. m.up = TRUE /\ m.txn \in Txns(s, m.t) /\ m.t = r[2] /\ m.queue = Then(r[3])
    BY <2>1 DEF Message
  <2> QED
    BY <2>1, <2>2, <2>3
<1>4. ASSUME s \in CanFail, m = Message("E", Then("Z"), Failed(s), TRUE)
      PROVE  m.up = TRUE /\ m.t = "E" /\ m.txn = Failed(s) /\ m.queue = Then("Z")
  BY <1>4 DEF Message
<1>5. ASSUME m = Message("E", << >>, txn, FALSE)
      PROVE  m.up = FALSE /\ m.t = "E" /\ m.queue = << >> /\ m.txn = txn
  BY <1>5 DEF Message
<1> QED
  BY <1>1, <1>2, <1>3, <1>4, <1>5 DEF s

\* The messages there are
Sent ==
  Complete \cup
    {"T", "D", "I", "E", "1", "t", "n", "2", "3", "G", "Gb", "H", "d", "c", "R", "R3", "S", "Z"}

\* The queue when the reply has moved on
LEMMA ThenType ==
  ASSUME queue \in Seq(Stage), queue # << >>, NEW next \in Stage \cup {"none"}
  PROVE  /\ Then(next) \in Seq(Stage)
         /\ Len(Then(next)) <= Len(queue)
         /\ IF next = "none" THEN Len(Then(next)) < Len(queue) ELSE Then(next) # << >>
         /\ Len(queue) <= 1 => First(Then(next)) = next
<1>1. /\ Tail(queue) \in Seq(Stage) /\ Len(Tail(queue)) = Len(queue) - 1 /\ Len(queue) \in Nat
      /\ Len(queue) > 0 /\ Len(Tail(queue)) \in Nat
  BY QueueTakes
<1>2. CASE next = "none"
  <2>1. Len(queue) <= 1 => Tail(queue) = << >>
    BY <1>1, QueueTakes
  <2> QED
    <3>1. Then(next) = Tail(queue)
      BY <1>2 DEF Then
    <3> QED
      BY <1>1, <1>2, <2>1, <3>1, QueueTakes
<1>3. CASE next \in Stage
  <2>1. next # "none"
    BY <1>3 DEF Stage
  <2> QED
    <3>1. Then(next) = <<next>> \o Tail(queue)
      BY <2>1 DEF Then
    <3>2. /\ Then(next) \in Seq(Stage) /\ Len(Then(next)) = Len(Tail(queue)) + 1
          /\ First(Then(next)) = next
      BY <1>1, <1>3, <3>1, QueueAdds
    <3> QED
      BY <1>1, <2>1, <3>2, QueueTakes
<1> QED
  BY <1>2, <1>3

\* The type of a message, and what it does to the queue
LEMMA ReceivedType ==
  ASSUME TypeOK, NEW m \in Incoming
  PROVE  /\ m.t \in Sent /\ m.txn \in TxnStatus
         /\ m.queue \in Seq(Stage) /\ Len(m.queue) <= Len(queue)
         /\ m.up \in BOOLEAN /\ (m.up => up)
         /\ m.t \notin Complete \cup {"D", "I"} => saved = "none" /\ queue # << >>
         /\ m.t = "Z" => Len(m.queue) < Len(queue)
         /\ m.t \in {"Gb", "H"} => m.queue # << >>
<1>1. /\ queue \in Seq(Stage) /\ Len(queue) \in Nat /\ saved \in Complete \cup {"none", "D", "I"}
      /\ txn \in TxnStatus /\ up \in BOOLEAN
  BY QueueTakes DEF TypeOK
<1>2. CASE saved # "none"
  BY <1>1, <1>2, ReceivedSaved DEF Sent, Complete
<1>3. CASE saved = "none"
  <2>1. up /\ queue # << >>
    BY <1>3, ReceivedNew
  <2>5. m.up \in BOOLEAN
    BY <1>3, ReceivedNew
  <2>2. ASSUME m.t = "E", m.queue = << >>, m.txn = txn
        PROVE  /\ m.t \in Sent /\ m.txn \in TxnStatus
               /\ m.queue \in Seq(Stage) /\ Len(m.queue) <= Len(queue)
    BY <1>1, <1>3, <2>1, <2>2, QueueTakes DEF Sent
  <2>3. ASSUME m.up = TRUE, m.txn \in Txns(Head(queue), m.t),
               NEW next \in Stage \cup {"none"},
               <<Head(queue), m.t, next>> \in Replies, m.queue = Then(next)
        PROVE  /\ m.t \in Sent /\ m.txn \in TxnStatus
               /\ m.queue \in Seq(Stage) /\ Len(m.queue) <= Len(queue)
               /\ m.t = "Z" => Len(m.queue) < Len(queue)
               /\ m.t \in {"Gb", "H"} => m.queue # << >>
    <3>1. m.t \in Sent /\ (m.t = "Z" => next = "none") /\ (m.t \in {"Gb", "H"} => next # "none")
      BY <2>3 DEF Replies, Sent, Complete
    <3>2. m.txn \in TxnStatus
      BY <2>3 DEF Txns
    <3> QED
      BY <1>1, <2>1, <2>3, <3>1, <3>2, ThenType
  <2>4. ASSUME m.up = TRUE, m.t = "E", m.txn = Failed(Head(queue)), m.queue = Then("Z")
        PROVE  /\ m.t \in Sent /\ m.txn \in TxnStatus
               /\ m.queue \in Seq(Stage) /\ Len(m.queue) <= Len(queue)
    BY <1>1, <2>1, <2>4, ThenType DEF Stage, Sent, Failed, TxnStatus
  <2> QED
    BY <1>3, <2>1, <2>2, <2>3, <2>4, <2>5, ReceivedNew
<1> QED
  BY <1>2, <1>3

\* Where one reply is due at most, a new message is of it.
LEMMA ReplyStep ==
  ASSUME TypeOK, NEW m \in Incoming, Len(queue) <= 1, saved = "none"
  PROVE  /\ Len(m.queue) <= 1 /\ Owed \in Stage /\ up /\ queue # << >>
         /\ ~m.up => m.t = "E"
         /\ m.up =>
              \/ <<Owed, m.t, First(m.queue)>> \in Replies /\ m.txn \in Txns(Owed, m.t)
              \/ m.t = "E" /\ Owed \in CanFail /\ First(m.queue) = "Z" /\ m.txn = Failed(Owed)
<1>1. queue \in Seq(Stage) /\ queue # << >> /\ up
  BY ReceivedNew DEF TypeOK
<1>2. m.queue \in Seq(Stage) /\ Len(m.queue) <= Len(queue)
  BY ReceivedType
<1>3. Len(queue) \in Nat /\ Len(m.queue) \in Nat
  BY <1>1, <1>2, QueueTakes
<1>4. Len(m.queue) <= 1
  BY <1>2, <1>3
<1>5. Owed = Head(queue) /\ Owed \in Stage
  BY <1>1, QueueTakes DEF Owed
<1>6. \A next \in Stage \cup {"none"} : First(Then(next)) = next
  BY <1>1, ThenType
<1>7. "Z" \in Stage
  BY DEF Stage
<1> QED
  BY <1>1, <1>4, <1>5, <1>6, <1>7, ReceivedNew
\* The message t in the stage s leads to the stage n.
Follows(s, t, n) ==
  /\ s \notin {"IN", "INF", "PW"} /\ s \in Stage
  /\ s = "BEGIN" => t = "BEGIN" /\ n = "Z"
  /\ s = "COMMIT" => t \in {"COMMIT", "ROLLBACK"} /\ n = "Z"
  /\ s = "ROLLBACK" => t = "ROLLBACK" /\ n = "Z"
  /\ s = "S2" =>
       \/ t = "C" /\ n = "S1"
       \/ t = "T" /\ n = "R1"
  /\ s = "R1" =>
       \/ t = "D" /\ n = "R1"
       \/ t = "C" /\ n = "S1"
  /\ s = "S1" =>
       \/ t \in {"C", "I"} /\ n = "Z"
       \/ t = "T" /\ n = "R0"
  /\ s = "R0" =>
       \/ t = "D" /\ n = "R0"
       \/ t = "C" /\ n = "Z"
  /\ s = "P" => t = "1" /\ n = "P1"
  /\ s = "P1" => t = "t" /\ n = "P2"
  /\ s = "P2" => t \in {"T", "n"} /\ n = "Z"
  /\ s = "B" => t = "2" /\ n = "X"
  /\ s = "X" =>
       \/ t = "D" /\ n = "X"
       \/ t \in {"C", "I"} /\ n = "Z"
  /\ s = "CL" => t = "3" /\ n = "Z"
  /\ s = "COPY" =>
       \/ t \in {"G", "Gb"} /\ n = "IN"
       \/ t = "H" /\ n = "OUT"
       \/ t = "C" /\ n = "Z"
  /\ s = "IND" => t = "C" /\ n = "Z"
  /\ s = "OUT" =>
       \/ t = "d" /\ n = "OUT"
       \/ t = "c" /\ n = "OUTC"
  /\ s = "OUTC" => t = "C" /\ n = "Z"
  /\ s = "ST" =>
       \/ t = "R" /\ n = "ST1"
       \/ t = "R3" /\ n = "PW"
  /\ s = "PWD" => t = "R" /\ n = "ST1"
  /\ s = "ST1" =>
       \/ t = "S" /\ n = "ST1"
       \/ t = "Z" /\ n = "none"
  /\ s = "Z" => t = "Z" /\ n = "none"

\* A message that is read was saved or is of the reply that is due.
LEMMA FitStep ==
  ASSUME TypeOK, RepliesFit, NEW m \in Incoming
  PROVE  /\ Len(m.queue) <= 1
         /\ \/ /\ saved # "none" /\ m.t = saved
               /\ m.queue = queue /\ m.txn = txn /\ m.up = up
            \/ /\ saved = "none" /\ Owed # "none"
               /\ ~m.up => m.t = "E"
               /\ m.up =>
                    \/ Follows(Owed, m.t, First(m.queue)) /\ m.txn \in Txns(Owed, m.t)
                    \/ m.t = "E" /\ Owed \in CanFail /\ First(m.queue) = "Z" /\ m.txn = Failed(Owed)
<1>1. Len(queue) <= 1
  BY DEF RepliesFit
<1>2. CASE saved # "none"
  BY <1>1, <1>2, ReceivedSaved
<1>3. CASE saved = "none"
  <2>1. Owed # "none"
    BY <1>1, <1>3, ReplyStep DEF Stage
  <2>2. \A s, t, n : <<s, t, n>> \in Replies => Follows(s, t, n)
    BY DEF Replies, Follows, Stage
  <2>3. m.up => \/ <<Owed, m.t, First(m.queue)>> \in Replies /\ m.txn \in Txns(Owed, m.t)
                \/ m.t = "E" /\ Owed \in CanFail /\ First(m.queue) = "Z" /\ m.txn = Failed(Owed)
    BY <1>1, <1>3, ReplyStep
  <2> QED
    BY <1>1, <1>3, <2>1, <2>2, <2>3, ReplyStep
<1> QED
  BY <1>2, <1>3

--------------------------------------------------------------------------------
(* The locals of a receive loop *)

Locals == [err : BOOLEAN, res : {"nil", "rows", "done"}, tag : Complete \cup {"none"}]

\* What a loop makes of its locals
LEMMA LocalsStep ==
  ASSUME TypeOK
  PROVE  /\ got \in Locals /\ got.err \in BOOLEAN
         /\ Fresh \in Locals /\ Fresh.err = FALSE /\ Fresh.tag = "none"
         /\ OnlyErr \in Locals /\ OnlyErr.err = TRUE
         /\ Err \in Locals /\ Err.err = TRUE
         /\ \A t \in Complete : Tagged(t) \in Locals /\ Tagged(t).err = got.err /\ Tagged(t).tag = t
         /\ \A r \in {"rows", "done"} :
              HasResult(r) \in Locals /\ HasResult(r).err = got.err /\ HasResult(r).res = r
<1>1. got \in [err : BOOLEAN, res : {"nil", "rows", "done"}, tag : Complete \cup {"none"}]
  BY DEF TypeOK
<1>2. got \in Locals /\ got.err \in BOOLEAN
  BY <1>1 DEF Locals
<1>3. Fresh \in Locals /\ Fresh.err = FALSE /\ Fresh.tag = "none"
  BY DEF Fresh, Locals
<1>4. OnlyErr \in Locals /\ OnlyErr.err = TRUE
  BY DEF OnlyErr, Fresh, Locals
<1>5. Err \in Locals /\ Err.err = TRUE
  BY <1>1 DEF Err, Locals
<1>6. ASSUME NEW t \in Complete
      PROVE  Tagged(t) \in Locals /\ Tagged(t).err = got.err /\ Tagged(t).tag = t
  BY <1>1, <1>6 DEF Tagged, Locals
<1>7. ASSUME NEW r \in {"rows", "done"}
      PROVE  HasResult(r) \in Locals /\ HasResult(r).err = got.err /\ HasResult(r).res = r
  BY <1>1, <1>7 DEF HasResult, Locals
<1> QED
  BY <1>2, <1>3, <1>4, <1>5, <1>6, <1>7

--------------------------------------------------------------------------------
(* The steps *)

Loops == {"simpleExec", "simpleQuery", "prepareTo", "bind", "stClose", "awaitCopy"}

\* The calls that send a request: name, receive loop, request
Sends(name, lp, s) ==
  \/ name = "Begin" /\ lp = "simpleExec" /\ s = "BEGIN" /\ ~InTransaction(status)
  \/ name = "Commit" /\ lp = "simpleExec" /\ s = "COMMIT" /\ status = "T"
  \/ /\ name \in {"Rollback", "CommitRollback"} /\ lp = "simpleExec" /\ s = "ROLLBACK"
     /\ InTransaction(status)
  \/ name = "Exec" /\ lp = "simpleExec" /\ s \in {"S1", "S2"}
  \/ name = "Query" /\ lp = "simpleQuery" /\ s \in {"S1", "S2"} /\ rows = "none"
  \/ name = "QueryArgs" /\ lp = "prepareTo" /\ s = "P" /\ rows = "none"
  \/ name \in {"ExecArgs", "Prepare"} /\ lp = "prepareTo" /\ s = "P"
  \/ name = "StmtQuery" /\ lp = "bind" /\ s = "B" /\ rows = "none"
  \/ name = "StmtExec" /\ lp = "bind" /\ s = "B"
  \/ name = "StmtClose" /\ lp = "stClose" /\ s = "CL"
  \/ name = "PrepareCopy" /\ lp = "awaitCopy" /\ s = "COPY"

\* A step is one of these.
LEMMA Steps ==
  [Next]_vars =>
    \/ Dial
    \/ Ssl
    \/ \E name \in Call, b \in BOOLEAN : Misused(name, b)
    \/ \E name \in Call, lp \in Loops, s \in Stage : Sends(name, lp, s) /\ Send(name, lp, s)
    \/ \E name \in {"Next", "RowsClose"} : RowsCall(name)
    \/ RowsCloseDone
    \/ OnBad
    \/ Close
    \/ RecvFails
    \/ \E m \in Incoming : Startup(m)
    \/ \E m \in Incoming : AskPassword(m)
    \/ \E m \in Incoming : Auth(m)
    \/ \E m \in Incoming : SimpleExec(m)
    \/ \E m \in Incoming : SimpleQuery(m)
    \/ \E m \in Incoming : PrepareTo(m)
    \/ \E m \in Incoming : Bind(m)
    \/ \E m \in Incoming : Workaround(m)
    \/ \E m \in Incoming : StExec(m)
    \/ \E m \in Incoming : StClose(m)
    \/ \E m \in Incoming : Rows(m)
    \/ \E m \in Incoming : AwaitCopy(m)
    \/ \E m \in Incoming : CopyFail(m)
    \/ \E m \in Incoming : RespLoop(m)
    \/ \E name \in {"CopySync", "CopyClose"} : CopyCall(name)
    \/ CopyExec
    \/ CopyDone
    \/ CopyClosed
    \/ RespAsync
    \/ RespFails
    \/ Lose
    \/ UNCHANGED vars
<1> DEFINE Sending == \E name \in Call, lp \in Loops, s \in Stage : Sends(name, lp, s) /\ Send(name, lp, s)
<1> DEFINE Misuse == \E name \in Call, b \in BOOLEAN : Misused(name, b)
<1>s. ASSUME NEW name \in Call, NEW lp \in Loops, NEW s \in Stage, Sends(name, lp, s), Send(name, lp, s)
      PROVE  Sending
  BY <1>s
<1>m. ASSUME NEW name \in Call, NEW b \in BOOLEAN, Misused(name, b)
      PROVE  Misuse
  BY <1>m
<1> HIDE DEF Sending, Misuse
<1>1. Begin => Misuse \/ Sending
  BY <1>s, <1>m DEF Begin, Sends, Call, Loops, Stage
<1>2. Commit => Misuse \/ Sending
  BY <1>s, <1>m DEF Commit, Sends, Call, Loops, Stage, InTransaction
<1>3. Rollback => Misuse \/ Sending
  BY <1>s, <1>m DEF Rollback, Sends, Call, Loops, Stage
<1>4. Exec => Sending
  BY <1>s DEF Exec, Sends, Call, Loops, Stage
<1>5. Query => Sending
  BY <1>s DEF Query, Sends, Call, Loops, Stage
<1>6. QueryArgs => Sending
  BY <1>s DEF QueryArgs, Sends, Call, Loops, Stage
<1>7. ExecArgs => Sending
  BY <1>s DEF ExecArgs, Sends, Call, Loops, Stage
<1>8. Prepare => Sending
  BY <1>s DEF Prepare, Sends, Call, Loops, Stage
<1>9. StmtQuery => Sending
  BY <1>s DEF StmtQuery, Sends, Call, Loops, Stage
<1>10. StmtExec => Sending
  BY <1>s DEF StmtExec, Sends, Call, Loops, Stage
<1>11. StmtClose => Sending
  BY <1>s DEF StmtClose, Sends, Call, Loops, Stage
<1>12. PrepareCopy => Sending
  BY <1>s DEF PrepareCopy, Sends, Call, Loops, Stage, InTransaction
<1> QED
  BY <1>1, <1>2, <1>3, <1>4, <1>5, <1>6, <1>7, <1>8, <1>9, <1>10, <1>11, <1>12 DEF
     Next, Receive, Sending, Misuse

--------------------------------------------------------------------------------
(* The type invariant, and what never goes back *)

\* What the user has done stays, and a lost or bad connection is never good again.
LEMMA Monotone ==
  ASSUME TypeOK, [Next]_vars
  PROVE  excuse \subseteq excuse' /\ (up' => up) /\ (bad => bad')
<1> USE DEF conn, user, copyin, server, Read, Continue, GoOn, Return, Outcome, Fails,
            Assert, Ready, Complete
<1>r. \A m \in Incoming : m.up => up
  BY ReceivedType
<1>k. \A s \in Stage \cup {"ST", "IND"} :
         /\ Request(s) => erred' = FALSE /\ committed' = FALSE /\ txn' = txn /\ up' = up
         /\ EndCopy(s) => UNCHANGED <<txn, up, erred, committed>>
  BY DEF Request, EndCopy
<1>1. CASE Dial
  BY <1>1, <1>k DEF Dial, OpenFails
<1>2. CASE Ssl
  <2>1. UNCHANGED server => queue' = queue /\ txn' = txn /\ up' = up /\ erred' = erred /\ committed' = committed
    OBVIOUS
  <2> HIDE DEF server
  <2> QED
    BY <1>2, <1>k, <2>1 DEF Ssl, OpenFails
<1>3. ASSUME NEW name \in Call, NEW b \in BOOLEAN, Misused(name, b)
      PROVE  excuse \subseteq excuse' /\ (up' => up) /\ (bad => bad')
  BY <1>3 DEF Misused
<1>4. ASSUME NEW name \in Call, NEW lp \in Loops, NEW s \in Stage, Sends(name, lp,
   s), Send(name, lp, s)
      PROVE  excuse \subseteq excuse' /\ (up' => up) /\ (bad => bad')
  BY <1>4, <1>k DEF Send, Sends
<1>5. ASSUME NEW name \in {"Next", "RowsClose"}, RowsCall(name)
      PROVE  excuse \subseteq excuse' /\ (up' => up) /\ (bad => bad')
  BY <1>5 DEF RowsCall
<1>6. CASE RowsCloseDone
  BY <1>6 DEF RowsCloseDone
<1>7. CASE OnBad
  BY <1>7 DEF OnBad
<1>8. CASE Close
  BY <1>8 DEF Close
<1>9. CASE RecvFails
  BY <1>9 DEF RecvFails
<1>10. ASSUME NEW m \in Incoming, Startup(m)
      PROVE  excuse \subseteq excuse' /\ (up' => up) /\ (bad => bad')
  BY <1>10, <1>r DEF Startup, OpenFails
<1>11. ASSUME NEW m \in Incoming, AskPassword(m)
      PROVE  excuse \subseteq excuse' /\ (up' => up) /\ (bad => bad')
  BY <1>11, <1>r DEF AskPassword, OpenFails
<1>12. ASSUME NEW m \in Incoming, Auth(m)
      PROVE  excuse \subseteq excuse' /\ (up' => up) /\ (bad => bad')
  BY <1>12, <1>r DEF Auth, OpenFails
<1>13. ASSUME NEW m \in Incoming, SimpleExec(m)
      PROVE  excuse \subseteq excuse' /\ (up' => up) /\ (bad => bad')
  BY <1>13, <1>r DEF SimpleExec, Verdict, Doomed, Succeeds
<1>14. ASSUME NEW m \in Incoming, SimpleQuery(m)
      PROVE  excuse \subseteq excuse' /\ (up' => up) /\ (bad => bad')
  BY <1>14, <1>r DEF SimpleQuery
<1>15. ASSUME NEW m \in Incoming, PrepareTo(m)
      PROVE  excuse \subseteq excuse' /\ (up' => up) /\ (bad => bad')
  BY <1>15, <1>r DEF PrepareTo
<1>16. ASSUME NEW m \in Incoming, Bind(m)
      PROVE  excuse \subseteq excuse' /\ (up' => up) /\ (bad => bad')
  BY <1>16, <1>r DEF Bind, Executed
<1>17. ASSUME NEW m \in Incoming, Workaround(m)
      PROVE  excuse \subseteq excuse' /\ (up' => up) /\ (bad => bad')
  BY <1>17, <1>r DEF Workaround, Executed
<1>18. ASSUME NEW m \in Incoming, StExec(m)
      PROVE  excuse \subseteq excuse' /\ (up' => up) /\ (bad => bad')
  BY <1>18, <1>r DEF StExec
<1>19. ASSUME NEW m \in Incoming, StClose(m)
      PROVE  excuse \subseteq excuse' /\ (up' => up) /\ (bad => bad')
  BY <1>19, <1>r DEF StClose
<1>20. ASSUME NEW m \in Incoming, Rows(m)
      PROVE  excuse \subseteq excuse' /\ (up' => up) /\ (bad => bad')
  BY <1>20, <1>r DEF Rows
<1>21. ASSUME NEW m \in Incoming, AwaitCopy(m)
      PROVE  excuse \subseteq excuse' /\ (up' => up) /\ (bad => bad')
  BY <1>21, <1>r DEF AwaitCopy
<1>22. ASSUME NEW m \in Incoming, CopyFail(m)
      PROVE  excuse \subseteq excuse' /\ (up' => up) /\ (bad => bad')
  BY <1>22, <1>r DEF CopyFail
<1>23. ASSUME NEW m \in Incoming, RespLoop(m)
      PROVE  excuse \subseteq excuse' /\ (up' => up) /\ (bad => bad')
  BY <1>23, <1>r DEF RespLoop, RespEnds
<1>24. ASSUME NEW name \in {"CopySync", "CopyClose"}, CopyCall(name)
      PROVE  excuse \subseteq excuse' /\ (up' => up) /\ (bad => bad')
  BY <1>24, <1>k DEF CopyCall
<1>25. CASE CopyExec
  BY <1>25 DEF CopyExec
<1>26. CASE CopyDone
  BY <1>26 DEF CopyDone
<1>27. CASE CopyClosed
  BY <1>27 DEF CopyClosed
<1>28. CASE RespAsync
  BY <1>28 DEF RespAsync, RespEnds
<1>29. CASE RespFails
  BY <1>29 DEF RespFails, RespEnds
<1>30. CASE Lose
  BY <1>30 DEF Lose
<1>31. CASE UNCHANGED vars
  BY <1>31 DEF vars
<1> QED
  BY <1>1, <1>2, <1>3, <1>4, <1>5, <1>6, <1>7, <1>8, <1>9, <1>10, <1>11, <1>12,
     <1>13, <1>14, <1>15, <1>16, <1>17, <1>18, <1>19, <1>20, <1>21, <1>22, <1>23,
     <1>24, <1>25, <1>26, <1>27, <1>28, <1>29, <1>30, <1>31, Steps

\* What the user may have done
LEMMA TypeExcuseStep ==
  ASSUME TypeOK, [Next]_vars
  PROVE  excuse' \subseteq {"cut", "overlap", "misuse", "unknown"}
<1> USE DEF conn, user, copyin, server
<1>t. excuse \subseteq {"cut", "overlap", "misuse", "unknown"}
  BY DEF TypeOK
<1>1. CASE Dial
  BY <1>1, <1>t DEF Dial, OpenFails
<1>2. CASE Ssl
  BY <1>2, <1>t DEF Ssl, OpenFails
<1>3. ASSUME NEW name \in Call, NEW b \in BOOLEAN, Misused(name, b)
      PROVE  excuse' \subseteq {"cut", "overlap", "misuse", "unknown"}
  BY <1>3, <1>t DEF Misused
<1>4. ASSUME NEW name \in Call, NEW lp \in Loops, NEW s \in Stage, Sends(name, lp,
   s), Send(name, lp, s)
      PROVE  excuse' \subseteq {"cut", "overlap", "misuse", "unknown"}
  BY <1>4, <1>t DEF Send, Sends
<1>5. ASSUME NEW name \in {"Next", "RowsClose"}, RowsCall(name)
      PROVE  excuse' \subseteq {"cut", "overlap", "misuse", "unknown"}
  BY <1>5, <1>t DEF RowsCall
<1>6. CASE RowsCloseDone
  BY <1>6, <1>t DEF RowsCloseDone
<1>7. CASE OnBad
  BY <1>7, <1>t DEF OnBad
<1>8. CASE Close
  BY <1>8, <1>t DEF Close
<1>9. CASE RecvFails
  BY <1>9, <1>t DEF RecvFails
<1>10. ASSUME NEW m \in Incoming, Startup(m)
      PROVE  excuse' \subseteq {"cut", "overlap", "misuse", "unknown"}
  BY <1>10, <1>t DEF Startup, OpenFails
<1>11. ASSUME NEW m \in Incoming, AskPassword(m)
      PROVE  excuse' \subseteq {"cut", "overlap", "misuse", "unknown"}
  BY <1>11, <1>t DEF AskPassword, OpenFails
<1>12. ASSUME NEW m \in Incoming, Auth(m)
      PROVE  excuse' \subseteq {"cut", "overlap", "misuse", "unknown"}
  BY <1>12, <1>t DEF Auth, OpenFails
<1>13. ASSUME NEW m \in Incoming, SimpleExec(m)
      PROVE  excuse' \subseteq {"cut", "overlap", "misuse", "unknown"}
  BY <1>13, <1>t DEF SimpleExec, Verdict, Doomed, Succeeds
<1>14. ASSUME NEW m \in Incoming, SimpleQuery(m)
      PROVE  excuse' \subseteq {"cut", "overlap", "misuse", "unknown"}
  BY <1>14, <1>t DEF SimpleQuery
<1>15. ASSUME NEW m \in Incoming, PrepareTo(m)
      PROVE  excuse' \subseteq {"cut", "overlap", "misuse", "unknown"}
  BY <1>15, <1>t DEF PrepareTo
<1>16. ASSUME NEW m \in Incoming, Bind(m)
      PROVE  excuse' \subseteq {"cut", "overlap", "misuse", "unknown"}
  BY <1>16, <1>t DEF Bind, Executed
<1>17. ASSUME NEW m \in Incoming, Workaround(m)
      PROVE  excuse' \subseteq {"cut", "overlap", "misuse", "unknown"}
  BY <1>17, <1>t DEF Workaround, Executed
<1>18. ASSUME NEW m \in Incoming, StExec(m)
      PROVE  excuse' \subseteq {"cut", "overlap", "misuse", "unknown"}
  BY <1>18, <1>t DEF StExec
<1>19. ASSUME NEW m \in Incoming, StClose(m)
      PROVE  excuse' \subseteq {"cut", "overlap", "misuse", "unknown"}
  BY <1>19, <1>t DEF StClose
<1>20. ASSUME NEW m \in Incoming, Rows(m)
      PROVE  excuse' \subseteq {"cut", "overlap", "misuse", "unknown"}
  BY <1>20, <1>t DEF Rows, Read
<1>21. ASSUME NEW m \in Incoming, AwaitCopy(m)
      PROVE  excuse' \subseteq {"cut", "overlap", "misuse", "unknown"}
  BY <1>21, <1>t DEF AwaitCopy
<1>22. ASSUME NEW m \in Incoming, CopyFail(m)
      PROVE  excuse' \subseteq {"cut", "overlap", "misuse", "unknown"}
  BY <1>22, <1>t DEF CopyFail
<1>23. ASSUME NEW m \in Incoming, RespLoop(m)
      PROVE  excuse' \subseteq {"cut", "overlap", "misuse", "unknown"}
  BY <1>23, <1>t DEF RespLoop, RespEnds
<1>24. ASSUME NEW name \in {"CopySync", "CopyClose"}, CopyCall(name)
      PROVE  excuse' \subseteq {"cut", "overlap", "misuse", "unknown"}
  BY <1>24, <1>t DEF CopyCall
<1>25. CASE CopyExec
  BY <1>25, <1>t DEF CopyExec
<1>26. CASE CopyDone
  BY <1>26, <1>t DEF CopyDone
<1>27. CASE CopyClosed
  BY <1>27, <1>t DEF CopyClosed
<1>28. CASE RespAsync
  BY <1>28, <1>t DEF RespAsync, RespEnds
<1>29. CASE RespFails
  BY <1>29, <1>t DEF RespFails, RespEnds
<1>30. CASE Lose
  BY <1>30, <1>t DEF Lose
<1>31. CASE UNCHANGED vars
  BY <1>31, <1>t DEF vars
<1> QED
  BY <1>1, <1>2, <1>3, <1>4, <1>5, <1>6, <1>7, <1>8, <1>9, <1>10, <1>11, <1>12,
     <1>13, <1>14, <1>15, <1>16, <1>17, <1>18, <1>19, <1>20, <1>21, <1>22, <1>23,
     <1>24, <1>25, <1>26, <1>27, <1>28, <1>29, <1>30, <1>31, Steps

\* The parts of the type invariant that are not about booleans or the queue
TypeStrings ==
  /\ op \in Call \cup {"none", "closed", "leaked"}
  /\ loop \in {"none", "dial", "ssl", "startup", "auth", "simpleExec", "simpleQuery", "prepareTo",
               "bind", "workaround", "stExec", "stClose", "stCloseZ", "next", "awaitCopy",
               "copyFail", "done"}
  /\ got \in Locals
  /\ result \in [call : Call, value : {"none", "ok", "row", "error", "badconn"}]
  /\ saved \in Complete \cup {"none", "D", "I"}
  /\ status \in TxnStatus
  /\ rows \in {"none", "open", "done"} /\ stmt \in {"none", "open"}
  /\ copy \in {"none", "open", "closed"}
  /\ resp \in {"off", "run"}
  /\ txn \in TxnStatus

TypeBooleans ==
  /\ bad \in BOOLEAN /\ deadline \in BOOLEAN /\ ciErr \in BOOLEAN /\ done \in BOOLEAN
  /\ up \in BOOLEAN /\ erred \in BOOLEAN /\ committed \in BOOLEAN

TypeQueue == queue \in Seq(Stage) /\ Len(queue) <= MaxQueue

\* The variables of a small type keep it.
LEMMA TypeStringsStep ==
  ASSUME TypeOK, PlaceInv, [Next]_vars
  PROVE  TypeStrings'
<1> USE DEF conn, user, copyin, server, Read, Continue, GoOn, Return, Outcome, Fails,
            Assert, Ready, Complete, Call, TxnStatus
<1>t. TypeStrings /\ (op \in {"none", "closed", "leaked"} <=> loop = "none")
  BY DEF TypeOK, TypeStrings, PlaceInv, Locals
<1>r. \A m \in Incoming : m.t \in Sent /\ m.txn \in TxnStatus
  BY ReceivedType
<1>q. op \in Call \/ loop = "none"
  BY <1>t DEF TypeStrings
<1>g. /\ Fresh \in Locals /\ OnlyErr \in Locals /\ Err \in Locals
      /\ \A t \in Complete : Tagged(t) \in Locals
      /\ \A r \in {"rows", "done"} : HasResult(r) \in Locals
  BY LocalsStep
<1>k. \A s \in Stage \cup {"ST", "IND"} :
         /\ Request(s) => erred' = FALSE /\ committed' = FALSE /\ txn' = txn /\ up' = up
         /\ EndCopy(s) => UNCHANGED <<txn, up, erred, committed>>
  BY DEF Request, EndCopy
<1>1. CASE Dial
  BY <1>1, <1>t, <1>q, <1>g, <1>k DEF Dial, OpenFails, TypeStrings
<1>2. CASE Ssl
  <2>1. CASE OpenFails /\ UNCHANGED server /\ UNCHANGED <<saved, copyin, excuse>>
    BY <1>t, <1>g, <2>1 DEF OpenFails, TypeStrings
  <2>2. CASE /\ loop' = "startup" /\ Request("ST")
             /\ UNCHANGED <<op, got, result, bad, status, deadline, user>>
             /\ UNCHANGED <<saved, copyin, excuse>>
    BY <1>t, <1>k, <2>2 DEF TypeStrings
  <2> QED
    BY <1>2, <2>1, <2>2 DEF Ssl
<1>3. ASSUME NEW name \in Call, NEW b \in BOOLEAN, Misused(name, b)
      PROVE  TypeStrings'
  BY <1>3, <1>t, <1>q, <1>g DEF Misused, TypeStrings
<1>4. ASSUME NEW name \in Call, NEW lp \in Loops, NEW s \in Stage, Sends(name, lp,
   s), Send(name, lp, s)
      PROVE  TypeStrings'
  BY <1>4, <1>t, <1>q, <1>g, <1>k DEF Send, Sends, TypeStrings
<1>5. ASSUME NEW name \in {"Next", "RowsClose"}, RowsCall(name)
      PROVE  TypeStrings'
  BY <1>5, <1>t, <1>q, <1>g DEF RowsCall, TypeStrings
<1>6. CASE RowsCloseDone
  BY <1>6, <1>t, <1>q, <1>g DEF RowsCloseDone, TypeStrings
<1>7. CASE OnBad
  BY <1>7, <1>t, <1>q, <1>g DEF OnBad, TypeStrings
<1>8. CASE Close
  BY <1>8, <1>t, <1>q, <1>g DEF Close, TypeStrings
<1>9. CASE RecvFails
  BY <1>9, <1>t, <1>q, <1>g DEF RecvFails, TypeStrings
<1>10. ASSUME NEW m \in Incoming, Startup(m)
      PROVE  TypeStrings'
  BY <1>10, <1>t, <1>q, <1>g, <1>r DEF Startup, OpenFails, TypeStrings
<1>11. ASSUME NEW m \in Incoming, AskPassword(m)
      PROVE  TypeStrings'
  BY <1>11, <1>t, <1>q, <1>g, <1>r DEF AskPassword, OpenFails, TypeStrings
<1>12. ASSUME NEW m \in Incoming, Auth(m)
      PROVE  TypeStrings'
  BY <1>12, <1>t, <1>q, <1>g, <1>r DEF Auth, OpenFails, TypeStrings
<1>13. ASSUME NEW m \in Incoming, SimpleExec(m)
      PROVE  TypeStrings'
  BY <1>13, <1>t, <1>q, <1>g, <1>r DEF SimpleExec, Verdict, Doomed, Succeeds,
     TypeStrings
<1>14. ASSUME NEW m \in Incoming, SimpleQuery(m)
      PROVE  TypeStrings'
  BY <1>14, <1>t, <1>q, <1>g, <1>r DEF SimpleQuery, TypeStrings
<1>15. ASSUME NEW m \in Incoming, PrepareTo(m)
      PROVE  TypeStrings'
  BY <1>15, <1>t, <1>q, <1>g, <1>r DEF PrepareTo, TypeStrings
<1>16. ASSUME NEW m \in Incoming, Bind(m)
      PROVE  TypeStrings'
  BY <1>16, <1>t, <1>q, <1>g, <1>r DEF Bind, Executed, TypeStrings
<1>17. ASSUME NEW m \in Incoming, Workaround(m)
      PROVE  TypeStrings'
  BY <1>17, <1>t, <1>q, <1>g, <1>r DEF Workaround, Executed, TypeStrings
<1>18. ASSUME NEW m \in Incoming, StExec(m)
      PROVE  TypeStrings'
  BY <1>18, <1>t, <1>q, <1>g, <1>r DEF StExec, TypeStrings
<1>19. ASSUME NEW m \in Incoming, StClose(m)
      PROVE  TypeStrings'
  BY <1>19, <1>t, <1>q, <1>g, <1>r DEF StClose, TypeStrings
<1>20. ASSUME NEW m \in Incoming, Rows(m)
      PROVE  TypeStrings'
  BY <1>20, <1>t, <1>q, <1>g, <1>r DEF Rows, TypeStrings
<1>21. ASSUME NEW m \in Incoming, AwaitCopy(m)
      PROVE  TypeStrings'
  BY <1>21, <1>t, <1>q, <1>g, <1>r DEF AwaitCopy, TypeStrings
<1>22. ASSUME NEW m \in Incoming, CopyFail(m)
      PROVE  TypeStrings'
  BY <1>22, <1>t, <1>q, <1>g, <1>r DEF CopyFail, TypeStrings
<1>23. ASSUME NEW m \in Incoming, RespLoop(m)
      PROVE  TypeStrings'
  BY <1>23, <1>t, <1>q, <1>g, <1>r DEF RespLoop, RespEnds, TypeStrings
<1>24. ASSUME NEW name \in {"CopySync", "CopyClose"}, CopyCall(name)
      PROVE  TypeStrings'
  BY <1>24, <1>t, <1>q, <1>g, <1>k DEF CopyCall, TypeStrings
<1>25. CASE CopyExec
  BY <1>25, <1>t, <1>q, <1>g DEF CopyExec, TypeStrings
<1>26. CASE CopyDone
  BY <1>26, <1>t, <1>q, <1>g DEF CopyDone, TypeStrings
<1>27. CASE CopyClosed
  BY <1>27, <1>t, <1>q, <1>g DEF CopyClosed, TypeStrings
<1>28. CASE RespAsync
  BY <1>28, <1>t, <1>q, <1>g DEF RespAsync, RespEnds, TypeStrings
<1>29. CASE RespFails
  BY <1>29, <1>t, <1>q, <1>g DEF RespFails, RespEnds, TypeStrings
<1>30. CASE Lose
  BY <1>30, <1>t, <1>q, <1>g DEF Lose, TypeStrings
<1>31. CASE UNCHANGED vars
  BY <1>31, <1>t, <1>q, <1>g DEF vars, TypeStrings
<1> QED
  BY <1>1, <1>2, <1>3, <1>4, <1>5, <1>6, <1>7, <1>8, <1>9, <1>10, <1>11, <1>12,
     <1>13, <1>14, <1>15, <1>16, <1>17, <1>18, <1>19, <1>20, <1>21, <1>22, <1>23,
     <1>24, <1>25, <1>26, <1>27, <1>28, <1>29, <1>30, <1>31, Steps

\* So do the booleans.
LEMMA TypeBooleansStep ==
  ASSUME TypeOK, [Next]_vars
  PROVE  TypeBooleans'
<1> USE DEF conn, user, copyin, server, Read, Continue, GoOn, Return, Outcome, Fails,
            Assert, Ready, Complete
<1>t. TypeBooleans
  BY DEF TypeOK, TypeBooleans
<1>r. \A m \in Incoming : m.up \in BOOLEAN
  BY ReceivedType
<1>k. \A s \in Stage \cup {"ST", "IND"} :
         /\ Request(s) => erred' = FALSE /\ committed' = FALSE /\ txn' = txn /\ up' = up
         /\ EndCopy(s) => UNCHANGED <<txn, up, erred, committed>>
  BY DEF Request, EndCopy
<1>1. CASE Dial
  BY <1>1, <1>t, <1>k DEF Dial, OpenFails, TypeBooleans
<1>2. CASE Ssl
  <2>1. UNCHANGED server => queue' = queue /\ txn' = txn /\ up' = up /\ erred' = erred /\ committed' = committed
    OBVIOUS
  <2> HIDE DEF server
  <2> QED
    BY <1>2, <1>k, <2>1, <1>t DEF Ssl, OpenFails, TypeBooleans
<1>3. ASSUME NEW name \in Call, NEW b \in BOOLEAN, Misused(name, b)
      PROVE  TypeBooleans'
  BY <1>3, <1>t DEF Misused, TypeBooleans
<1>4. ASSUME NEW name \in Call, NEW lp \in Loops, NEW s \in Stage, Sends(name, lp,
   s), Send(name, lp, s)
      PROVE  TypeBooleans'
  BY <1>4, <1>t, <1>k DEF Send, Sends, TypeBooleans
<1>5. ASSUME NEW name \in {"Next", "RowsClose"}, RowsCall(name)
      PROVE  TypeBooleans'
  BY <1>5, <1>t DEF RowsCall, TypeBooleans
<1>6. CASE RowsCloseDone
  BY <1>6, <1>t DEF RowsCloseDone, TypeBooleans
<1>7. CASE OnBad
  BY <1>7, <1>t DEF OnBad, TypeBooleans
<1>8. CASE Close
  BY <1>8, <1>t DEF Close, TypeBooleans
<1>9. CASE RecvFails
  BY <1>9, <1>t DEF RecvFails, TypeBooleans
<1>10. ASSUME NEW m \in Incoming, Startup(m)
      PROVE  TypeBooleans'
  BY <1>10, <1>t, <1>r DEF Startup, OpenFails, TypeBooleans
<1>11. ASSUME NEW m \in Incoming, AskPassword(m)
      PROVE  TypeBooleans'
  BY <1>11, <1>t, <1>r DEF AskPassword, OpenFails, TypeBooleans
<1>12. ASSUME NEW m \in Incoming, Auth(m)
      PROVE  TypeBooleans'
  BY <1>12, <1>t, <1>r DEF Auth, OpenFails, TypeBooleans
<1>13. ASSUME NEW m \in Incoming, SimpleExec(m)
      PROVE  TypeBooleans'
  BY <1>13, <1>t, <1>r DEF SimpleExec, Verdict, Doomed, Succeeds, TypeBooleans
<1>14. ASSUME NEW m \in Incoming, SimpleQuery(m)
      PROVE  TypeBooleans'
  BY <1>14, <1>t, <1>r DEF SimpleQuery, TypeBooleans
<1>15. ASSUME NEW m \in Incoming, PrepareTo(m)
      PROVE  TypeBooleans'
  BY <1>15, <1>t, <1>r DEF PrepareTo, TypeBooleans
<1>16. ASSUME NEW m \in Incoming, Bind(m)
      PROVE  TypeBooleans'
  BY <1>16, <1>t, <1>r DEF Bind, Executed, TypeBooleans
<1>17. ASSUME NEW m \in Incoming, Workaround(m)
      PROVE  TypeBooleans'
  BY <1>17, <1>t, <1>r DEF Workaround, Executed, TypeBooleans
<1>18. ASSUME NEW m \in Incoming, StExec(m)
      PROVE  TypeBooleans'
  BY <1>18, <1>t, <1>r DEF StExec, TypeBooleans
<1>19. ASSUME NEW m \in Incoming, StClose(m)
      PROVE  TypeBooleans'
  BY <1>19, <1>t, <1>r DEF StClose, TypeBooleans
<1>20. ASSUME NEW m \in Incoming, Rows(m)
      PROVE  TypeBooleans'
  BY <1>20, <1>t, <1>r DEF Rows, TypeBooleans
<1>21. ASSUME NEW m \in Incoming, AwaitCopy(m)
      PROVE  TypeBooleans'
  BY <1>21, <1>t, <1>r DEF AwaitCopy, TypeBooleans
<1>22. ASSUME NEW m \in Incoming, CopyFail(m)
      PROVE  TypeBooleans'
  BY <1>22, <1>t, <1>r DEF CopyFail, TypeBooleans
<1>23. ASSUME NEW m \in Incoming, RespLoop(m)
      PROVE  TypeBooleans'
  BY <1>23, <1>t, <1>r DEF RespLoop, RespEnds, TypeBooleans
<1>24. ASSUME NEW name \in {"CopySync", "CopyClose"}, CopyCall(name)
      PROVE  TypeBooleans'
  BY <1>24, <1>t, <1>k DEF CopyCall, TypeBooleans
<1>25. CASE CopyExec
  BY <1>25, <1>t DEF CopyExec, TypeBooleans
<1>26. CASE CopyDone
  BY <1>26, <1>t DEF CopyDone, TypeBooleans
<1>27. CASE CopyClosed
  BY <1>27, <1>t DEF CopyClosed, TypeBooleans
<1>28. CASE RespAsync
  BY <1>28, <1>t DEF RespAsync, RespEnds, TypeBooleans
<1>29. CASE RespFails
  BY <1>29, <1>t DEF RespFails, RespEnds, TypeBooleans
<1>30. CASE Lose
  BY <1>30, <1>t DEF Lose, TypeBooleans
<1>31. CASE UNCHANGED vars
  BY <1>31, <1>t DEF vars, TypeBooleans
<1> QED
  BY <1>1, <1>2, <1>3, <1>4, <1>5, <1>6, <1>7, <1>8, <1>9, <1>10, <1>11, <1>12,
     <1>13, <1>14, <1>15, <1>16, <1>17, <1>18, <1>19, <1>20, <1>21, <1>22, <1>23,
     <1>24, <1>25, <1>26, <1>27, <1>28, <1>29, <1>30, <1>31, Steps

\* The replies due stay stages, and no more than the bound.
LEMMA TypeQueueStep ==
  ASSUME TypeOK, PlaceInv, [Next]_vars
  PROVE  TypeQueue'
<1> USE DEF conn, user, copyin, server, Read, Continue, GoOn, Return, Outcome, Fails,
            Assert, Ready, Complete
<1>t. TypeQueue /\ Len(queue) \in Nat /\ MaxQueue \in Nat \ {0}
  BY ConstAssumption, QueueTakes DEF TypeOK, TypeQueue
<1>r. \A m \in Incoming :
         /\ m.queue \in Seq(Stage) /\ Len(m.queue) \in Nat /\ Len(m.queue) <= Len(queue)
         /\ m.t = "Z" => Len(m.queue) < Len(queue)
         /\ m.t \in {"Gb", "H"} => m.queue # << >>
         /\ m.t = "R3" => queue # << >>
  <2> SUFFICES ASSUME NEW m \in Incoming
               PROVE  /\ m.queue \in Seq(Stage) /\ Len(m.queue) \in Nat /\ Len(m.queue) <= Len(queue)
                      /\ m.t = "Z" => Len(m.queue) < Len(queue)
                      /\ m.t \in {"Gb", "H"} => m.queue # << >>
                      /\ m.t = "R3" => queue # << >>
    OBVIOUS
  <2>1. m.queue \in Seq(Stage)
    BY ReceivedType
  <2>2. Len(m.queue) \in Nat
    BY <2>1, QueueTakes
  <2> QED
    BY <2>1, <2>2, ReceivedType
<1>e. ASSUME NEW q \in Seq(Stage), queue' = q, Len(q) <= Len(queue)
      PROVE  TypeQueue'
  BY <1>t, <1>e, QueueTakes DEF TypeQueue
<1>u. ASSUME UNCHANGED queue
      PROVE  TypeQueue'
  BY <1>t, <1>u DEF TypeQueue
<1>1. CASE Dial
  <2>1. queue = << >> /\ (Request("ST") \/ UNCHANGED queue)
    BY <1>1 DEF Dial, PlaceInv
  <2>2. CASE Request("ST")
    <3>1. Len(queue) = 0 /\ "ST" \in Stage
      BY <2>1, QueueTakes DEF Stage
    <3>2. queue' \in Seq(Stage) /\ Len(queue') <= Len(queue) + 1
      BY <2>2, <3>1, RequestStep
    <3>3. Len(queue') \in Nat
      BY <3>2, QueueTakes
    <3> QED
      BY <1>t, <3>1, <3>2, <3>3 DEF TypeQueue
  <2> QED
    BY <1>u, <2>1, <2>2
<1>2. CASE Ssl
  <2>1. queue = << >> /\ (Request("ST") \/ UNCHANGED queue)
    BY <1>2 DEF Ssl, PlaceInv
  <2>2. CASE Request("ST")
    <3>1. Len(queue) = 0 /\ "ST" \in Stage
      BY <2>1, QueueTakes DEF Stage
    <3>2. queue' \in Seq(Stage) /\ Len(queue') <= Len(queue) + 1
      BY <2>2, <3>1, RequestStep
    <3>3. Len(queue') \in Nat
      BY <3>2, QueueTakes
    <3> QED
      BY <1>t, <3>1, <3>2, <3>3 DEF TypeQueue
  <2> QED
    BY <1>u, <2>1, <2>2
<1>3. ASSUME NEW name \in Call, NEW b \in BOOLEAN, Misused(name, b)
      PROVE  TypeQueue'
  BY <1>3, <1>u DEF Misused
<1>4. ASSUME NEW name \in Call, NEW lp \in Loops, NEW s \in Stage, Sends(name, lp,
   s), Send(name, lp, s)
      PROVE  TypeQueue'
  <2>1. Len(queue) < MaxQueue /\ (Request(s) \/ UNCHANGED queue)
    BY <1>4 DEF Send
  <2>2. CASE Request(s)
    <3>1. queue' \in Seq(Stage) /\ Len(queue') <= Len(queue) + 1
      BY <2>2, RequestStep
    <3>2. Len(queue') \in Nat
      BY <3>1, QueueTakes
    <3> QED
      BY <1>t, <2>1, <3>1, <3>2 DEF TypeQueue
  <2> QED
    BY <1>u, <2>1, <2>2
<1>5. ASSUME NEW name \in {"Next", "RowsClose"}, RowsCall(name)
      PROVE  TypeQueue'
  BY <1>5, <1>u DEF RowsCall
<1>6. CASE RowsCloseDone
  BY <1>6, <1>u DEF RowsCloseDone
<1>7. CASE OnBad
  BY <1>7, <1>u DEF OnBad
<1>8. CASE Close
  BY <1>8, <1>u DEF Close
<1>9. CASE RecvFails
  BY <1>9, <1>u DEF RecvFails
<1>10. ASSUME NEW m \in Incoming, Startup(m)
      PROVE  TypeQueue'
  BY <1>10, <1>r, <1>e DEF Startup, OpenFails
<1>11. ASSUME NEW m \in Incoming, AskPassword(m)
      PROVE  TypeQueue'
  <2>1. CASE queue' = <<"PWD">> \o Tail(queue)
    <3>1. queue # << >> /\ "PWD" \in Stage /\ queue \in Seq(Stage)
      BY <1>t, <1>r, <1>11 DEF AskPassword, Stage, TypeQueue
    <3> QED
      BY <1>t, <2>1, <3>1, QueueMoves DEF TypeQueue
  <2>2. CASE queue' = m.queue
    BY <1>r, <1>e, <2>2
  <2> QED
    BY <1>11, <2>1, <2>2 DEF AskPassword
<1>12. ASSUME NEW m \in Incoming, Auth(m)
      PROVE  TypeQueue'
  BY <1>12, <1>r, <1>e DEF Auth, OpenFails
<1>13. ASSUME NEW m \in Incoming, SimpleExec(m)
      PROVE  TypeQueue'
  BY <1>13, <1>r, <1>e DEF SimpleExec, Verdict, Doomed, Succeeds
<1>14. ASSUME NEW m \in Incoming, SimpleQuery(m)
      PROVE  TypeQueue'
  BY <1>14, <1>r, <1>e DEF SimpleQuery
<1>15. ASSUME NEW m \in Incoming, PrepareTo(m)
      PROVE  TypeQueue'
  <2>1. CASE m.t = "Z" /\ queue' = Append(m.queue, "B")
    <3>1. queue' \in Seq(Stage) /\ Len(queue') = Len(m.queue) + 1
      BY <1>r, <2>1, QueueAdds DEF Stage
    <3> QED
      BY <1>t, <1>r, <2>1, <3>1 DEF TypeQueue
  <2>2. CASE queue' = m.queue
    BY <1>r, <1>e, <2>2
  <2> QED
    BY <1>15, <2>1, <2>2 DEF PrepareTo
<1>16. ASSUME NEW m \in Incoming, Bind(m)
      PROVE  TypeQueue'
  BY <1>16, <1>r, <1>e DEF Bind, Executed
<1>17. ASSUME NEW m \in Incoming, Workaround(m)
      PROVE  TypeQueue'
  BY <1>17, <1>r, <1>e DEF Workaround, Executed
<1>18. ASSUME NEW m \in Incoming, StExec(m)
      PROVE  TypeQueue'
  BY <1>18, <1>r, <1>e DEF StExec
<1>19. ASSUME NEW m \in Incoming, StClose(m)
      PROVE  TypeQueue'
  BY <1>19, <1>r, <1>e DEF StClose
<1>20. ASSUME NEW m \in Incoming, Rows(m)
      PROVE  TypeQueue'
  BY <1>20, <1>r, <1>e DEF Rows
<1>21. ASSUME NEW m \in Incoming, AwaitCopy(m)
      PROVE  TypeQueue'
  <2>1. ASSUME m.queue # << >>, NEW s \in Stage, queue' = <<s>> \o Tail(m.queue)
        PROVE  TypeQueue'
    <3>1. queue' \in Seq(Stage) /\ Len(queue') = Len(m.queue)
      BY <1>r, <2>1, QueueMoves
    <3> QED
      BY <1>t, <1>r, <3>1 DEF TypeQueue
  <2>2. CASE queue' = m.queue
    BY <1>r, <1>e, <2>2
  <2>3. "INF" \in Stage /\ "OUT" \in Stage
    BY DEF Stage
  <2> QED
    BY <1>21, <1>r, <2>1, <2>2, <2>3 DEF AwaitCopy
<1>22. ASSUME NEW m \in Incoming, CopyFail(m)
      PROVE  TypeQueue'
  BY <1>22, <1>r, <1>e DEF CopyFail
<1>23. ASSUME NEW m \in Incoming, RespLoop(m)
      PROVE  TypeQueue'
  BY <1>23, <1>r, <1>e DEF RespLoop, RespEnds
<1>24. ASSUME NEW name \in {"CopySync", "CopyClose"}, CopyCall(name)
      PROVE  TypeQueue'
  <2>1. EndCopy("IND") \/ UNCHANGED queue
    BY <1>24 DEF CopyCall
  <2>2. CASE EndCopy("IND")
    <3>1. queue' \in Seq(Stage) /\ Len(queue') = Len(queue)
      BY <2>2, EndCopyStep DEF Stage
    <3> QED
      BY <1>t, <3>1 DEF TypeQueue
  <2> QED
    BY <1>u, <2>1, <2>2
<1>25. CASE CopyExec
  BY <1>25, <1>u DEF CopyExec
<1>26. CASE CopyDone
  BY <1>26, <1>u DEF CopyDone
<1>27. CASE CopyClosed
  BY <1>27, <1>u DEF CopyClosed
<1>28. CASE RespAsync
  BY <1>28, <1>u DEF RespAsync, RespEnds
<1>29. CASE RespFails
  BY <1>29, <1>u DEF RespFails, RespEnds
<1>30. CASE Lose
  BY <1>30, <1>u DEF Lose
<1>31. CASE UNCHANGED vars
  BY <1>31, <1>u DEF vars
<1> QED
  BY <1>1, <1>2, <1>3, <1>4, <1>5, <1>6, <1>7, <1>8, <1>9, <1>10, <1>11, <1>12,
     <1>13, <1>14, <1>15, <1>16, <1>17, <1>18, <1>19, <1>20, <1>21, <1>22, <1>23,
     <1>24, <1>25, <1>26, <1>27, <1>28, <1>29, <1>30, <1>31, Steps

\* The type invariant is inductive where the driver is known to be.
LEMMA TypeStep ==
  ASSUME TypeOK, PlaceInv, [Next]_vars
  PROVE  TypeOK'
<1>1. TypeStrings'
  BY TypeStringsStep
<1>2. TypeBooleans'
  BY TypeBooleansStep
<1>3. TypeQueue'
  BY TypeQueueStep
<1>4. excuse' \subseteq {"cut", "overlap", "misuse", "unknown"}
  BY TypeExcuseStep
<1> QED
  BY <1>1, <1>2, <1>3, <1>4 DEF TypeOK, TypeStrings, TypeBooleans, TypeQueue, Locals

--------------------------------------------------------------------------------
(* Where the driver is, and whose turn it is *)

\* Where the driver is
LEMMA PlaceStep ==
  ASSUME TypeOK, PlaceInv, [Next]_vars
  PROVE  PlaceInv'
<1> USE DEF conn, user, copyin, server, Read, Continue, GoOn, Return, Outcome, Fails,
            Assert, Ready
<1>1. CASE Dial
  BY <1>1 DEF Dial, OpenFails, PlaceInv
<1>2. CASE Ssl
  BY <1>2 DEF Ssl, OpenFails, PlaceInv
<1>3. ASSUME NEW name \in Call, NEW b \in BOOLEAN, Misused(name, b)
      PROVE  PlaceInv'
  BY <1>3 DEF Misused, PlaceInv
<1>4. ASSUME NEW name \in Call, NEW lp \in Loops, NEW s \in Stage, Sends(name, lp,
   s), Send(name, lp, s)
      PROVE  PlaceInv'
  BY <1>4 DEF Send, Sends, PlaceInv, Call
<1>5. ASSUME NEW name \in {"Next", "RowsClose"}, RowsCall(name)
      PROVE  PlaceInv'
  BY <1>5 DEF RowsCall, PlaceInv
<1>6. CASE RowsCloseDone
  BY <1>6 DEF RowsCloseDone, PlaceInv
<1>7. CASE OnBad
  BY <1>7 DEF OnBad, PlaceInv
<1>8. CASE Close
  BY <1>8 DEF Close, PlaceInv
<1>9. CASE RecvFails
  BY <1>9 DEF RecvFails, PlaceInv
<1>10. ASSUME NEW m \in Incoming, Startup(m)
      PROVE  PlaceInv'
  BY <1>10 DEF Startup, OpenFails, PlaceInv
<1>11. ASSUME NEW m \in Incoming, AskPassword(m)
      PROVE  PlaceInv'
  BY <1>11 DEF AskPassword, OpenFails, PlaceInv
<1>12. ASSUME NEW m \in Incoming, Auth(m)
      PROVE  PlaceInv'
  BY <1>12 DEF Auth, OpenFails, PlaceInv
<1>13. ASSUME NEW m \in Incoming, SimpleExec(m)
      PROVE  PlaceInv'
  BY <1>13 DEF SimpleExec, Verdict, Doomed, Succeeds, PlaceInv
<1>14. ASSUME NEW m \in Incoming, SimpleQuery(m)
      PROVE  PlaceInv'
  BY <1>14 DEF SimpleQuery, PlaceInv
<1>15. ASSUME NEW m \in Incoming, PrepareTo(m)
      PROVE  PlaceInv'
  BY <1>15 DEF PrepareTo, PlaceInv
<1>16. ASSUME NEW m \in Incoming, Bind(m)
      PROVE  PlaceInv'
  BY <1>16 DEF Bind, Executed, PlaceInv
<1>17. ASSUME NEW m \in Incoming, Workaround(m)
      PROVE  PlaceInv'
  BY <1>17 DEF Workaround, Executed, PlaceInv
<1>18. ASSUME NEW m \in Incoming, StExec(m)
      PROVE  PlaceInv'
  BY <1>18 DEF StExec, PlaceInv
<1>19. ASSUME NEW m \in Incoming, StClose(m)
      PROVE  PlaceInv'
  BY <1>19 DEF StClose, PlaceInv
<1>20. ASSUME NEW m \in Incoming, Rows(m)
      PROVE  PlaceInv'
  BY <1>20 DEF Rows, PlaceInv
<1>21. ASSUME NEW m \in Incoming, AwaitCopy(m)
      PROVE  PlaceInv'
  BY <1>21 DEF AwaitCopy, PlaceInv
<1>22. ASSUME NEW m \in Incoming, CopyFail(m)
      PROVE  PlaceInv'
  BY <1>22 DEF CopyFail, PlaceInv
<1>23. ASSUME NEW m \in Incoming, RespLoop(m)
      PROVE  PlaceInv'
  BY <1>23 DEF RespLoop, RespEnds, PlaceInv
<1>24. ASSUME NEW name \in {"CopySync", "CopyClose"}, CopyCall(name)
      PROVE  PlaceInv'
  BY <1>24 DEF CopyCall, PlaceInv
<1>25. CASE CopyExec
  BY <1>25 DEF CopyExec, PlaceInv
<1>26. CASE CopyDone
  BY <1>26 DEF CopyDone, PlaceInv
<1>27. CASE CopyClosed
  BY <1>27 DEF CopyClosed, PlaceInv
<1>28. CASE RespAsync
  BY <1>28 DEF RespAsync, RespEnds, PlaceInv
<1>29. CASE RespFails
  BY <1>29 DEF RespFails, RespEnds, PlaceInv
<1>30. CASE Lose
  BY <1>30 DEF Lose, PlaceInv
<1>31. CASE UNCHANGED vars
  BY <1>31 DEF vars, PlaceInv
<1> QED
  BY <1>1, <1>2, <1>3, <1>4, <1>5, <1>6, <1>7, <1>8, <1>9, <1>10, <1>11, <1>12,
     <1>13, <1>14, <1>15, <1>16, <1>17, <1>18, <1>19, <1>20, <1>21, <1>22, <1>23,
     <1>24, <1>25, <1>26, <1>27, <1>28, <1>29, <1>30, <1>31, Steps

\* Who uses the connection
LEMMA TurnStep ==
  ASSUME TypeOK, PlaceInv, TurnInv, ReplyInv, [Next]_vars
  PROVE  TurnInv'
<1> USE DEF conn, user, copyin, server, Read, Continue, GoOn, Return, Outcome, Fails,
            Assert, Ready, TurnInv, PlaceInv
<1>k. \A s \in Stage \cup {"ST", "IND"} :
         /\ Request(s) => erred' = FALSE
         /\ EndCopy(s) => erred' = erred
  BY DEF Request, EndCopy
<1>t. resp \in {"off", "run"}
  BY DEF TypeOK
<1>i. InTurn' => InTurn
  BY Monotone DEF InTurn
<1>o. excuse' = excuse \cup {"overlap"} => ~InTurn'
  BY DEF InTurn
<1>r. \A m \in Incoming : m.t \notin Complete \cup {"D", "I"} => saved = "none" /\ up
  BY ReceivedType, ReceivedNew
<1>1. CASE Dial
  BY <1>1, <1>i, <1>k DEF Dial, OpenFails
<1>2. CASE Ssl
  BY <1>2, <1>i, <1>k DEF Ssl, OpenFails
<1>3. ASSUME NEW name \in Call, NEW b \in BOOLEAN, Misused(name, b)
      PROVE  TurnInv'
  BY <1>3, <1>i DEF Misused
<1>4. ASSUME NEW name \in Call, NEW lp \in Loops, NEW s \in Stage, Sends(name, lp,
   s), Send(name, lp, s)
      PROVE  TurnInv'
  <2>1. CASE excuse' = excuse \cup {"overlap"}
    BY <1>o, <2>1
  <2>2. CASE /\ op' = name /\ loop' = lp /\ Request(s) /\ rows # "open" /\ resp # "run"
             /\ UNCHANGED <<result, bad>>
             /\ UNCHANGED <<saved, status, deadline, user, copyin>>
    <3>1. op = "none" /\ ~bad /\ loop = "none"
      BY <1>4 DEF Send
    <3> QED
      BY <1>i, <1>k, <1>t, <2>2, <3>1 DEF Loops
  <2>3. CASE /\ bad' = TRUE /\ Outcome(name, "badconn")
             /\ UNCHANGED <<op, loop, got, server, excuse>>
             /\ UNCHANGED <<saved, status, deadline, user, copyin>>
    <3>1. op = "none" /\ loop = "none"
      BY <1>4 DEF Send
    <3> QED
      BY <1>i, <2>3, <3>1
  <2> QED
    BY <1>4, <2>1, <2>2, <2>3 DEF Send
<1>5. ASSUME NEW name \in {"Next", "RowsClose"}, RowsCall(name)
      PROVE  TurnInv'
  BY <1>5, <1>i DEF RowsCall
<1>6. CASE RowsCloseDone
  BY <1>6, <1>i DEF RowsCloseDone
<1>7. CASE OnBad
  BY <1>7, <1>i DEF OnBad
<1>8. CASE Close
  BY <1>8, <1>i DEF Close
<1>9. CASE RecvFails
  BY <1>9, <1>i DEF RecvFails
<1>10. ASSUME NEW m \in Incoming, Startup(m)
      PROVE  TurnInv'
  BY <1>10, <1>i DEF Startup, OpenFails
<1>11. ASSUME NEW m \in Incoming, AskPassword(m)
      PROVE  TurnInv'
  BY <1>11, <1>i DEF AskPassword, OpenFails
<1>12. ASSUME NEW m \in Incoming, Auth(m)
      PROVE  TurnInv'
  BY <1>12, <1>i DEF Auth, OpenFails
<1>13. ASSUME NEW m \in Incoming, SimpleExec(m)
      PROVE  TurnInv'
  BY <1>13, <1>i DEF SimpleExec, Verdict, Doomed, Succeeds
<1>14. ASSUME NEW m \in Incoming, SimpleQuery(m)
      PROVE  TurnInv'
  BY <1>14, <1>i DEF SimpleQuery, Complete
<1>15. ASSUME NEW m \in Incoming, PrepareTo(m)
      PROVE  TurnInv'
  BY <1>15, <1>i DEF PrepareTo
<1>16. ASSUME NEW m \in Incoming, Bind(m)
      PROVE  TurnInv'
  BY <1>16, <1>i DEF Bind, Executed
<1>17. ASSUME NEW m \in Incoming, Workaround(m)
      PROVE  TurnInv'
  BY <1>17, <1>i DEF Workaround, Executed, Complete
<1>18. ASSUME NEW m \in Incoming, StExec(m)
      PROVE  TurnInv'
  BY <1>18, <1>i DEF StExec
<1>19. ASSUME NEW m \in Incoming, StClose(m)
      PROVE  TurnInv'
  BY <1>19, <1>i DEF StClose
<1>20. ASSUME NEW m \in Incoming, Rows(m)
      PROVE  TurnInv'
  BY <1>20, <1>i DEF Rows
<1>21. ASSUME NEW m \in Incoming, AwaitCopy(m)
      PROVE  TurnInv'
  <2>1. ASSUME InTurn', m.t = "G"
        PROVE  erred' = FALSE
    <3>1. up /\ ~bad /\ saved = "none" /\ loop = "awaitCopy"
      BY <1>21, <1>i, <1>r, <2>1 DEF AwaitCopy, Complete
    <3>2. RepliesFit
      BY <1>i, <2>1, <3>1 DEF ReplyInv
    <3>3. Follows(Owed, "G", First(m.queue))
      BY <2>1, <3>1, <3>2, FitStep
    <3>4. Owed = "COPY"
      BY <3>1, <3>2, <3>3 DEF Follows, RepliesFit, Going, ErrorRead
    <3>5. ~erred
      BY <3>1, <3>2, <3>4 DEF RepliesFit, Going, ErrorRead
    <3> QED
      BY <1>21, <2>1, <3>5 DEF AwaitCopy
  <2>2. CASE m.t = "G"
    BY <1>21, <1>i, <2>1, <2>2 DEF AwaitCopy
  <2>3. CASE m.t # "G"
    BY <1>21, <1>i, <2>3 DEF AwaitCopy
  <2> QED
    BY <2>2, <2>3
<1>22. ASSUME NEW m \in Incoming, CopyFail(m)
      PROVE  TurnInv'
  BY <1>22, <1>i DEF CopyFail
<1>23. ASSUME NEW m \in Incoming, RespLoop(m)
      PROVE  TurnInv'
  <2>1. ASSUME InTurn', m.t = "Z"
        PROVE  ciErr \/ (loop = "done" /\ ~erred)
    <3>1. up /\ resp = "run" /\ saved = "none" /\ InTurn
      BY <1>23, <1>i, <1>r, <2>1 DEF RespLoop, Complete
    <3>2. RepliesFit
      BY <3>1 DEF ReplyInv
    <3>3. Follows(Owed, "Z", First(m.queue))
      BY <2>1, <3>1, <3>2, FitStep
    <3>4. Owed = "Z"
      BY <3>1, <3>2, <3>3 DEF Follows, RepliesFit, ReplyOfCopy
    <3> QED
      BY <3>1, <3>2, <3>4 DEF RepliesFit, ReplyOfCopy, TurnInv
  <2> QED
    BY <1>23, <1>i, <2>1 DEF RespLoop, RespEnds, Complete
<1>24. ASSUME NEW name \in {"CopySync", "CopyClose"}, CopyCall(name)
      PROVE  TurnInv'
  BY <1>24, <1>i, <1>k DEF CopyCall
<1>25. CASE CopyExec
  BY <1>25, <1>i DEF CopyExec
<1>26. CASE CopyDone
  BY <1>26, <1>i DEF CopyDone
<1>27. CASE CopyClosed
  BY <1>27, <1>i DEF CopyClosed
<1>28. CASE RespAsync
  BY <1>28, <1>i DEF RespAsync, RespEnds
<1>29. CASE RespFails
  BY <1>29, <1>i DEF RespFails, RespEnds
<1>30. CASE Lose
  BY <1>30, <1>i DEF Lose
<1>31. CASE UNCHANGED vars
  BY <1>31, <1>i DEF vars
<1> QED
  BY <1>1, <1>2, <1>3, <1>4, <1>5, <1>6, <1>7, <1>8, <1>9, <1>10, <1>11, <1>12,
     <1>13, <1>14, <1>15, <1>16, <1>17, <1>18, <1>19, <1>20, <1>21, <1>22, <1>23,
     <1>24, <1>25, <1>26, <1>27, <1>28, <1>29, <1>30, <1>31, Steps

--------------------------------------------------------------------------------
(* The reply that is due *)

\* The reply that is due fits the receive loop.
LEMMA ReplyInvStep ==
  ASSUME TypeOK, PlaceInv, TurnInv, ReplyInv, [Next]_vars
  PROVE  ReplyInv'
<1> SUFFICES ASSUME InTurn', up', bad' => resp' = "run"
             PROVE  RepliesFit'
  BY DEF ReplyInv
<1> USE DEF conn, user, copyin, server, Read, Continue, GoOn, Return, Outcome, Fails,
            Assert, Ready
<1>i. InTurn /\ up
  BY Monotone DEF InTurn
<1>f. (bad => resp = "run") => RepliesFit
  BY <1>i DEF ReplyInv
<1>g. /\ Fresh.err = FALSE /\ Fresh.tag = "none" /\ OnlyErr.err = TRUE /\ Err.err = TRUE
      /\ \A t \in Complete : Tagged(t).err = got.err /\ Tagged(t).tag = t
      /\ \A r \in {"rows", "done"} : HasResult(r).err = got.err /\ HasResult(r).res = r
      /\ got.err \in BOOLEAN
  BY LocalsStep
<1>t. resp \in {"off", "run"} /\ txn \in TxnStatus
  BY DEF TypeOK
<1>o. excuse' # excuse \cup {"overlap"}
  BY DEF InTurn
<1>x. excuse' # excuse \cup {"cut"}
  BY DEF InTurn
<1>1. CASE Dial
  <2>1. loop = "dial" /\ resp = "off" /\ ~bad /\ RepliesFit /\ rows # "open" /\ op = "open"
    BY <1>1, <1>i, <1>f DEF Dial, TurnInv, PlaceInv
  <2>2. Owed = "none" /\ ~erred
    BY <2>1 DEF RepliesFit
  <2>3. CASE OpenFails /\ UNCHANGED <<queue, copyin>>
    BY <2>1, <2>3 DEF RepliesFit, OpenFails
  <2>4. CASE loop' = "ssl" /\ queue' = queue /\ erred' = erred /\ UNCHANGED <<op, user, copyin>>
    BY <2>1, <2>2, <2>4 DEF RepliesFit, Owed
  <2>5. CASE loop' = "startup" /\ Request("ST") /\ UNCHANGED <<op, user, copyin>>
    <3>1. Len(queue') <= 1 /\ Owed' = "ST" /\ ~erred'
      BY <2>2, <2>5, RequestStep DEF Owed, Request, Stage
    <3> QED
      BY <2>1, <2>5, <3>1 DEF RepliesFit
  <2> QED
    BY <1>1, <2>3, <2>4, <2>5 DEF Dial
<1>2. CASE Ssl
  <2>1. loop = "ssl" /\ resp = "off" /\ ~bad /\ RepliesFit /\ rows # "open" /\ op = "open"
    BY <1>2, <1>i, <1>f DEF Ssl, TurnInv, PlaceInv
  <2>2. Owed = "none" /\ ~erred
    BY <2>1 DEF RepliesFit
  <2>3. CASE OpenFails /\ UNCHANGED <<queue, copyin>>
    BY <2>1, <2>3 DEF RepliesFit, OpenFails
  <2>5. CASE loop' = "startup" /\ Request("ST") /\ UNCHANGED <<op, user, copyin>>
    <3>1. Len(queue') <= 1 /\ Owed' = "ST" /\ ~erred'
      BY <2>2, <2>5, RequestStep DEF Owed, Request, Stage
    <3> QED
      BY <2>1, <2>5, <3>1 DEF RepliesFit
  <2> QED
    BY <1>2, <2>3, <2>5 DEF Ssl
<1>3. ASSUME NEW name \in Call, NEW b \in BOOLEAN, Misused(name, b)
      PROVE  RepliesFit'
  BY <1>3, <1>i, <1>f, <1>t DEF Misused, RepliesFit, ReplyOfNone, ReplyOfRows,
     ReplyOfCopy, ReplyOfSimpleExec, ReplyOfSimpleQuery, SavedFits, Going,
     ErrorRead, Owed, TurnInv, PlaceInv
<1>4. ASSUME NEW name \in Call, NEW lp \in Loops, NEW s \in Stage, Sends(name, lp,
   s), Send(name, lp, s)
      PROVE  RepliesFit'
  <2>1. op = "none" /\ ~bad /\ loop = "none" /\ RepliesFit
    BY <1>4, <1>f DEF Send, PlaceInv
  <2>2. /\ op' = name /\ loop' = lp /\ got' = Fresh /\ Request(s)
        /\ rows # "open" /\ resp = "off"
        /\ UNCHANGED <<saved, status, user, copyin>>
    BY <1>4, <1>i, <1>o, <1>t DEF Send
  <2>3. Owed = "none" /\ status = txn /\ saved = "none"
    BY <1>i, <2>1, <2>2 DEF RepliesFit, ReplyOfNone, TurnInv
  <2>4. Len(queue') <= 1 /\ Owed' = s /\ txn' = txn /\ ~erred'
    BY <2>2, <2>3, RequestStep DEF Owed, Request
  <2>5. name # "none" /\ lp \notin {"none", "done"}
    BY DEF Call, Loops
  <2>6. CASE lp = "simpleExec"
    <3>1. ReplyOfSimpleExec'
      BY <1>4, <1>g, <2>2, <2>3, <2>4, <2>6 DEF Sends, ReplyOfSimpleExec, Going,
         InTransaction, TypeOK, TxnStatus
    <3> QED
      BY <2>2, <2>4, <2>5, <2>6, <3>1 DEF RepliesFit
  <2>7. CASE lp # "simpleExec"
    <3>1. /\ lp = "simpleQuery" => s \in {"S1", "S2"}
          /\ lp = "prepareTo" => s = "P"
          /\ lp = "bind" => s = "B"
          /\ lp = "stClose" => s = "CL"
          /\ lp = "awaitCopy" => s = "COPY"
      BY <1>4 DEF Sends
    <3>2. got'.err = FALSE /\ ~erred'
      BY <1>g, <2>2, <2>4
    <3>3. \A S : s \in S => Going(S)'
      BY <2>4, <3>2 DEF Going
    <3> QED
      BY <2>2, <2>4, <2>5, <2>7, <3>1, <3>2, <3>3 DEF RepliesFit, ReplyOfSimpleQuery, Loops
  <2> QED
    BY <2>6, <2>7
<1>5. ASSUME NEW name \in {"Next", "RowsClose"}, RowsCall(name)
      PROVE  RepliesFit'
  BY <1>5, <1>i, <1>f, <1>t DEF RowsCall, RepliesFit, ReplyOfNone, ReplyOfRows,
     ReplyOfCopy, ReplyOfSimpleExec, ReplyOfSimpleQuery, SavedFits, Going,
     ErrorRead, Owed, TurnInv, PlaceInv
<1>6. CASE RowsCloseDone
  BY <1>6, <1>i, <1>f, <1>t DEF RowsCloseDone, RepliesFit, ReplyOfNone, ReplyOfRows,
     ReplyOfCopy, ReplyOfSimpleExec, ReplyOfSimpleQuery, SavedFits, Going,
     ErrorRead, Owed, TurnInv, PlaceInv
<1>7. CASE OnBad
  BY <1>7, <1>i, <1>f, <1>t DEF OnBad, RepliesFit, ReplyOfNone, ReplyOfRows,
     ReplyOfCopy, ReplyOfSimpleExec, ReplyOfSimpleQuery, SavedFits, Going,
     ErrorRead, Owed, TurnInv, PlaceInv
<1>8. CASE Close
  BY <1>8, <1>i, <1>f, <1>t DEF Close, RepliesFit, ReplyOfNone, ReplyOfRows,
     ReplyOfCopy, ReplyOfSimpleExec, ReplyOfSimpleQuery, SavedFits, Going,
     ErrorRead, Owed, TurnInv, PlaceInv
<1>9. CASE RecvFails
  BY <1>9, <1>i, <1>f, <1>t DEF RecvFails, RepliesFit, ReplyOfNone, ReplyOfRows,
     ReplyOfCopy, ReplyOfSimpleExec, ReplyOfSimpleQuery, SavedFits, Going,
     ErrorRead, Owed, TurnInv, PlaceInv
<1>10. ASSUME NEW m \in Incoming, Startup(m)
      PROVE  RepliesFit'
  <2>1. /\ op # "none" /\ loop = "startup" /\ resp = "off" /\ ~bad /\ RepliesFit
        /\ rows # "open" /\ saved = "none"
    BY <1>10, <1>i, <1>f DEF Startup, TurnInv, PlaceInv
  <2>2. Owed \in {"ST", "ST1"} /\ ~erred
    BY <2>1 DEF RepliesFit
  <2>3. /\ Len(m.queue) <= 1
        /\ m.up =>
             \/ Owed = "ST" /\ m.t = "R" /\ First(m.queue) = "ST1"
             \/ Owed = "ST" /\ m.t = "R3" /\ First(m.queue) = "PW"
             \/ Owed = "ST1" /\ m.t = "S" /\ First(m.queue) = "ST1"
             \/ Owed = "ST1" /\ m.t = "Z" /\ First(m.queue) = "none"
    BY <2>1, <2>2, FitStep DEF CanFail, Follows
  <2>4. m.up
    BY <1>10 DEF Startup
  <2> QED
    BY <1>10, <1>g, <2>1, <2>2, <2>3, <2>4 DEF Startup, OpenFails, RepliesFit,
     ReplyOfNone, Owed
<1>11. ASSUME NEW m \in Incoming, AskPassword(m)
      PROVE  RepliesFit'
  <2>1. /\ op # "none" /\ loop = "startup" /\ resp = "off" /\ ~bad /\ RepliesFit
        /\ rows # "open" /\ saved = "none"
    BY <1>11, <1>i, <1>f DEF AskPassword, TurnInv, PlaceInv
  <2>2. Owed \in {"ST", "ST1"} /\ ~erred
    BY <2>1 DEF RepliesFit
  <2>3. /\ Len(m.queue) <= 1
        /\ m.up =>
             \/ Owed = "ST" /\ m.t = "R" /\ First(m.queue) = "ST1"
             \/ Owed = "ST" /\ m.t = "R3" /\ First(m.queue) = "PW"
             \/ Owed = "ST1" /\ m.t = "S" /\ First(m.queue) = "ST1"
             \/ Owed = "ST1" /\ m.t = "Z" /\ First(m.queue) = "none"
    BY <2>1, <2>2, FitStep DEF CanFail, Follows
  <2>4. m.up
    BY <1>11, <2>1, FitStep DEF AskPassword
  <2>5. queue' = <<"PWD">> \o Tail(queue) => Len(queue') <= 1 /\ First(queue') = "PWD"
    <3>1. Len(queue) <= 1 /\ queue # << >> /\ queue \in Seq(Stage) /\ "PWD" \in Stage
      BY <2>1, ReceivedNew DEF RepliesFit, TypeOK, Stage
    <3> QED
      BY <3>1, QueueMoves
  <2>6. CASE OpenFails /\ Read(m, "none") /\ UNCHANGED copyin
    BY <2>1, <2>3, <2>4, <2>6 DEF OpenFails, RepliesFit
  <2>7. CASE /\ GoOn("auth") /\ UNCHANGED user /\ UNCHANGED copyin
             /\ queue' = <<"PWD">> \o Tail(queue) /\ erred' = erred
    BY <2>1, <2>2, <2>5, <2>7 DEF RepliesFit, Owed
  <2> QED
    BY <1>11, <2>6, <2>7 DEF AskPassword
<1>12. ASSUME NEW m \in Incoming, Auth(m)
      PROVE  RepliesFit'
  <2>1. /\ op # "none" /\ loop = "auth" /\ resp = "off" /\ ~bad /\ RepliesFit
        /\ rows # "open" /\ saved = "none"
    BY <1>12, <1>i, <1>f DEF Auth, TurnInv, PlaceInv
  <2>2. Owed = "PWD" /\ ~erred
    BY <2>1 DEF RepliesFit
  <2>3. /\ Len(m.queue) <= 1
        /\ m.up =>
             \/ Owed = "PWD" /\ m.t = "R" /\ First(m.queue) = "ST1"
    BY <2>1, <2>2, FitStep DEF CanFail, Follows
  <2>4. m.up
    BY <1>12 DEF Auth
  <2> QED
    BY <1>12, <1>g, <2>1, <2>2, <2>3, <2>4 DEF Auth, OpenFails, RepliesFit,
     ReplyOfNone, Owed
<1>13. ASSUME NEW m \in Incoming, SimpleExec(m)
      PROVE  RepliesFit'
  <2>1. /\ op # "none" /\ loop = "simpleExec" /\ resp = "off" /\ ~bad /\ RepliesFit
        /\ rows # "open" /\ saved = "none" /\ m.up
    BY <1>13, <1>i, <1>f DEF SimpleExec, TurnInv, PlaceInv
  <2>2. ReplyOfSimpleExec
    BY <2>1 DEF RepliesFit
  <2>3. op \in {"Begin", "Commit", "Rollback", "CommitRollback", "Exec"}
    BY <2>1 DEF PlaceInv
  <2>4. /\ Owed \in {"BEGIN", "COMMIT", "ROLLBACK", "S2", "S1", "R1", "R0", "Z"}
        /\ Owed = "COMMIT" => txn = "T"
    BY <2>2, <2>3 DEF ReplyOfSimpleExec, Going
  <2>5. /\ Len(m.queue) <= 1
        /\ Owed = "Z" => m.t = "Z" /\ First(m.queue) = "none" /\ m.txn = txn
        /\ Owed = "BEGIN" =>
             First(m.queue) = "Z" /\ (m.t = "E" \/ (m.t = "BEGIN" /\ m.txn = "T"))
        /\ Owed = "COMMIT" /\ txn = "T" =>
             First(m.queue) = "Z" /\ m.t \in {"COMMIT", "E"} /\ m.txn = "I"
        /\ Owed = "ROLLBACK" =>
             First(m.queue) = "Z" /\ m.t = "ROLLBACK" /\ m.txn = "I"
        /\ Owed \in {"S2", "S1", "R1", "R0"} =>
             /\ First(m.queue) \in {"S2", "S1", "R1", "R0", "Z"}
             /\ m.t \in Complete \cup {"T", "D", "I", "E"}
             /\ m.t = "E" => First(m.queue) = "Z"
    BY <1>t, <2>1, <2>4, FitStep DEF Follows, Txns, CanFail, Failed, TxnStatus, Complete
  <2>6. CASE m.t \in {"T", "D", "I"} /\ Continue(got)
    <3>1. ReplyOfSimpleExec'
      BY <1>13, <2>2, <2>3, <2>4, <2>5, <2>6 DEF SimpleExec, ReplyOfSimpleExec, Going,
         Owed, Complete
    <3> QED
      BY <1>13, <2>1, <2>5, <2>6, <3>1 DEF SimpleExec, RepliesFit
  <2>7. CASE m.t \in Complete /\ Continue(Tagged(m.t))
    <3>1. Owed # "Z" /\ got'.err = got.err /\ got'.tag = m.t /\ op' = op
      BY <1>g, <2>5, <2>7 DEF Complete
    <3>2. ~got.err /\ ~erred /\ erred' = FALSE
      BY <1>13, <2>2, <2>7, <3>1 DEF SimpleExec, ReplyOfSimpleExec, Complete
    <3>3. ReplyOfSimpleExec'
      BY <1>13, <2>2, <2>3, <2>4, <2>5, <2>7, <3>1, <3>2
         DEF SimpleExec, ReplyOfSimpleExec, Going, Owed, Complete
    <3> QED
      BY <1>13, <2>1, <2>5, <2>7, <3>3 DEF SimpleExec, RepliesFit
  <2>8. CASE m.t = "E" /\ Continue(Err)
    <3>1. ReplyOfSimpleExec'
      BY <1>13, <1>g, <2>2, <2>3, <2>4, <2>5, <2>8 DEF SimpleExec, ReplyOfSimpleExec,
         Going, Owed
    <3> QED
      BY <1>13, <2>1, <2>5, <2>8, <3>1 DEF SimpleExec, RepliesFit
  <2>9. CASE m.t = "Z" /\ status' = m.txn /\ op' = "none" /\ loop' = "none" /\ UNCHANGED user
    <3>1. Owed = "Z"
      BY <2>4, <2>5, <2>9 DEF Complete
    <3> QED
      BY <1>13, <2>1, <2>5, <2>9, <3>1 DEF SimpleExec, RepliesFit, ReplyOfNone, Owed
  <2> QED
    BY <1>13, <2>4, <2>5, <2>6, <2>7, <2>8, <2>9
       DEF SimpleExec, Verdict, Doomed, Succeeds, Complete
<1>14. ASSUME NEW m \in Incoming, SimpleQuery(m)
      PROVE  RepliesFit'
  <2>1. /\ op # "none" /\ loop = "simpleQuery" /\ resp = "off" /\ ~bad /\ RepliesFit
        /\ rows # "open" /\ saved = "none" /\ m.up
    BY <1>14, <1>i, <1>f DEF SimpleQuery, TurnInv, PlaceInv
  <2>2. ReplyOfSimpleQuery
    BY <2>1 DEF RepliesFit
  <2>3. /\ Len(m.queue) <= 1
        /\ \/ Owed = "Z" /\ m.t = "Z" /\ First(m.queue) = "none" /\ m.txn = txn
           \/ Owed = "S2" /\ m.t = "C" /\ First(m.queue) = "S1"
           \/ Owed = "S2" /\ m.t = "T" /\ First(m.queue) = "R1"
           \/ Owed = "S1" /\ m.t \in {"C", "I"} /\ First(m.queue) = "Z"
           \/ Owed = "S1" /\ m.t = "T" /\ First(m.queue) = "R0"
           \/ Owed \in {"R1", "R0"} /\ m.t = "D" /\ First(m.queue) = Owed
           \/ Owed = "R1" /\ m.t = "C" /\ First(m.queue) = "S1"
           \/ Owed = "R0" /\ m.t = "C" /\ First(m.queue) = "Z"
           \/ Owed \in {"S2", "S1", "R1", "R0"} /\ m.t = "E" /\ First(m.queue) = "Z"
    <3>1. Owed \in {"S2", "S1", "R1", "R0", "Z"}
      BY <2>2 DEF ReplyOfSimpleQuery, Going, ErrorRead
    <3> QED
      BY <2>1, <3>1, FitStep DEF Follows, Txns, CanFail
  <2>4. CASE m.t \in {"C", "I"}
    <3>1. ~got.err /\ Going({"S2", "S1", "R1", "R0"})
      BY <2>2, <2>3, <2>4 DEF ReplyOfSimpleQuery, Going, ErrorRead
    <3>2. got' = HasResult("done") /\ UNCHANGED <<op, loop, user, copyin>> /\ Read(m, "none")
      BY <1>14, <2>4, <3>1 DEF SimpleQuery, Complete
    <3>3. got'.err = FALSE /\ got'.res = "done" /\ ~erred'
      BY <1>g, <2>4, <3>1, <3>2 DEF Going
    <3>4. ReplyOfSimpleQuery'
      BY <2>3, <2>4, <3>2, <3>3 DEF ReplyOfSimpleQuery, Going, Owed
    <3> QED
      BY <2>1, <2>3, <3>2, <3>4 DEF RepliesFit
  <2>5. CASE m.t = "T"
    <3>1. ~got.err /\ Going({"S2", "S1"})
      BY <2>2, <2>3, <2>5 DEF ReplyOfSimpleQuery, Going, ErrorRead
    <3>2. got' = HasResult("rows") /\ UNCHANGED <<op, loop, user, copyin>> /\ Read(m, "none")
      BY <1>14, <2>5, <3>1 DEF SimpleQuery, Complete
    <3>3. got'.err = FALSE /\ got'.res = "rows" /\ ~erred'
      BY <1>g, <2>5, <3>1, <3>2 DEF Going
    <3>4. ReplyOfSimpleQuery'
      BY <2>3, <2>5, <3>2, <3>3 DEF ReplyOfSimpleQuery, Going, Owed
    <3> QED
      BY <2>1, <2>3, <3>2, <3>4 DEF RepliesFit
  <2>6. CASE m.t = "E"
    <3>1. got' = OnlyErr /\ UNCHANGED <<op, loop, user, copyin>> /\ Read(m, "none")
      BY <1>14, <2>6 DEF SimpleQuery, Complete
    <3>2. ReplyOfSimpleQuery'
      BY <1>g, <2>3, <2>6, <3>1 DEF ReplyOfSimpleQuery, ErrorRead, Owed
    <3> QED
      BY <2>1, <2>3, <3>1, <3>2 DEF RepliesFit
  <2>7. CASE m.t = "Z"
    <3>1. rows' # "open"
      BY <1>14, <2>1, <2>2, <2>3, <2>7 DEF SimpleQuery, Complete, ReplyOfSimpleQuery,
         Going, ErrorRead
    <3> QED
      BY <1>14, <2>1, <2>3, <2>7, <3>1 DEF SimpleQuery, Complete, RepliesFit, ReplyOfNone, Owed
  <2>8. CASE m.t = "D"
    <3>1. got.res = "rows" /\ ~erred /\ Owed \in {"R1", "R0"}
      BY <2>2, <2>3, <2>8 DEF ReplyOfSimpleQuery, Going, ErrorRead
    <3>2. /\ rows' = "open" /\ op' = "none" /\ loop' = "none" /\ UNCHANGED copyin
          /\ saved' = "D" /\ queue' = m.queue /\ ~erred'
      BY <1>14, <2>8, <3>1 DEF SimpleQuery, Complete
    <3>3. ReplyOfRows'
      BY <2>3, <2>8, <3>1, <3>2 DEF ReplyOfRows, SavedFits, Owed
    <3> QED
      BY <2>1, <2>3, <3>2, <3>3 DEF RepliesFit
  <2> QED
    BY <2>3, <2>4, <2>5, <2>6, <2>7, <2>8
<1>15. ASSUME NEW m \in Incoming, PrepareTo(m)
      PROVE  RepliesFit'
  <2>1. /\ op # "none" /\ loop = "prepareTo" /\ resp = "off" /\ ~bad /\ RepliesFit
        /\ rows # "open" /\ saved = "none"
    BY <1>15, <1>i, <1>f DEF PrepareTo, TurnInv, PlaceInv
  <2>2. ErrorRead \/ Going({"P", "P1", "P2", "Z"})
    BY <2>1 DEF RepliesFit
  <2>3. /\ Len(m.queue) <= 1
        /\ m.up =>
             \/ Owed = "P" /\ m.t = "1" /\ First(m.queue) = "P1"
             \/ Owed = "P1" /\ m.t = "t" /\ First(m.queue) = "P2"
             \/ Owed = "P2" /\ m.t \in {"T", "n"} /\ First(m.queue) = "Z"
             \/ Owed = "Z" /\ m.t = "Z" /\ First(m.queue) = "none"
             \/ Owed \in {"P", "P1"} /\ m.t = "E" /\ First(m.queue) = "Z"
    BY <2>1, <2>2, FitStep DEF CanFail, Follows, Going, ErrorRead
  <2>4. m.up
    BY <1>15, <2>1, FitStep DEF PrepareTo
  <2>5. m.t = "Z" /\ queue' = Append(m.queue, "B") => Len(queue') <= 1 /\ First(queue') = "B"
    <3>0. m.queue \in Seq(Stage) /\ "B" \in Stage
      BY ReceivedType DEF Stage
    <3>1. ASSUME First(m.queue) = "none"
          PROVE  m.queue = << >> /\ Len(m.queue) = 0
      BY <3>0, <3>1, QueueTakes DEF Stage
    <3>2. m.queue = << >> => Len(Append(m.queue, "B")) = Len(m.queue) + 1 /\ First(Append(m.queue, "B")) = "B"
      BY <3>0, QueueAdds
    <3> QED
      BY <2>3, <2>4, <3>1, <3>2
  <2>6. CASE Read(m, "none") /\ loop' # "bind"
    BY <1>15, <1>g, <2>1, <2>2, <2>3, <2>4, <2>6 DEF PrepareTo, RepliesFit, ReplyOfNone,
       Owed, Going, ErrorRead
  <2>7. CASE /\ m.t = "Z" /\ ~got.err /\ GoOn("bind") /\ UNCHANGED user /\ UNCHANGED copyin
             /\ queue' = Append(m.queue, "B") /\ erred' = erred
    <3>1. ~erred
      BY <2>2, <2>7 DEF ErrorRead, Going
    <3>2. Going({"B"})'
      BY <1>g, <2>5, <2>7, <3>1 DEF Going, Owed
    <3> QED
      BY <2>1, <2>5, <2>7, <3>2 DEF RepliesFit
  <2> QED
    BY <1>15, <2>6, <2>7 DEF PrepareTo
<1>16. ASSUME NEW m \in Incoming, Bind(m)
      PROVE  RepliesFit'
  <2>1. /\ op # "none" /\ loop = "bind" /\ resp = "off" /\ ~bad /\ RepliesFit
        /\ rows # "open" /\ saved = "none"
    BY <1>16, <1>i, <1>f DEF Bind, TurnInv, PlaceInv
  <2>2. ErrorRead \/ Going({"B"})
    BY <2>1 DEF RepliesFit
  <2>3. /\ Len(m.queue) <= 1
        /\ m.up =>
             \/ Owed = "B" /\ m.t = "2" /\ First(m.queue) = "X"
             \/ Owed = "Z" /\ m.t = "Z" /\ First(m.queue) = "none"
             \/ Owed = "B" /\ m.t = "E" /\ First(m.queue) = "Z"
    BY <2>1, <2>2, FitStep DEF CanFail, Follows, Going, ErrorRead
  <2>4. m.up
    BY <1>16 DEF Bind
  <2> QED
    BY <1>16, <1>g, <2>1, <2>2, <2>3, <2>4 DEF Bind, Executed, RepliesFit,
     ReplyOfNone, Owed, Going, ErrorRead, ReplyOfRows, SavedFits
<1>17. ASSUME NEW m \in Incoming, Workaround(m)
      PROVE  RepliesFit'
  <2>1. /\ op # "none" /\ loop = "workaround" /\ resp = "off" /\ ~bad /\ RepliesFit
        /\ rows # "open" /\ saved = "none"
    BY <1>17, <1>i, <1>f DEF Workaround, TurnInv, PlaceInv
  <2>2. ErrorRead \/ Going({"X"})
    BY <2>1 DEF RepliesFit
  <2>3. /\ Len(m.queue) <= 1
        /\ m.up =>
             \/ Owed = "X" /\ m.t = "D" /\ First(m.queue) = "X"
             \/ Owed = "X" /\ m.t \in {"C", "I"} /\ First(m.queue) = "Z"
             \/ Owed = "Z" /\ m.t = "Z" /\ First(m.queue) = "none"
             \/ Owed = "X" /\ m.t = "E" /\ First(m.queue) = "Z"
    BY <2>1, <2>2, FitStep DEF CanFail, Follows, Going, ErrorRead
  <2>4. m.up
    BY <1>17 DEF Workaround
  <2> QED
    BY <1>17, <1>g, <2>1, <2>2, <2>3, <2>4 DEF Workaround, Executed, RepliesFit,
     ReplyOfNone, Owed, Going, ErrorRead, ReplyOfRows, SavedFits, Complete
<1>18. ASSUME NEW m \in Incoming, StExec(m)
      PROVE  RepliesFit'
  <2>1. /\ op # "none" /\ loop = "stExec" /\ resp = "off" /\ ~bad /\ RepliesFit
        /\ rows # "open" /\ m.up
    BY <1>18, <1>i, <1>f DEF StExec, TurnInv, PlaceInv
  <2>2. SavedFits /\ (ErrorRead \/ Going({"X", "Z"}))
    BY <2>1 DEF RepliesFit
  <2>3. /\ Len(m.queue) <= 1
        /\ \/ Owed = "X" /\ m.t = "D" /\ First(m.queue) = "X"
           \/ Owed = "X" /\ m.t \in {"C", "I"} /\ First(m.queue) = "Z"
           \/ Owed = "X" /\ m.t = "E" /\ First(m.queue) = "Z"
           \/ Owed = "Z" /\ m.t \in Complete \cup {"I"} /\ First(m.queue) = "Z"
           \/ Owed = "Z" /\ m.t = "Z" /\ First(m.queue) = "none" /\ m.txn = txn
    <3>1. Owed \in {"X", "Z"}
      BY <2>2 DEF Going, ErrorRead
    <3>2. CASE saved # "none"
      BY <2>1, <2>2, <3>1, <3>2, FitStep DEF SavedFits, Owed
    <3>3. CASE saved = "none"
      BY <2>1, <3>1, <3>3, FitStep DEF Follows, Txns, CanFail
    <3> QED
      BY <3>2, <3>3
  <2>4. CASE m.t \in Complete \cup {"D", "I"}
    <3>1. Continue(got) /\ UNCHANGED copyin /\ Read(m, "none")
      BY <1>18, <2>4 DEF StExec, Complete
    <3>2. ErrorRead' \/ Going({"X", "Z"})'
      BY <2>2, <2>3, <2>4, <3>1 DEF ErrorRead, Going, Owed, Complete
    <3> QED
      BY <2>1, <2>3, <3>1, <3>2 DEF RepliesFit, SavedFits
  <2>5. CASE m.t = "E"
    <3>1. Continue(Err) /\ UNCHANGED copyin /\ Read(m, "none")
      BY <1>18, <2>5 DEF StExec, Complete
    <3>2. ErrorRead'
      BY <1>g, <2>3, <2>5, <3>1 DEF ErrorRead, Owed, Complete
    <3> QED
      BY <2>1, <2>3, <3>1, <3>2 DEF RepliesFit, SavedFits
  <2>6. CASE m.t = "Z"
    BY <1>18, <2>1, <2>3, <2>6 DEF StExec, Complete, RepliesFit, ReplyOfNone, Owed
  <2> QED
    BY <2>3, <2>4, <2>5, <2>6 DEF Complete
<1>19. ASSUME NEW m \in Incoming, StClose(m)
      PROVE  RepliesFit'
  <2>1. /\ op # "none" /\ loop \in {"stClose", "stCloseZ"} /\ resp = "off" /\ ~bad /\ RepliesFit
        /\ rows # "open" /\ saved = "none" /\ m.up
    BY <1>19, <1>i, <1>f DEF StClose, TurnInv, PlaceInv
  <2>2. Owed = (IF loop = "stClose" THEN "CL" ELSE "Z") /\ ~erred
    BY <2>1 DEF RepliesFit
  <2>3. /\ Len(m.queue) <= 1
        /\ \/ Owed = "CL" /\ m.t = "3" /\ First(m.queue) = "Z"
           \/ Owed = "Z" /\ m.t = "Z" /\ First(m.queue) = "none"
    BY <2>1, <2>2, FitStep DEF Follows, CanFail
  <2> QED
    BY <1>19, <2>1, <2>2, <2>3 DEF StClose, RepliesFit, ReplyOfNone, Owed
<1>20. ASSUME NEW m \in Incoming, Rows(m)
      PROVE  RepliesFit'
  <2>1. loop = "next" /\ resp = "off" /\ ~bad /\ RepliesFit /\ rows = "open" /\ m.up /\ op \in {"Next", "RowsClose"}
    BY <1>20, <1>i, <1>f DEF Rows, TurnInv, PlaceInv
  <2>2. ReplyOfRows
    BY <2>1 DEF RepliesFit
  <2>3. /\ Len(m.queue) <= 1
        /\ \/ Owed \in {"R1", "R0", "X"} /\ m.t = "D" /\ First(m.queue) = Owed
           \/ Owed = "S1" /\ m.t = "T" /\ First(m.queue) = "R0"
           \/ /\ Owed \in {"R1", "R0", "S1", "X"}
              /\ m.t \in {"C", "I"} /\ First(m.queue) \in {"S1", "Z"}
           \/ Owed \in {"R1", "R0", "S1", "X"} /\ m.t = "E" /\ First(m.queue) = "Z"
           \/ Owed = "Z" /\ m.t \in Complete \cup {"I"} /\ First(m.queue) = "Z"
           \/ Owed = "Z" /\ m.t = "Z" /\ First(m.queue) = "none" /\ m.txn = txn
    <3>1. CASE saved # "none"
      BY <2>1, <2>2, <3>1, FitStep DEF ReplyOfRows, SavedFits, Owed
    <3>2. CASE saved = "none"
      <4>1. Owed \in {"R1", "R0", "S1", "X", "Z"}
        BY <2>2 DEF ReplyOfRows
      <4> QED
        BY <2>1, <3>2, <4>1, FitStep DEF Follows, Txns, CanFail
    <3> QED
      BY <3>1, <3>2
  <2>4. Owed # "Z" => ~erred
    BY <2>2 DEF ReplyOfRows, ErrorRead
  <2>5. /\ saved' = "none" /\ queue' = m.queue /\ txn' = m.txn /\ UNCHANGED copyin
        /\ erred' = (erred \/ m.t = "E")
    BY <1>20 DEF Rows
  <2>6. CASE m.t = "D" \/ m.t = "T"
    <3>1. ~erred' /\ Owed' \in {"R1", "R0", "X"}
      BY <2>3, <2>4, <2>5, <2>6 DEF Owed, Complete
    <3>2. loop' \in {"next", "none"} /\ rows' = "open"
      BY <1>20, <1>x, <2>1, <2>6 DEF Rows, Complete
    <3>3. ReplyOfRows'
      BY <2>5, <3>1 DEF ReplyOfRows, SavedFits
    <3> QED
      BY <2>1, <2>3, <2>5, <3>2, <3>3 DEF RepliesFit
  <2>7. CASE m.t \in Complete \cup {"I"}
    <3>1. Continue(got)
      BY <1>20, <2>7 DEF Rows, Complete
    <3>2. Owed' \in {"S1", "Z"}
      BY <2>3, <2>5, <2>7 DEF Owed, Complete
    <3>3. erred' => ErrorRead'
      <4>1. erred' => erred
        BY <2>5, <2>7 DEF Complete
      <4>2. erred => Owed = "Z" /\ got.err
        BY <2>2 DEF ReplyOfRows, ErrorRead
      <4>3. Owed = "Z" => Owed' = "Z"
        BY <2>3, <2>5, <2>7 DEF Owed, Complete
      <4> QED
        BY <3>1, <4>1, <4>2, <4>3 DEF ErrorRead
    <3>4. ReplyOfRows'
      BY <2>1, <2>5, <3>1, <3>2, <3>3 DEF ReplyOfRows, SavedFits
    <3> QED
      BY <2>1, <2>3, <2>5, <3>1, <3>4 DEF RepliesFit
  <2>8. CASE m.t = "E"
    <3>1. Continue(Err)
      BY <1>20, <2>8 DEF Rows, Complete
    <3>2. ErrorRead'
      BY <1>g, <2>3, <2>5, <2>8, <3>1 DEF ErrorRead, Owed, Complete
    <3>3. ReplyOfRows'
      BY <2>1, <2>5, <3>1, <3>2 DEF ReplyOfRows, SavedFits, ErrorRead
    <3> QED
      BY <2>1, <2>3, <2>5, <3>1, <3>3 DEF RepliesFit
  <2>9. CASE m.t = "Z"
    <3>1. op' = "none" /\ loop' = "none" /\ rows' # "open" /\ status' = m.txn
      BY <1>20, <2>9 DEF Rows, Complete
    <3>2. Owed' = "none"
      BY <2>3, <2>5, <2>9 DEF Owed, Complete
    <3> QED
      BY <2>1, <2>3, <2>5, <3>1, <3>2 DEF RepliesFit, ReplyOfNone
  <2> QED
    BY <2>3, <2>6, <2>7, <2>8, <2>9 DEF Complete
<1>21. ASSUME NEW m \in Incoming, AwaitCopy(m)
      PROVE  RepliesFit'
  <2>1. /\ op # "none" /\ loop = "awaitCopy" /\ resp = "off" /\ ~bad /\ RepliesFit
        /\ rows # "open" /\ saved = "none"
    BY <1>21, <1>i, <1>f DEF AwaitCopy, TurnInv, PlaceInv
  <2>2. ErrorRead \/ Going({"COPY"})
    BY <2>1 DEF RepliesFit
  <2>3. /\ Len(m.queue) <= 1
        /\ m.up =>
             \/ Owed = "COPY" /\ m.t \in {"G", "Gb"} /\ First(m.queue) = "IN"
             \/ Owed = "COPY" /\ m.t = "H" /\ First(m.queue) = "OUT"
             \/ Owed = "COPY" /\ m.t = "C" /\ First(m.queue) = "Z"
             \/ Owed = "Z" /\ m.t = "Z" /\ First(m.queue) = "none"
             \/ Owed = "COPY" /\ m.t = "E" /\ First(m.queue) = "Z"
    BY <2>1, <2>2, FitStep DEF CanFail, Follows, Going, ErrorRead
  <2>4. m.up
    BY <1>21, <2>1, FitStep DEF AwaitCopy
  <2>5. \A s \in {"INF", "OUT"} :
         m.t \in {"Gb", "H"} => Len(<<s>> \o Tail(m.queue)) <= 1 /\ First(<<s>> \o Tail(m.queue)) = s
    <3>1. m.queue \in Seq(Stage) /\ (m.t \in {"Gb", "H"} => m.queue # << >>)
      BY ReceivedType
    <3>2. "INF" \in Stage /\ "OUT" \in Stage
      BY DEF Stage
    <3> QED
      BY <2>3, <3>1, <3>2, QueueMoves
  <2> QED
    BY <1>21, <1>g, <2>1, <2>2, <2>3, <2>4, <2>5 DEF AwaitCopy, RepliesFit,
     ReplyOfNone, Owed, Going, ErrorRead, ReplyOfCopy
<1>22. ASSUME NEW m \in Incoming, CopyFail(m)
      PROVE  RepliesFit'
  <2>1. /\ op # "none" /\ loop = "copyFail" /\ resp = "off" /\ ~bad /\ RepliesFit
        /\ rows # "open" /\ saved = "none"
    BY <1>22, <1>i, <1>f DEF CopyFail, TurnInv, PlaceInv
  <2>2. Owed \in {"INF", "OUT", "OUTC", "Z"}
    BY <2>1 DEF RepliesFit
  <2>3. /\ Len(m.queue) <= 1
        /\ m.up =>
             \/ Owed = "OUT" /\ m.t = "d" /\ First(m.queue) = "OUT"
             \/ Owed = "OUT" /\ m.t = "c" /\ First(m.queue) = "OUTC"
             \/ Owed = "OUTC" /\ m.t = "C" /\ First(m.queue) = "Z"
             \/ Owed = "Z" /\ m.t = "Z" /\ First(m.queue) = "none"
             \/ Owed \in {"INF", "OUT"} /\ m.t = "E" /\ First(m.queue) = "Z"
    BY <2>1, <2>2, FitStep DEF CanFail, Follows
  <2>4. m.up
    BY <1>22 DEF CopyFail
  <2> QED
    BY <1>22, <1>g, <2>1, <2>2, <2>3, <2>4 DEF CopyFail, RepliesFit, ReplyOfNone,
     Owed, Complete
<1>23. ASSUME NEW m \in Incoming, RespLoop(m)
      PROVE  RepliesFit'
  <2>1. /\ loop \in {"none", "done"} /\ resp = "run" /\ RepliesFit
        /\ rows # "open" /\ saved = "none" /\ m.up
    BY <1>23, <1>i, <1>f DEF RespLoop, TurnInv
  <2>2. ReplyOfCopy
    BY <2>1 DEF RepliesFit
  <2>3. /\ Len(m.queue) <= 1
        /\ \/ Owed \in {"IN", "IND"} /\ m.t = "E" /\ First(m.queue) = "Z"
           \/ Owed = "IND" /\ m.t = "C" /\ First(m.queue) = "Z"
           \/ Owed = "Z" /\ m.t = "Z" /\ First(m.queue) = "none"
    <3>1. Owed \in {"IN", "IND", "Z"}
      BY <2>2 DEF ReplyOfCopy
    <3> QED
      BY <2>1, <3>1, FitStep DEF Follows, CanFail
  <2> QED
    BY <1>23, <2>1, <2>2, <2>3
       DEF RespLoop, RespEnds, Complete, RepliesFit, ReplyOfNone, ReplyOfCopy, Owed
<1>24. ASSUME NEW name \in {"CopySync", "CopyClose"}, CopyCall(name)
      PROVE  RepliesFit'
  <2>1. op = "none" /\ ~bad /\ loop = "none" /\ RepliesFit
    BY <1>24, <1>f DEF CopyCall, PlaceInv
  <2>2. op' = name /\ loop' = "done" /\ EndCopy("IND") /\ UNCHANGED <<status, user, copyin, saved>>
    BY <1>24, <1>i DEF CopyCall
  <2>3. /\ Len(queue') = Len(queue) /\ Owed' = (IF Owed = "IN" THEN "IND" ELSE Owed)
        /\ txn' = txn /\ erred' = erred
    BY <2>2, EndCopyStep DEF EndCopy, Owed, Stage
  <2>4. CASE resp = "run"
    <3>1. ReplyOfCopy' /\ rows # "open"
      BY <1>i, <2>1, <2>2, <2>3, <2>4 DEF RepliesFit, ReplyOfCopy, TurnInv
    <3> QED
      BY <2>1, <2>2, <2>3, <2>4, <3>1 DEF RepliesFit
  <2>5. CASE resp = "off" /\ rows # "open"
    <3>1. ReplyOfNone'
      BY <2>1, <2>2, <2>3, <2>5 DEF RepliesFit, ReplyOfNone
    <3> QED
      BY <2>1, <2>2, <2>3, <2>5, <3>1 DEF RepliesFit
  <2>6. CASE resp = "off" /\ rows = "open"
    <3>1. ReplyOfRows'
      BY <2>1, <2>2, <2>3, <2>6 DEF RepliesFit, ReplyOfRows, SavedFits
    <3> QED
      BY <2>1, <2>2, <2>3, <2>6, <3>1 DEF RepliesFit
  <2> QED
    BY <1>t, <2>4, <2>5, <2>6
<1>25. CASE CopyExec
  BY <1>25, <1>i, <1>f, <1>t DEF CopyExec, RepliesFit, ReplyOfNone, ReplyOfRows,
     ReplyOfCopy, ReplyOfSimpleExec, ReplyOfSimpleQuery, SavedFits, Going,
     ErrorRead, Owed, TurnInv, PlaceInv
<1>26. CASE CopyDone
  BY <1>26, <1>i, <1>f, <1>t DEF CopyDone, RepliesFit, ReplyOfNone, ReplyOfRows,
     ReplyOfCopy, ReplyOfSimpleExec, ReplyOfSimpleQuery, SavedFits, Going,
     ErrorRead, Owed, TurnInv, PlaceInv
<1>27. CASE CopyClosed
  BY <1>27, <1>i, <1>f, <1>t DEF CopyClosed, RepliesFit, ReplyOfNone, ReplyOfRows,
     ReplyOfCopy, ReplyOfSimpleExec, ReplyOfSimpleQuery, SavedFits, Going,
     ErrorRead, Owed, TurnInv, PlaceInv
<1>28. CASE RespAsync
  BY <1>28, <1>i, <1>f, <1>t DEF RespAsync, RespEnds, RepliesFit, ReplyOfNone,
     ReplyOfRows, ReplyOfCopy, ReplyOfSimpleExec, ReplyOfSimpleQuery, SavedFits,
     Going, ErrorRead, Owed, TurnInv, PlaceInv
<1>29. CASE RespFails
  BY <1>29, <1>i, <1>f, <1>t DEF RespFails, RespEnds, RepliesFit, ReplyOfNone,
     ReplyOfRows, ReplyOfCopy, ReplyOfSimpleExec, ReplyOfSimpleQuery, SavedFits,
     Going, ErrorRead, Owed, TurnInv, PlaceInv
<1>30. CASE Lose
  BY <1>30, <1>i, <1>f, <1>t DEF Lose, RepliesFit, ReplyOfNone, ReplyOfRows,
     ReplyOfCopy, ReplyOfSimpleExec, ReplyOfSimpleQuery, SavedFits, Going,
     ErrorRead, Owed, TurnInv, PlaceInv
<1>31. CASE UNCHANGED vars
  BY <1>31, <1>i, <1>f, <1>t DEF vars, RepliesFit, ReplyOfNone, ReplyOfRows,
     ReplyOfCopy, ReplyOfSimpleExec, ReplyOfSimpleQuery, SavedFits, Going,
     ErrorRead, Owed, TurnInv, PlaceInv
<1> QED
  BY <1>1, <1>2, <1>3, <1>4, <1>5, <1>6, <1>7, <1>8, <1>9, <1>10, <1>11, <1>12,
     <1>13, <1>14, <1>15, <1>16, <1>17, <1>18, <1>19, <1>20, <1>21, <1>22, <1>23,
     <1>24, <1>25, <1>26, <1>27, <1>28, <1>29, <1>30, <1>31, Steps

--------------------------------------------------------------------------------
(* What a receive loop may read *)

\* What is read where the reply fits: each loop knows the messages it reads, and comes to the
\* end of the reply only with the error there was in it.
Expects(m) ==
  /\ loop = "startup" => ~erred
  /\ loop = "simpleExec" =>
       /\ m.t \in Complete \cup {"T", "D", "I", "E", "Z"}
       /\ m.t = "Z" => Owed = "Z" /\ m.txn = txn
  /\ loop = "simpleQuery" =>
       /\ m.t \in {"C", "I", "T", "D", "E", "Z"}
       /\ m.t \in {"C", "I"} => ~got.err
       /\ m.t = "D" => got.res = "rows" /\ ~erred
       /\ m.t = "Z" => got.err \/ ~erred
  /\ loop = "prepareTo" =>
       m.t \in {"1", "t", "T", "n", "E", "Z"} /\ (m.t = "Z" => got.err \/ ~erred)
  /\ loop = "bind" => m.t \in {"2", "E", "Z"} /\ (m.t = "Z" => got.err)
  /\ loop = "workaround" =>
       /\ m.t \in {"C", "D", "I", "E", "Z"}
       /\ m.t = "Z" => got.err
       /\ m.t \in {"C", "D", "I"} => ~erred
  /\ loop = "stExec" =>
       m.t \in Complete \cup {"D", "I", "E", "Z"} /\ (m.t = "Z" => got.err \/ ~erred)
  /\ loop = "stClose" /\ m.up => m.t = "3"
  /\ loop = "stCloseZ" => ~erred /\ (m.up => m.t = "Z")
  /\ loop = "next" =>
       m.t \in Complete \cup {"T", "D", "I", "E", "Z"} /\ (m.t = "Z" => got.err \/ ~erred)
  /\ resp = "run" => m.t \in Complete \cup {"E", "Z"}

\* The messages read where the reply fits are those expected.
LEMMA Expected ==
  ASSUME TypeOK, PlaceInv, TurnInv, InTurn, RepliesFit, NEW m \in Incoming
  PROVE  Expects(m)
<1> DEFINE IsNext ==
       /\ ~m.up => m.t = "E"
       /\ m.up =>
            \/ Follows(Owed, m.t, First(m.queue)) /\ m.txn \in Txns(Owed, m.t)
            \/ m.t = "E" /\ Owed \in CanFail /\ First(m.queue) = "Z" /\ m.txn = Failed(Owed)
<1>1. saved = "none" => IsNext /\ Owed # "none"
  BY FitStep
<1>2. saved # "none" => m.t = saved /\ (rows = "open" \/ loop = "stExec")
  BY FitStep DEF TurnInv
<1>3. rows = "open" => loop \in {"none", "next", "done"} /\ resp = "off"
  BY DEF TurnInv
<1>4. got.err \in BOOLEAN /\ resp \in {"off", "run"}
  BY LocalsStep DEF TypeOK
<1>5. resp = "run" => loop \in {"none", "done"}
  BY <1>4 DEF TurnInv
<1>6. ASSUME loop = "startup"
      PROVE  ~erred
  BY <1>6 DEF RepliesFit
<1>7. ASSUME loop = "simpleExec"
      PROVE  /\ m.t \in Complete \cup {"T", "D", "I", "E", "Z"}
             /\ m.t = "Z" => Owed = "Z" /\ m.txn = txn
  <2>1. ReplyOfSimpleExec /\ saved = "none" /\ IsNext
    BY <1>1, <1>2, <1>3, <1>7 DEF RepliesFit
  <2>2. op \in {"Begin", "Commit", "Rollback", "CommitRollback", "Exec"}
    BY <1>7 DEF PlaceInv
  <2>3. Owed \in {"BEGIN", "COMMIT", "ROLLBACK", "S2", "S1", "R1", "R0", "Z"}
    BY <2>1, <2>2 DEF ReplyOfSimpleExec, Going
  <2> QED
    BY <2>1, <2>3 DEF Follows, Txns, Complete
<1>8. ASSUME loop = "simpleQuery"
      PROVE  /\ m.t \in {"C", "I", "T", "D", "E", "Z"}
             /\ m.t \in {"C", "I"} => ~got.err
             /\ m.t = "D" => got.res = "rows" /\ ~erred
             /\ m.t = "Z" => got.err \/ ~erred
  <2>1. ReplyOfSimpleQuery
    BY <1>8 DEF RepliesFit
  <2>2. saved = "none" /\ IsNext
    BY <1>1, <1>2, <1>3, <1>5, <1>8
  <2> QED
    BY <1>4, <2>1, <2>2 DEF Follows, CanFail, Going, ErrorRead, ReplyOfSimpleQuery
<1>9. ASSUME loop = "prepareTo"
      PROVE  m.t \in {"1", "t", "T", "n", "E", "Z"} /\ (m.t = "Z" => got.err \/ ~erred)
  <2>1. ErrorRead \/ Going({"P", "P1", "P2", "Z"})
    BY <1>9 DEF RepliesFit
  <2>2. saved = "none" /\ IsNext
    BY <1>1, <1>2, <1>3, <1>5, <1>9
  <2> QED
    BY <1>4, <2>1, <2>2 DEF Follows, CanFail, Going, ErrorRead
<1>10. ASSUME loop = "bind"
      PROVE  m.t \in {"2", "E", "Z"} /\ (m.t = "Z" => got.err)
  <2>1. ErrorRead \/ Going({"B"})
    BY <1>10 DEF RepliesFit
  <2>2. saved = "none" /\ IsNext
    BY <1>1, <1>2, <1>3, <1>5, <1>10
  <2> QED
    BY <1>4, <2>1, <2>2 DEF Follows, CanFail, Going, ErrorRead
<1>11. ASSUME loop = "workaround"
      PROVE  /\ m.t \in {"C", "D", "I", "E", "Z"}
             /\ m.t = "Z" => got.err
             /\ m.t \in {"C", "D", "I"} => ~erred
  <2>1. ErrorRead \/ Going({"X"})
    BY <1>11 DEF RepliesFit
  <2>2. saved = "none" /\ IsNext
    BY <1>1, <1>2, <1>3, <1>5, <1>11
  <2> QED
    BY <1>4, <2>1, <2>2 DEF Follows, CanFail, Going, ErrorRead
<1>13. ASSUME loop = "stClose"
      PROVE  m.up => m.t = "3"
  <2>1. Owed = "CL"
    BY <1>13 DEF RepliesFit
  <2>2. saved = "none" /\ IsNext
    BY <1>1, <1>2, <1>3, <1>5, <1>13
  <2> QED
    BY <1>4, <2>1, <2>2 DEF Follows, CanFail
<1>14. ASSUME loop = "stCloseZ"
      PROVE  ~erred /\ (m.up => m.t = "Z")
  <2>1. Owed = "Z" /\ ~erred
    BY <1>14 DEF RepliesFit
  <2>2. saved = "none" /\ IsNext
    BY <1>1, <1>2, <1>3, <1>5, <1>14
  <2> QED
    BY <1>4, <2>1, <2>2 DEF Follows, CanFail
<1>16. ASSUME resp = "run"
      PROVE  m.t \in Complete \cup {"E", "Z"}
  <2>1. ReplyOfCopy
    BY <1>16 DEF RepliesFit
  <2>2. saved = "none" /\ IsNext
    BY <1>1, <1>2, <1>3, <1>5, <1>16
  <2> QED
    BY <1>4, <2>1, <2>2 DEF Follows, CanFail, ReplyOfCopy, Complete
<1>12. ASSUME loop = "stExec"
      PROVE  m.t \in Complete \cup {"D", "I", "E", "Z"} /\ (m.t = "Z" => got.err \/ ~erred)
  <2>1. SavedFits /\ (ErrorRead \/ Going({"X", "Z"}))
    BY <1>12 DEF RepliesFit
  <2>2. CASE saved = "none"
    BY <1>1, <1>4, <2>1, <2>2 DEF Follows, CanFail, Going, ErrorRead, Complete
  <2>3. CASE saved # "none"
    BY <1>2, <2>1, <2>3 DEF SavedFits, Complete
  <2> QED
    BY <2>2, <2>3
<1>15. ASSUME loop = "next"
      PROVE  m.t \in Complete \cup {"T", "D", "I", "E", "Z"} /\ (m.t = "Z" => got.err \/ ~erred)
  <2>1. rows = "open" /\ ReplyOfRows
    BY <1>15 DEF TurnInv, RepliesFit
  <2>2. /\ SavedFits /\ Owed \in {"R1", "R0", "S1", "X", "Z"}
        /\ erred => got.err
    BY <2>1 DEF ReplyOfRows, ErrorRead
  <2>3. CASE saved = "none"
    BY <1>1, <2>2, <2>3 DEF Follows, CanFail, Complete
  <2>4. CASE saved # "none"
    BY <1>2, <2>2, <2>4 DEF SavedFits, Complete
  <2> QED
    BY <2>3, <2>4
<1> QED
  BY <1>6, <1>7, <1>8, <1>9, <1>10, <1>11, <1>12, <1>13, <1>14, <1>15, <1>16 DEF
     Expects

--------------------------------------------------------------------------------
(* The properties *)

\* A connection goes bad for a reason.
LEMMA BadStep ==
  ASSUME TypeOK, PlaceInv, TurnInv, ReplyInv, BadForAReason, [Next]_vars
  PROVE  BadForAReason'
<1> SUFFICES ASSUME up', excuse' = {}, ~bad, bad'
             PROVE  FALSE
  <2>1. excuse \subseteq excuse' /\ (up' => up)
    BY Monotone
  <2> QED
    BY <2>1 DEF BadForAReason, TypeOK
<1>i. excuse = {} /\ up /\ InTurn
  BY Monotone DEF InTurn
<1>f. ASSUME NEW m \in Incoming
      PROVE  Expects(m) /\ RepliesFit
  BY <1>i, <1>f, Expected DEF ReplyInv
<1>r. resp = "run" => loop \in {"none", "done"}
  BY <1>i DEF TurnInv, TypeOK
<1> USE DEF conn, user, copyin, server, Read, Continue, GoOn, Return, Outcome, Fails,
            Assert, Ready
<1>1. CASE Dial
  BY <1>1, <1>i DEF Dial, OpenFails
<1>2. CASE Ssl
  BY <1>2, <1>i DEF Ssl, OpenFails
<1>3. ASSUME NEW name \in Call, NEW b \in BOOLEAN, Misused(name, b)
      PROVE  FALSE
  BY <1>3, <1>i DEF Misused
<1>4. ASSUME NEW name \in Call, NEW lp \in Loops, NEW s \in Stage, Sends(name, lp,
   s), Send(name, lp, s)
      PROVE  FALSE
  BY <1>4, <1>i DEF Send, Sends
<1>5. ASSUME NEW name \in {"Next", "RowsClose"}, RowsCall(name)
      PROVE  FALSE
  BY <1>5, <1>i DEF RowsCall
<1>6. CASE RowsCloseDone
  BY <1>6, <1>i DEF RowsCloseDone
<1>7. CASE OnBad
  BY <1>7, <1>i DEF OnBad
<1>8. CASE Close
  BY <1>8, <1>i DEF Close
<1>9. CASE RecvFails
  BY <1>9, <1>i DEF RecvFails, PlaceInv
<1>10. ASSUME NEW m \in Incoming, Startup(m)
      PROVE  FALSE
  BY <1>10, <1>i DEF Startup, OpenFails
<1>11. ASSUME NEW m \in Incoming, AskPassword(m)
      PROVE  FALSE
  BY <1>11, <1>i DEF AskPassword, OpenFails
<1>12. ASSUME NEW m \in Incoming, Auth(m)
      PROVE  FALSE
  BY <1>12, <1>i DEF Auth, OpenFails
<1>13. ASSUME NEW m \in Incoming, SimpleExec(m)
      PROVE  FALSE
  <2>1. Expects(m) /\ ReplyOfSimpleExec /\ loop = "simpleExec"
    BY <1>13, <1>f DEF SimpleExec, RepliesFit
  <2>2. op \in {"Begin", "Commit", "Rollback", "CommitRollback", "Exec"} /\ got.err \in BOOLEAN
    BY <2>1, LocalsStep DEF PlaceInv
  <2>3. m.t \in Complete \cup {"T", "D", "I", "E", "Z"}
    BY <2>1 DEF Expects
  <2>4. m.t = "Z" /\ Verdict(m.txn)
    BY <1>13, <2>3 DEF SimpleExec, Complete
  <2>5. Owed = "Z" /\ m.txn = txn
    BY <2>1, <2>4 DEF Expects
  <2>6. op # "Exec" /\ (~got.err => Doomed)
    BY <1>13, <2>2, <2>4 DEF Verdict, Succeeds
  <2> QED
    BY <2>1, <2>2, <2>4, <2>5, <2>6
       DEF Verdict, Doomed, Succeeds, ReplyOfSimpleExec, Going, InTransaction
<1>14. ASSUME NEW m \in Incoming, SimpleQuery(m)
      PROVE  FALSE
  <2>1. Expects(m) /\ RepliesFit
    BY <1>f
  <2> QED
    BY <1>14, <1>i, <2>1 DEF SimpleQuery, Expects, Complete
<1>15. ASSUME NEW m \in Incoming, PrepareTo(m)
      PROVE  FALSE
  <2>1. Expects(m) /\ RepliesFit
    BY <1>f
  <2> QED
    BY <1>15, <1>i, <2>1 DEF PrepareTo, Expects, Complete
<1>16. ASSUME NEW m \in Incoming, Bind(m)
      PROVE  FALSE
  <2>1. Expects(m) /\ RepliesFit
    BY <1>f
  <2> QED
    BY <1>16, <1>i, <2>1 DEF Bind, Executed, Expects, Complete
<1>17. ASSUME NEW m \in Incoming, Workaround(m)
      PROVE  FALSE
  <2>1. Expects(m) /\ RepliesFit
    BY <1>f
  <2> QED
    BY <1>17, <1>i, <2>1 DEF Workaround, Executed, Expects, Complete
<1>18. ASSUME NEW m \in Incoming, StExec(m)
      PROVE  FALSE
  <2>1. Expects(m) /\ RepliesFit
    BY <1>f
  <2> QED
    BY <1>18, <1>i, <2>1 DEF StExec, Expects, Complete
<1>19. ASSUME NEW m \in Incoming, StClose(m)
      PROVE  FALSE
  <2>1. Expects(m) /\ RepliesFit
    BY <1>f
  <2> QED
    BY <1>19, <1>i, <2>1 DEF StClose, Expects, Complete
<1>20. ASSUME NEW m \in Incoming, Rows(m)
      PROVE  FALSE
  <2>1. Expects(m) /\ RepliesFit
    BY <1>f
  <2> QED
    BY <1>20, <1>i, <2>1 DEF Rows, Expects, Complete
<1>21. ASSUME NEW m \in Incoming, AwaitCopy(m)
      PROVE  FALSE
  <2>1. Expects(m) /\ RepliesFit
    BY <1>f
  <2> QED
    BY <1>21, <1>i, <2>1 DEF AwaitCopy, Expects, Complete
<1>22. ASSUME NEW m \in Incoming, CopyFail(m)
      PROVE  FALSE
  <2>1. Expects(m) /\ RepliesFit
    BY <1>f
  <2> QED
    BY <1>22, <1>i, <2>1 DEF CopyFail, Expects, Complete
<1>23. ASSUME NEW m \in Incoming, RespLoop(m)
      PROVE  FALSE
  <2>1. Expects(m) /\ RepliesFit
    BY <1>f
  <2> QED
    BY <1>23, <1>i, <2>1 DEF RespLoop, RespEnds, Expects, Complete
<1>24. ASSUME NEW name \in {"CopySync", "CopyClose"}, CopyCall(name)
      PROVE  FALSE
  BY <1>24, <1>i DEF CopyCall
<1>25. CASE CopyExec
  BY <1>25, <1>i DEF CopyExec
<1>26. CASE CopyDone
  BY <1>26, <1>i DEF CopyDone
<1>27. CASE CopyClosed
  BY <1>27, <1>i DEF CopyClosed
<1>28. CASE RespAsync
  BY <1>28, <1>i DEF RespAsync, RespEnds
<1>29. CASE RespFails
  BY <1>29, <1>i DEF RespFails, RespEnds
<1>30. CASE Lose
  BY <1>30, <1>i DEF Lose
<1>31. CASE UNCHANGED vars
  BY <1>31 DEF vars
<1> QED
  BY <1>1, <1>2, <1>3, <1>4, <1>5, <1>6, <1>7, <1>8, <1>9, <1>10, <1>11, <1>12,
     <1>13, <1>14, <1>15, <1>16, <1>17, <1>18, <1>19, <1>20, <1>21, <1>22, <1>23,
     <1>24, <1>25, <1>26, <1>27, <1>28, <1>29, <1>30, <1>31, Steps

\* The result is what happened.
TellsTruth ==
  /\ result.call = "Commit" => committed
  /\ result.call = "Begin" => txn = "T"
  /\ result.call = "Rollback" => txn = "I"

\* What Begin, Commit and Rollback report is what happened.
LEMMA OutcomesStep ==
  ASSUME TypeOK, PlaceInv, TurnInv, ReplyInv, OutcomesAgree, [Next]_vars
  PROVE  OutcomesAgree'
<1> SUFFICES ASSUME op' = "none", resp' = "off", result'.value = "ok", InTurn'
             PROVE  TellsTruth'
  BY DEF OutcomesAgree, InTurn, TellsTruth
<1>i. InTurn
  BY Monotone DEF InTurn
<1>t. resp \in {"off", "run"} /\ erred \in BOOLEAN /\ got.err \in BOOLEAN
  BY LocalsStep DEF TypeOK
<1>f. ASSUME NEW m \in Incoming, saved = "none", ~bad
      PROVE  Expects(m) /\ RepliesFit /\ (~m.up => m.t = "E")
  <2>1. up
    BY <1>f, ReceivedNew
  <2> QED
    BY <1>f, <1>i, <2>1, Expected, FitStep DEF ReplyInv
<1>s. \A m \in Incoming : m.t \notin Complete \cup {"D", "I"} => saved = "none"
  BY ReceivedType
<1> USE DEF conn, user, copyin, server, Read, Continue, GoOn, Return, Outcome, Fails,
            Assert, Ready
<1>1. CASE Dial
  BY <1>1 DEF Dial, OpenFails, OutcomesAgree, InTurn, TellsTruth, PlaceInv
<1>2. CASE Ssl
  BY <1>2 DEF Ssl, OpenFails, OutcomesAgree, InTurn, TellsTruth, PlaceInv
<1>3. ASSUME NEW name \in Call, NEW b \in BOOLEAN, Misused(name, b)
      PROVE  TellsTruth'
  BY <1>3 DEF Misused, OutcomesAgree, InTurn, TellsTruth
<1>4. ASSUME NEW name \in Call, NEW lp \in Loops, NEW s \in Stage, Sends(name, lp,
   s), Send(name, lp, s)
      PROVE  TellsTruth'
  BY <1>4 DEF Send, Sends, OutcomesAgree, InTurn, TellsTruth
<1>5. ASSUME NEW name \in {"Next", "RowsClose"}, RowsCall(name)
      PROVE  TellsTruth'
  BY <1>5 DEF RowsCall, OutcomesAgree, InTurn, TellsTruth
<1>6. CASE RowsCloseDone
  BY <1>6 DEF RowsCloseDone, OutcomesAgree, InTurn, TellsTruth
<1>7. CASE OnBad
  BY <1>7 DEF OnBad, OutcomesAgree, InTurn, TellsTruth
<1>8. CASE Close
  BY <1>8 DEF Close, OutcomesAgree, InTurn, TellsTruth
<1>9. CASE RecvFails
  BY <1>9 DEF RecvFails, OutcomesAgree, InTurn, TellsTruth
<1>10. ASSUME NEW m \in Incoming, Startup(m)
      PROVE  TellsTruth'
  <2>1. op \notin {"Begin", "Commit", "Rollback", "none"}
    BY <1>10 DEF Startup, PlaceInv
  <2> QED
    BY <1>10, <2>1 DEF Startup, OpenFails, TellsTruth
<1>11. ASSUME NEW m \in Incoming, AskPassword(m)
      PROVE  TellsTruth'
  BY <1>11, <1>t, <1>i DEF AskPassword, OpenFails, OutcomesAgree, InTurn,
     TellsTruth, PlaceInv, TurnInv, Complete
<1>12. ASSUME NEW m \in Incoming, Auth(m)
      PROVE  TellsTruth'
  BY <1>12, <1>t, <1>i DEF Auth, OpenFails, OutcomesAgree, InTurn, TellsTruth,
     PlaceInv, TurnInv, Complete
<1>13. ASSUME NEW m \in Incoming, SimpleExec(m)
      PROVE  TellsTruth'
  <2>1. ~bad /\ loop = "simpleExec" /\ saved = "none"
    BY <1>13, <1>i DEF SimpleExec, TurnInv, PlaceInv
  <2>2. Expects(m) /\ ReplyOfSimpleExec
    BY <1>f, <2>1 DEF RepliesFit
  <2>3. op \in {"Begin", "Commit", "Rollback", "CommitRollback", "Exec"}
    BY <2>1 DEF PlaceInv
  <2>4. m.t = "Z" /\ Verdict(m.txn) /\ Succeeds
    BY <1>13, <2>1, <2>2, <2>3 DEF SimpleExec, Expects, Verdict, Doomed, Succeeds
  <2>5. Owed = "Z" /\ m.txn = txn
    BY <2>2, <2>1, <2>4 DEF Expects
  <2> QED
    BY <1>13, <1>t, <2>2, <2>3, <2>4, <2>5 DEF SimpleExec, ReplyOfSimpleExec, Going,
       Verdict, Doomed, Succeeds, InTransaction, TellsTruth, TypeOK, TxnStatus
<1>14. ASSUME NEW m \in Incoming, SimpleQuery(m)
      PROVE  TellsTruth'
  <2>1. op \notin {"Begin", "Commit", "Rollback", "none"}
    BY <1>14 DEF SimpleQuery, PlaceInv
  <2> QED
    BY <1>14, <2>1 DEF SimpleQuery, TellsTruth
<1>15. ASSUME NEW m \in Incoming, PrepareTo(m)
      PROVE  TellsTruth'
  <2>1. op \notin {"Begin", "Commit", "Rollback", "none"}
    BY <1>15 DEF PrepareTo, PlaceInv
  <2> QED
    BY <1>15, <2>1 DEF PrepareTo, TellsTruth
<1>16. ASSUME NEW m \in Incoming, Bind(m)
      PROVE  TellsTruth'
  <2>1. op \notin {"Begin", "Commit", "Rollback", "none"}
    BY <1>16 DEF Bind, PlaceInv
  <2> QED
    BY <1>16, <2>1 DEF Bind, Executed, TellsTruth
<1>17. ASSUME NEW m \in Incoming, Workaround(m)
      PROVE  TellsTruth'
  <2>1. op \notin {"Begin", "Commit", "Rollback", "none"}
    BY <1>17 DEF Workaround, PlaceInv
  <2> QED
    BY <1>17, <2>1 DEF Workaround, Executed, TellsTruth
<1>18. ASSUME NEW m \in Incoming, StExec(m)
      PROVE  TellsTruth'
  <2>1. op \notin {"Begin", "Commit", "Rollback", "none"}
    BY <1>18 DEF StExec, PlaceInv
  <2> QED
    BY <1>18, <2>1 DEF StExec, TellsTruth
<1>19. ASSUME NEW m \in Incoming, StClose(m)
      PROVE  TellsTruth'
  <2>1. op \notin {"Begin", "Commit", "Rollback", "none"}
    BY <1>19 DEF StClose, PlaceInv
  <2> QED
    BY <1>19, <2>1 DEF StClose, TellsTruth
<1>20. ASSUME NEW m \in Incoming, Rows(m)
      PROVE  TellsTruth'
  <2>1. op \notin {"Begin", "Commit", "Rollback", "none"}
    BY <1>20 DEF Rows, PlaceInv
  <2> QED
    BY <1>20, <2>1 DEF Rows, TellsTruth
<1>21. ASSUME NEW m \in Incoming, AwaitCopy(m)
      PROVE  TellsTruth'
  BY <1>21, <1>t, <1>i DEF AwaitCopy, OutcomesAgree, InTurn, TellsTruth, PlaceInv,
     TurnInv, Complete
<1>22. ASSUME NEW m \in Incoming, CopyFail(m)
      PROVE  TellsTruth'
  BY <1>22, <1>t, <1>i DEF CopyFail, OutcomesAgree, InTurn, TellsTruth, PlaceInv,
     TurnInv, Complete
<1>23. ASSUME NEW m \in Incoming, RespLoop(m)
      PROVE  TellsTruth'
  BY <1>23, <1>t, <1>i DEF RespLoop, RespEnds, OutcomesAgree, InTurn, TellsTruth,
     TurnInv
<1>24. ASSUME NEW name \in {"CopySync", "CopyClose"}, CopyCall(name)
      PROVE  TellsTruth'
  BY <1>24 DEF CopyCall, OutcomesAgree, InTurn, TellsTruth
<1>25. CASE CopyExec
  BY <1>25 DEF CopyExec, OutcomesAgree, InTurn, TellsTruth
<1>26. CASE CopyDone
  BY <1>26, <1>t, <1>i DEF CopyDone, OutcomesAgree, InTurn, TellsTruth, TurnInv,
     PlaceInv
<1>27. CASE CopyClosed
  BY <1>27 DEF CopyClosed, OutcomesAgree, InTurn, TellsTruth
<1>28. CASE RespAsync
  BY <1>28, <1>t, <1>i DEF RespAsync, RespEnds, OutcomesAgree, InTurn, TellsTruth,
     TurnInv
<1>29. CASE RespFails
  BY <1>29, <1>t, <1>i DEF RespFails, RespEnds, OutcomesAgree, InTurn, TellsTruth,
     TurnInv
<1>30. CASE Lose
  BY <1>30 DEF Lose, OutcomesAgree, InTurn, TellsTruth
<1>31. CASE UNCHANGED vars
  BY <1>31 DEF vars, OutcomesAgree, InTurn, TellsTruth
<1> QED
  BY <1>1, <1>2, <1>3, <1>4, <1>5, <1>6, <1>7, <1>8, <1>9, <1>10, <1>11, <1>12,
     <1>13, <1>14, <1>15, <1>16, <1>17, <1>18, <1>19, <1>20, <1>21, <1>22, <1>23,
     <1>24, <1>25, <1>26, <1>27, <1>28, <1>29, <1>30, <1>31, Steps

\* A call that succeeds has not passed over an error.
LEMMA ErrorsStep ==
  ASSUME TypeOK, PlaceInv, TurnInv, ReplyInv, ErrorsReturned, [Next]_vars
  PROVE  ErrorsReturned'
<1> SUFFICES ASSUME op' = "none", resp' = "off", result'.value = "ok", result'.call # "PrepareCopy",
                    InTurn'
             PROVE  erred' = FALSE
  BY DEF ErrorsReturned, InTurn
<1>i. InTurn
  BY Monotone DEF InTurn
<1>t. resp \in {"off", "run"} /\ erred \in BOOLEAN /\ got.err \in BOOLEAN
  BY LocalsStep DEF TypeOK
<1>f. ASSUME NEW m \in Incoming, saved = "none", ~bad
      PROVE  Expects(m) /\ RepliesFit /\ (~m.up => m.t = "E")
  <2>1. up
    BY <1>f, ReceivedNew
  <2> QED
    BY <1>f, <1>i, <2>1, Expected, FitStep DEF ReplyInv
<1>s. \A m \in Incoming : m.t \notin Complete \cup {"D", "I"} => saved = "none"
  BY ReceivedType
<1> USE DEF conn, user, copyin, server, Read, Continue, GoOn, Return, Outcome, Fails,
            Assert, Ready
<1>1. CASE Dial
  BY <1>1 DEF Dial, OpenFails, ErrorsReturned, InTurn, PlaceInv
<1>2. CASE Ssl
  BY <1>2 DEF Ssl, OpenFails, ErrorsReturned, InTurn, PlaceInv
<1>3. ASSUME NEW name \in Call, NEW b \in BOOLEAN, Misused(name, b)
      PROVE  erred' = FALSE
  BY <1>3 DEF Misused, ErrorsReturned, InTurn
<1>4. ASSUME NEW name \in Call, NEW lp \in Loops, NEW s \in Stage, Sends(name, lp,
   s), Send(name, lp, s)
      PROVE  erred' = FALSE
  BY <1>4 DEF Send, Sends, ErrorsReturned, InTurn
<1>5. ASSUME NEW name \in {"Next", "RowsClose"}, RowsCall(name)
      PROVE  erred' = FALSE
  BY <1>5 DEF RowsCall, ErrorsReturned, InTurn
<1>6. CASE RowsCloseDone
  BY <1>6 DEF RowsCloseDone, ErrorsReturned, InTurn
<1>7. CASE OnBad
  BY <1>7 DEF OnBad, ErrorsReturned, InTurn
<1>8. CASE Close
  BY <1>8 DEF Close, ErrorsReturned, InTurn
<1>9. CASE RecvFails
  BY <1>9 DEF RecvFails, ErrorsReturned, InTurn
<1>10. ASSUME NEW m \in Incoming, Startup(m)
      PROVE  erred' = FALSE
  <2>1. ~bad /\ resp = "off" /\ op \notin {"none", "closed", "leaked"}
    BY <1>10, <1>i, <1>t DEF Startup, TurnInv, PlaceInv
  <2>2. saved = "none"
    BY <1>10, <1>i, <2>1 DEF Startup, TurnInv
  <2>3. saved = "none" => Expects(m)
    BY <1>f, <2>1
  <2> QED
    BY <1>10, <1>t, <1>s, <2>1, <2>2, <2>3 DEF Startup, OpenFails, PlaceInv, Expects,
     Complete, InTransaction
<1>11. ASSUME NEW m \in Incoming, AskPassword(m)
      PROVE  erred' = FALSE
  BY <1>11, <1>t, <1>i DEF AskPassword, OpenFails, ErrorsReturned, InTurn, PlaceInv,
     TurnInv, Complete
<1>12. ASSUME NEW m \in Incoming, Auth(m)
      PROVE  erred' = FALSE
  BY <1>12, <1>t, <1>i DEF Auth, OpenFails, ErrorsReturned, InTurn, PlaceInv,
     TurnInv, Complete
<1>13. ASSUME NEW m \in Incoming, SimpleExec(m)
      PROVE  erred' = FALSE
  <2>1. ~bad /\ loop = "simpleExec" /\ saved = "none"
    BY <1>13, <1>i DEF SimpleExec, TurnInv, PlaceInv
  <2>2. Expects(m) /\ ReplyOfSimpleExec
    BY <1>f, <2>1 DEF RepliesFit
  <2>3. op \in {"Begin", "Commit", "Rollback", "CommitRollback", "Exec"}
    BY <2>1 DEF PlaceInv
  <2>4. m.t = "Z" /\ Verdict(m.txn) /\ Succeeds
    BY <1>13, <2>1, <2>2, <2>3 DEF SimpleExec, Expects, Verdict, Doomed, Succeeds
  <2>5. Owed = "Z" /\ m.txn = txn
    BY <2>2, <2>1, <2>4 DEF Expects
  <2> QED
    BY <1>13, <1>t, <2>2, <2>3, <2>4 DEF SimpleExec, ReplyOfSimpleExec, Going, Verdict,
       Doomed, Succeeds
<1>14. ASSUME NEW m \in Incoming, SimpleQuery(m)
      PROVE  erred' = FALSE
  <2>1. ~bad /\ resp = "off" /\ op \notin {"none", "closed", "leaked"}
    BY <1>14, <1>i, <1>t DEF SimpleQuery, TurnInv, PlaceInv
  <2>2. saved = "none"
    BY <1>14, <1>i, <2>1 DEF SimpleQuery, TurnInv
  <2>3. saved = "none" => Expects(m)
    BY <1>f, <2>1
  <2> QED
    BY <1>14, <1>t, <1>s, <2>1, <2>2, <2>3 DEF SimpleQuery, PlaceInv, Expects,
     Complete, InTransaction
<1>15. ASSUME NEW m \in Incoming, PrepareTo(m)
      PROVE  erred' = FALSE
  <2>1. ~bad /\ resp = "off" /\ op \notin {"none", "closed", "leaked"}
    BY <1>15, <1>i, <1>t DEF PrepareTo, TurnInv, PlaceInv
  <2>2. saved = "none"
    BY <1>15, <1>i, <2>1 DEF PrepareTo, TurnInv
  <2>3. saved = "none" => Expects(m)
    BY <1>f, <2>1
  <2> QED
    BY <1>15, <1>t, <1>s, <2>1, <2>2, <2>3 DEF PrepareTo, PlaceInv, Expects, Complete,
     InTransaction
<1>16. ASSUME NEW m \in Incoming, Bind(m)
      PROVE  erred' = FALSE
  <2>1. ~bad /\ resp = "off" /\ op \notin {"none", "closed", "leaked"}
    BY <1>16, <1>i, <1>t DEF Bind, TurnInv, PlaceInv
  <2>2. saved = "none"
    BY <1>16, <1>i, <2>1 DEF Bind, TurnInv
  <2>3. saved = "none" => Expects(m)
    BY <1>f, <2>1
  <2> QED
    BY <1>16, <1>t, <1>s, <2>1, <2>2, <2>3 DEF Bind, Executed, PlaceInv, Expects,
     Complete, InTransaction
<1>17. ASSUME NEW m \in Incoming, Workaround(m)
      PROVE  erred' = FALSE
  <2>1. ~bad /\ resp = "off" /\ op \notin {"none", "closed", "leaked"}
    BY <1>17, <1>i, <1>t DEF Workaround, TurnInv, PlaceInv
  <2>2. saved = "none"
    BY <1>17, <1>i, <2>1 DEF Workaround, TurnInv
  <2>3. saved = "none" => Expects(m)
    BY <1>f, <2>1
  <2> QED
    BY <1>17, <1>t, <1>s, <2>1, <2>2, <2>3 DEF Workaround, Executed, PlaceInv,
     Expects, Complete, InTransaction
<1>18. ASSUME NEW m \in Incoming, StExec(m)
      PROVE  erred' = FALSE
  <2>1. ~bad /\ resp = "off" /\ op \notin {"none", "closed", "leaked"}
    BY <1>18, <1>i, <1>t DEF StExec, TurnInv, PlaceInv
  <2>3. saved = "none" => Expects(m)
    BY <1>f, <2>1
  <2> QED
    BY <1>18, <1>t, <1>s, <2>1, <2>3 DEF StExec, PlaceInv, Expects, Complete,
     InTransaction
<1>19. ASSUME NEW m \in Incoming, StClose(m)
      PROVE  erred' = FALSE
  <2>1. ~bad /\ resp = "off" /\ op \notin {"none", "closed", "leaked"}
    BY <1>19, <1>i, <1>t DEF StClose, TurnInv, PlaceInv
  <2>2. saved = "none"
    BY <1>19, <1>i, <2>1 DEF StClose, TurnInv
  <2>3. saved = "none" => Expects(m)
    BY <1>f, <2>1
  <2> QED
    BY <1>19, <1>t, <1>s, <2>1, <2>2, <2>3 DEF StClose, PlaceInv, Expects, Complete,
     InTransaction
<1>20. ASSUME NEW m \in Incoming, Rows(m)
      PROVE  erred' = FALSE
  <2>1. ~bad /\ resp = "off" /\ op \notin {"none", "closed", "leaked"}
    BY <1>20, <1>i, <1>t DEF Rows, TurnInv, PlaceInv
  <2>3. saved = "none" => Expects(m)
    BY <1>f, <2>1
  <2> QED
    BY <1>20, <1>t, <1>s, <2>1, <2>3 DEF Rows, PlaceInv, Expects, Complete,
     InTransaction
<1>21. ASSUME NEW m \in Incoming, AwaitCopy(m)
      PROVE  erred' = FALSE
  BY <1>21, <1>t, <1>i DEF AwaitCopy, ErrorsReturned, InTurn, PlaceInv, TurnInv,
     Complete
<1>22. ASSUME NEW m \in Incoming, CopyFail(m)
      PROVE  erred' = FALSE
  BY <1>22, <1>t, <1>i DEF CopyFail, ErrorsReturned, InTurn, PlaceInv, TurnInv,
     Complete
<1>23. ASSUME NEW m \in Incoming, RespLoop(m)
      PROVE  erred' = FALSE
  BY <1>23, <1>t, <1>i DEF RespLoop, RespEnds, ErrorsReturned, InTurn, TurnInv
<1>24. ASSUME NEW name \in {"CopySync", "CopyClose"}, CopyCall(name)
      PROVE  erred' = FALSE
  BY <1>24 DEF CopyCall, ErrorsReturned, InTurn
<1>25. CASE CopyExec
  BY <1>25 DEF CopyExec, ErrorsReturned, InTurn
<1>26. CASE CopyDone
  BY <1>26, <1>t, <1>i DEF CopyDone, ErrorsReturned, InTurn, TurnInv, PlaceInv
<1>27. CASE CopyClosed
  BY <1>27 DEF CopyClosed, ErrorsReturned, InTurn
<1>28. CASE RespAsync
  BY <1>28, <1>t, <1>i DEF RespAsync, RespEnds, ErrorsReturned, InTurn, TurnInv
<1>29. CASE RespFails
  BY <1>29, <1>t, <1>i DEF RespFails, RespEnds, ErrorsReturned, InTurn, TurnInv
<1>30. CASE Lose
  BY <1>30 DEF Lose, ErrorsReturned, InTurn
<1>31. CASE UNCHANGED vars
  BY <1>31 DEF vars, ErrorsReturned, InTurn
<1> QED
  BY <1>1, <1>2, <1>3, <1>4, <1>5, <1>6, <1>7, <1>8, <1>9, <1>10, <1>11, <1>12,
     <1>13, <1>14, <1>15, <1>16, <1>17, <1>18, <1>19, <1>20, <1>21, <1>22, <1>23,
     <1>24, <1>25, <1>26, <1>27, <1>28, <1>29, <1>30, <1>31, Steps

--------------------------------------------------------------------------------
(* The theorems *)

\* The invariant holds at the start.
LEMMA InvInit ==
  Init => IInv
<1> SUFFICES ASSUME Init
             PROVE  IInv
  OBVIOUS
<1>q. queue = << >> /\ queue \in Seq(Stage) /\ Len(queue) = 0 /\ Owed = "none"
  BY QueueTakes, EmptySeq DEF Init, Owed, First
<1>1. TypeOK
  <2>1. got \in [err : BOOLEAN, res : {"nil", "rows", "done"}, tag : Complete \cup {"none"}]
    BY DEF Init, Fresh
  <2>2. result \in [call : Call, value : {"none", "ok", "row", "error", "badconn"}]
    BY DEF Init, Call
  <2>3. MaxQueue \in Nat \ {0}
    BY ConstAssumption
  <2>4. TypeStrings /\ TypeBooleans
    BY <2>1, <2>2 DEF Init, TypeStrings, TypeBooleans, Locals, TxnStatus, Call, Complete
  <2>5. TypeQueue
    BY <1>q, <2>3 DEF Init, TypeQueue
  <2>6. excuse = {}
    BY DEF Init
  <2> QED
    BY <2>4, <2>5, <2>6 DEF TypeOK, TypeStrings, TypeBooleans, TypeQueue, Locals
<1>2. PlaceInv
  BY DEF Init, PlaceInv
<1>3. TurnInv
  BY DEF Init, TurnInv
<1>4. ReplyInv
  BY <1>q DEF Init, ReplyInv, RepliesFit
<1>5. BadForAReason /\ OutcomesAgree /\ ErrorsReturned
  BY DEF Init, BadForAReason, OutcomesAgree, ErrorsReturned
<1> QED
  BY <1>1, <1>2, <1>3, <1>4, <1>5 DEF IInv

\* The invariant is inductive.
LEMMA Inductive ==
  IInv /\ [Next]_vars => IInv'
<1> SUFFICES ASSUME IInv, [Next]_vars
             PROVE  IInv'
  OBVIOUS
<1>1. TypeOK /\ PlaceInv /\ TurnInv /\ ReplyInv /\ BadForAReason /\ OutcomesAgree /\ ErrorsReturned
  BY DEF IInv
<1>2. TypeOK'
  BY <1>1, TypeStep
<1>3. PlaceInv'
  BY <1>1, PlaceStep
<1>4. TurnInv'
  BY <1>1, TurnStep
<1>5. ReplyInv'
  BY <1>1, ReplyInvStep
<1>6. BadForAReason'
  BY <1>1, BadStep
<1>7. OutcomesAgree'
  BY <1>1, OutcomesStep
<1>8. ErrorsReturned'
  BY <1>1, ErrorsStep
<1> QED
  BY <1>2, <1>3, <1>4, <1>5, <1>6, <1>7, <1>8 DEF IInv

\* The invariant holds in every state.
THEOREM Invariant == Spec => []IInv
<1>1. Init => IInv
  BY InvInit
<1>2. IInv /\ [Next]_vars => IInv'
  BY Inductive
<1> QED
  BY <1>1, <1>2, PTL DEF Spec

\* Every variable keeps its type, and no more requests are under way than the bound.
THEOREM TypeCorrect == Spec => []TypeOK
<1>1. IInv => TypeOK
  BY DEF IInv
<1> QED
  BY <1>1, Invariant, PTL

\* Between calls a good connection has read every message of every reply, and agrees
\* with the server on the transaction, after errors, half-read rows and failed COPYs
\* too, as long as calls do not overlap.
THEOREM StaysInStep == Spec => []InStep
<1>1. IInv => InStep
  <2> SUFFICES ASSUME IInv, op = "none", resp = "off", rows # "open", ~bad, up, InTurn
               PROVE  queue = << >> /\ saved = "none" /\ status = txn
    BY DEF InStep, Idle, InTurn
  <2>1. TypeOK /\ PlaceInv /\ TurnInv /\ ReplyInv
    BY DEF IInv
  <2>2. Owed = "none" /\ status = txn
    BY <2>1 DEF ReplyInv, RepliesFit, ReplyOfNone
  <2>3. queue = << >>
    BY <2>1, <2>2, QueueTakes DEF TypeOK, Owed, Stage
  <2>4. loop = "none"
    BY <2>1 DEF PlaceInv
  <2>5. saved = "none"
    BY <2>1, <2>4 DEF TurnInv
  <2> QED
    BY <2>2, <2>3, <2>5
<1> QED
  BY <1>1, Invariant, PTL

\* A connection goes bad only when it is lost or the user did something to it, or on a
\* message of a COPY that its loop does not know.
THEOREM BadOnlyForAReason == Spec => []BadForAReason
<1>1. IInv => BadForAReason
  BY DEF IInv
<1> QED
  BY <1>1, Invariant, PTL

\* What Begin, Commit and Rollback report is what happened at the server.
THEOREM OutcomesTold == Spec => []OutcomesAgree
<1>1. IInv => OutcomesAgree
  BY DEF IInv
<1> QED
  BY <1>1, Invariant, PTL

\* A call that reports success has not passed over an error of the server.
THEOREM ErrorsTold == Spec => []ErrorsReturned
<1>1. IInv => ErrorsReturned
  BY DEF IInv
<1> QED
  BY <1>1, Invariant, PTL

\* Every call waits for something that is on its way, as long as calls do not overlap:
\* a message the server goes on to send, or the end of resploop.
THEOREM EveryCallIsAnswered == Spec => []NobodyWaitsInVain
<1>1. IInv => NobodyWaitsInVain
  <2> SUFFICES ASSUME IInv
               PROVE  NobodyWaitsInVain
    OBVIOUS
  <2>1. TypeOK /\ PlaceInv /\ TurnInv /\ ReplyInv
    BY DEF IInv
  <2>2. loop = "done" => done \/ resp = "run"
    BY <2>1 DEF PlaceInv
  <2>3. ASSUME InTurn, up, loop \notin {"none", "dial", "ssl"}, ~(loop = "done" /\ done),
               saved = "none"
        PROVE  Owed \notin {"none", "IN", "PW"}
    <3>1. loop = "done" => resp = "run"
      BY <2>2, <2>3
    <3>2. RepliesFit
      BY <2>1, <2>3, <3>1 DEF TurnInv, ReplyInv
    <3>3. CASE loop = "done"
      BY <3>1, <3>2, <3>3 DEF RepliesFit, ReplyOfCopy
    <3>4. CASE loop = "next"
      BY <2>1, <2>3, <3>2, <3>4 DEF TurnInv, RepliesFit, ReplyOfRows
    <3>5. CASE loop = "simpleExec"
      <4>1. op \in {"Begin", "Commit", "Rollback", "CommitRollback", "Exec"} /\ ReplyOfSimpleExec
        BY <2>1, <3>2, <3>5 DEF PlaceInv, RepliesFit
      <4> QED
        BY <4>1 DEF ReplyOfSimpleExec, Going
    <3>6. CASE loop = "simpleQuery"
      BY <3>2, <3>6 DEF RepliesFit, ReplyOfSimpleQuery, Going, ErrorRead
    <3>7. CASE loop \notin {"done", "next", "simpleExec", "simpleQuery"}
      BY <2>1, <2>3, <3>2, <3>7 DEF TypeOK, RepliesFit, Going, ErrorRead
    <3> QED
      BY <3>3, <3>4, <3>5, <3>6, <3>7
  <2> QED
    BY <2>2, <2>3 DEF NobodyWaitsInVain, Comes
<1> QED
  BY <1>1, Invariant, PTL
================================================================================
