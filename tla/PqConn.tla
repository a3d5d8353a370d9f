-------------------------------- MODULE PqConn ---------------------------------
(***************************************************************************)
(* lib/pq/conn.go, copy.go, and errRecover of error.go: one connection,    *)
(* from Open on, its calls one at a time as database/sql makes them, and   *)
(* the goroutine that reads the replies of a COPY FROM STDIN.              *)
(*                                                                         *)
(* A call sends its request and reads the reply in one of the receive      *)
(* loops of the code; an action is one message of such a loop.  PostgreSQL *)
(* is external: what it sends next depends on the stage of its reply to    *)
(* the oldest request, and is chosen when it is read.  Notices, parameter  *)
(* statuses and notifications, which recv1 skips, are left out there.      *)
(***************************************************************************)
EXTENDS Integers, Sequences

CONSTANTS
  UserTxn,    \* may a statement of the user begin or end a transaction?
  Overlaps,   \* does the user make calls while rows are open or a COPY runs?
  MaxQueue    \* bound: requests whose reply has not been read

ASSUME ConstAssumption == UserTxn \in BOOLEAN /\ Overlaps \in BOOLEAN /\ MaxQueue \in Nat \ {0}

VARIABLES
  op,         \* the call in course, or "none"
  loop,       \* the receive loop it is in
  got,        \* that loop's locals: an error, simpleExec's tag, simpleQuery's result
  result,     \* the last call and what it returned
  \* conn
  bad, saved, status,
  deadline,   \* the socket has a deadline
  \* what the user has
  rows,       \* its rows object: "none", "open", "done"
  stmt,       \* its prepared statement: "none", "open"
  copy,       \* its COPY: "none", "open", "closed"
  \* copyin
  ciErr,      \* ci.err is set
  resp,       \* resploop: "off", "run"
  done,       \* ci.done has an entry
  \* the server
  queue,      \* the stages of the replies it owes
  txn,        \* the state of its transaction
  up,         \* FALSE: nothing more can be read
  erred,      \* there was an error in the reply to the last request
  committed,  \* that was the COMMIT of an open transaction
  \* for the properties only
  excuse      \* what the user did to the connection, or a message it does not know

conn == <<bad, saved, status, deadline>>
user == <<rows, stmt, copy>>
copyin == <<ciErr, resp, done>>
server == <<queue, txn, up, erred, committed>>
vars == <<op, loop, got, result, conn, user, copyin, server, excuse>>

Call == {"open", "Begin", "Commit", "Rollback", "CommitRollback", "Exec", "Query", "Prepare",
         "QueryArgs", "ExecArgs", "StmtQuery", "StmtExec", "StmtClose", "Next", "RowsClose",
         "PrepareCopy", "CopyExec", "CopySync", "CopyClose", "Close", "any"}
Complete == {"C", "BEGIN", "COMMIT", "ROLLBACK"}
Stage == {"Z", "BEGIN", "COMMIT", "ROLLBACK", "S2", "S1", "R1", "R0", "P", "P1", "P2", "B", "X",
          "CL", "COPY", "IN", "IND", "INF", "OUT", "OUTC", "ST", "ST1", "PW", "PWD"}
TxnStatus == {"I", "T", "E"}

TypeOK ==
  /\ op \in Call \cup {"none", "closed", "leaked"}
  /\ loop \in {"none", "dial", "ssl", "startup", "auth", "simpleExec", "simpleQuery", "prepareTo",
               "bind", "workaround", "stExec", "stClose", "stCloseZ", "next", "awaitCopy",
               "copyFail", "done"}
  /\ got \in [err : BOOLEAN, res : {"nil", "rows", "done"}, tag : Complete \cup {"none"}]
  /\ result \in [call : Call, value : {"none", "ok", "row", "error", "badconn"}]
  /\ bad \in BOOLEAN /\ saved \in Complete \cup {"none", "D", "I"}
  /\ status \in TxnStatus /\ deadline \in BOOLEAN
  /\ rows \in {"none", "open", "done"} /\ stmt \in {"none", "open"}
  /\ copy \in {"none", "open", "closed"}
  /\ ciErr \in BOOLEAN /\ resp \in {"off", "run"} /\ done \in BOOLEAN
  /\ queue \in Seq(Stage) /\ Len(queue) <= MaxQueue
  /\ txn \in TxnStatus /\ up \in BOOLEAN
  /\ erred \in BOOLEAN /\ committed \in BOOLEAN
  /\ excuse \subseteq {"cut", "overlap", "misuse", "unknown"}

Fresh == [err |-> FALSE, res |-> "nil", tag |-> "none"]

Init ==
  /\ op = "open" /\ loop = "dial" /\ got = Fresh
  /\ result = [call |-> "open", value |-> "none"]
  /\ bad = FALSE /\ saved = "none" /\ status = "I" /\ deadline = FALSE
  /\ rows = "none" /\ stmt = "none" /\ copy = "none"
  /\ ciErr = FALSE /\ resp = "off" /\ done = FALSE
  /\ queue = << >> /\ txn = "I" /\ up = TRUE /\ erred = FALSE /\ committed = FALSE
  /\ excuse = {}

--------------------------------------------------------------------------------
(* The server *)

\* The replies that go well: in a stage, a message, and the stage after it
Replies == {
  <<"BEGIN", "BEGIN", "Z">>, <<"COMMIT", "COMMIT", "Z">>, <<"COMMIT", "ROLLBACK", "Z">>,
  <<"ROLLBACK", "ROLLBACK", "Z">>,
  <<"S2", "C", "S1">>, <<"S2", "T", "R1">>, <<"R1", "D", "R1">>, <<"R1", "C", "S1">>,
  <<"S1", "C", "Z">>, <<"S1", "T", "R0">>, <<"S1", "I", "Z">>,
  <<"R0", "D", "R0">>, <<"R0", "C", "Z">>,
  <<"P", "1", "P1">>, <<"P1", "t", "P2">>, <<"P2", "T", "Z">>, <<"P2", "n", "Z">>,
  <<"B", "2", "X">>, <<"X", "D", "X">>, <<"X", "C", "Z">>, <<"X", "I", "Z">>,
  <<"CL", "3", "Z">>,
  <<"COPY", "G", "IN">>, <<"COPY", "Gb", "IN">>, <<"COPY", "H", "OUT">>, <<"COPY", "C", "Z">>,
  <<"IND", "C", "Z">>, <<"OUT", "d", "OUT">>, <<"OUT", "c", "OUTC">>, <<"OUTC", "C", "Z">>,
  <<"ST", "R", "ST1">>, <<"ST", "R3", "PW">>, <<"PWD", "R", "ST1">>,
  <<"ST1", "S", "ST1">>, <<"ST1", "Z", "none">>, <<"Z", "Z", "none">>}

\* The transaction after such a message.  A statement of the user may have been a
\* BEGIN, COMMIT or ROLLBACK; in a failed transaction nothing goes well that does not
\* end it.
Txns(s, t) ==
  {x \in TxnStatus :
    /\ t = "BEGIN" => x = "T"
    /\ t \in {"COMMIT", "ROLLBACK"} => x = "I"
    /\ t \notin {"BEGIN", "COMMIT", "ROLLBACK"} =>
         x = txn \/ (UserTxn /\ t = "C" /\ s \in {"S2", "S1", "X"} /\ x # "E")
    /\ s = "COMMIT" => (t = "ROLLBACK" <=> txn = "E")
    /\ txn = "E" /\ s \in {"BEGIN", "S2", "S1", "P", "B", "COPY"} => x = "I"}

\* An error, after which the rest of the request is skipped
CanFail == {"BEGIN", "COMMIT", "S2", "S1", "R1", "R0", "P", "P1", "B", "X", "COPY", "IN", "IND", "INF", "OUT"}
Failed(s) ==
  IF s = "COMMIT" THEN "I" ELSE IF txn = "T" THEN "E" ELSE txn

\* What the connection may read next.  A FATAL error is the last of a session.
Message(t, q, x, alive) == [t |-> t, queue |-> q, txn |-> x, up |-> alive]
Then(next) == IF next = "none" THEN Tail(queue) ELSE <<next>> \o Tail(queue)

Usual(s) ==
  UNION {{Message(r[2], Then(r[3]), x, TRUE) : x \in Txns(s, r[2])} : r \in {q \in Replies : q[1] = s}}

Answers(s) ==
  Usual(s) \cup (IF s \in CanFail THEN {Message("E", Then("Z"), Failed(s), TRUE)} ELSE {})
           \cup {Message("E", << >>, txn, FALSE)}

Incoming ==
  IF saved # "none" THEN {Message(saved, queue, txn, up)}
  ELSE IF ~up \/ queue = << >> THEN {}
  ELSE Answers(Head(queue))

\* A request reaches it; in the middle of a COPY it is an error instead.
Request(s) ==
  /\ queue' = IF queue # << >> /\ Head(queue) = "IN" THEN <<"INF">> \o Tail(queue)
              ELSE Append(queue, s)
  /\ erred' = FALSE /\ committed' = FALSE
  /\ UNCHANGED <<txn, up>>

\* CopyDone or CopyFail; out of a COPY FROM the server ignores them.
EndCopy(s) ==
  /\ queue' = IF queue # << >> /\ Head(queue) = "IN" THEN <<s>> \o Tail(queue) ELSE queue
  /\ UNCHANGED <<txn, up, erred, committed>>

Lose ==
  /\ up /\ op \notin {"closed", "leaked"} /\ up' = FALSE
  /\ UNCHANGED <<op, loop, got, result, conn, user, copyin, queue, txn, erred, committed, excuse>>

--------------------------------------------------------------------------------
(* How calls begin and end *)

\* recvMessage, with what the server did before it sent m; keep is for saveMessage.
Read(m, keep) ==
  /\ saved' = keep
  /\ queue' = m.queue /\ txn' = m.txn /\ up' = m.up
  /\ erred' = (erred \/ m.t = "E")
  /\ committed' = (committed \/ (m.t = "COMMIT" /\ txn = "T"))

Outcome(name, value) == result' = [call |-> name, value |-> value]
Return(value) == op' = "none" /\ loop' = "none" /\ got' = Fresh /\ Outcome(op, value)

\* The loop goes on with these locals, the call goes on in another loop, or it ends
\* with an error, on a good or on a bad connection.
Continue(g) == got' = g /\ UNCHANGED <<op, loop, result, bad, status, user>>
GoOn(lp) == loop' = lp /\ got' = Fresh /\ UNCHANGED <<op, result, bad>>
Fails == Return("error") /\ UNCHANGED bad
Assert == Return("error") /\ bad' = TRUE /\ UNCHANGED <<status, user>>
Err == [got EXCEPT !.err = TRUE]
Tagged(t) == [got EXCEPT !.tag = t]
HasResult(r) == [got EXCEPT !.res = r]
OnlyErr == [Fresh EXCEPT !.err = TRUE]

\* processReadyForQuery
Ready(m) == m.t = "Z" /\ status' = m.txn

\* A call that sends the request s; the write fails only if the connection is lost.
Send(name, lp, s) ==
  /\ op = "none" /\ ~bad
  /\ Len(queue) < MaxQueue
  /\ rows # "done" /\ (rows = "open" \/ resp = "run" => Overlaps)
  /\ \/ /\ op' = name /\ loop' = lp /\ got' = Fresh
        /\ Request(s)
        /\ excuse' = IF rows = "open" \/ resp = "run" THEN excuse \cup {"overlap"} ELSE excuse
        /\ UNCHANGED <<result, bad>>
     \/ /\ ~up /\ bad' = TRUE
        /\ Outcome(name, "badconn")
        /\ UNCHANGED <<op, loop, got, server, excuse>>
  /\ UNCHANGED <<saved, status, deadline, user, copyin>>

InTransaction(s) == s \in {"T", "E"}

\* checkIsInTransaction(b) fails.
Misused(name, b) ==
  /\ op = "none" /\ ~bad
  /\ InTransaction(status) # b
  /\ bad' = TRUE /\ Outcome(name, "error")
  /\ excuse' = excuse \cup {"misuse"}
  /\ UNCHANGED <<op, loop, got, saved, status, deadline, user, copyin, server>>

Begin ==
  \/ Misused("Begin", FALSE)
  \/ ~InTransaction(status) /\ Send("Begin", "simpleExec", "BEGIN")

\* A failed transaction is rolled back instead.
Commit ==
  \/ Misused("Commit", TRUE)
  \/ status = "T" /\ Send("Commit", "simpleExec", "COMMIT")
  \/ status = "E" /\ Send("CommitRollback", "simpleExec", "ROLLBACK")

Rollback ==
  \/ Misused("Rollback", TRUE)
  \/ InTransaction(status) /\ Send("Rollback", "simpleExec", "ROLLBACK")

\* Without arguments: a text of one statement or of two
Exec == \E s \in {"S1", "S2"} : Send("Exec", "simpleExec", s)
Query == rows = "none" /\ \E s \in {"S1", "S2"} : Send("Query", "simpleQuery", s)

\* With arguments
QueryArgs == rows = "none" /\ Send("QueryArgs", "prepareTo", "P")
ExecArgs == Send("ExecArgs", "prepareTo", "P")

Prepare == stmt = "none" /\ Send("Prepare", "prepareTo", "P")
StmtQuery == stmt = "open" /\ rows = "none" /\ Send("StmtQuery", "bind", "B")
StmtExec == stmt = "open" /\ Send("StmtExec", "bind", "B")
StmtClose == stmt = "open" /\ Send("StmtClose", "stClose", "CL")
PrepareCopy == copy = "none" /\ InTransaction(status) /\ Send("PrepareCopy", "awaitCopy", "COPY")

\* Next and Close of rows send nothing.
RowsCall(name) ==
  /\ op = "none" /\ ~bad /\ rows = "open"
  /\ op' = name /\ loop' = "next" /\ got' = Fresh
  /\ UNCHANGED <<result, conn, user, copyin, server, excuse>>

RowsCloseDone ==
  /\ op = "none" /\ rows = "done" /\ rows' = "none"
  /\ UNCHANGED <<op, loop, got, result, conn, stmt, copy, copyin, server, excuse>>

\* Any call on a bad connection; its Close leaves the socket open.
OnBad ==
  /\ op = "none" /\ bad
  /\ op' \in {"none", "leaked"} /\ Outcome("any", "badconn")
  /\ UNCHANGED <<loop, got, conn, user, copyin, server, excuse>>

\* conn.Close: so does a Terminate message that cannot be written.
Close ==
  /\ op = "none" /\ ~bad /\ rows = "none" /\ resp = "off"
  /\ \/ op' = "closed" /\ Outcome("Close", "ok")
     \/ ~up /\ op' = "leaked" /\ Outcome("Close", "error")
  /\ UNCHANGED <<loop, got, conn, user, copyin, server, excuse>>

\* recvMessage fails: io.EOF and net.OpError make the connection bad, and
\* io.ErrUnexpectedEOF does not.  Open gives up.
RecvFails ==
  /\ loop \notin {"none", "dial", "done"} /\ saved = "none"
  /\ ~up \/ deadline
  /\ IF op = "open"
     THEN op' = "leaked" /\ loop' = "none" /\ got' = Fresh /\ Outcome("open", "error") /\ UNCHANGED bad
     ELSE (bad' = TRUE /\ Return("badconn")) \/ Fails
  /\ rows' = IF op = "RowsClose" THEN "none" ELSE rows
  /\ UNCHANGED <<saved, status, deadline, stmt, copy, copyin, server, excuse>>

--------------------------------------------------------------------------------
(* Open *)

OpenFails ==
  /\ op' = "leaked" /\ loop' = "none" /\ got' = Fresh /\ Outcome("open", "error")
  /\ UNCHANGED <<bad, status, deadline, user>>

\* Settings it does not take, no connection; or a socket, with a deadline if there
\* is a connect_timeout.
Dial ==
  /\ loop = "dial"
  /\ \/ OpenFails /\ UNCHANGED server
     \/ /\ deadline' \in BOOLEAN
        /\ \/ loop' = "ssl" /\ UNCHANGED server
           \/ loop' = "startup" /\ Request("ST")
        /\ UNCHANGED <<op, got, result, bad, status, user>>
  /\ UNCHANGED <<saved, copyin, excuse>>

\* The server answers with one byte.
Ssl ==
  /\ loop = "ssl" /\ up
  /\ \/ OpenFails /\ UNCHANGED server
     \/ loop' = "startup" /\ Request("ST") /\ UNCHANGED <<op, got, result, bad, status, deadline, user>>
  /\ UNCHANGED <<saved, copyin, excuse>>

Startup_KeepDeadline(m) ==
  /\ loop = "startup" /\ m.t # "R3" /\ Read(m, "none")
  /\ \/ m.t \in {"S", "R"} /\ Continue(got) /\ UNCHANGED deadline
     \/ Ready(m) /\ Return("ok") /\ UNCHANGED <<bad, user, deadline>>
     \/ m.t \notin {"S", "R", "Z"} /\ OpenFails
  /\ UNCHANGED <<copyin, excuse>>

\* startup, and DialOpen after it
Startup(m) ==
  /\ loop = "startup" /\ m.t # "R3" /\ Read(m, "none")
  /\ \/ m.t \in {"S", "R"} /\ Continue(got) /\ UNCHANGED deadline
     \/ Ready(m) /\ deadline' = FALSE /\ Return("ok") /\ UNCHANGED <<bad, user>>
     \/ m.t \notin {"S", "R", "Z"} /\ OpenFails
  /\ UNCHANGED <<copyin, excuse>>

\* auth: it sends the password, or does not know the method.
AskPassword(m) ==
  /\ loop = "startup" /\ m.t = "R3"
  /\ \/ /\ GoOn("auth") /\ UNCHANGED <<status, deadline, user>>
        /\ queue' = <<"PWD">> \o Tail(queue) /\ UNCHANGED <<txn, up, erred, committed, saved>>
     \/ OpenFails /\ Read(m, "none")
  /\ UNCHANGED <<copyin, excuse>>

Auth(m) ==
  /\ loop = "auth" /\ Read(m, "none")
  /\ IF m.t = "R" THEN GoOn("startup") /\ UNCHANGED <<status, deadline, user>> ELSE OpenFails
  /\ UNCHANGED <<copyin, excuse>>

--------------------------------------------------------------------------------
(* The receive loops, one message each *)

Verdict_Status(st) ==
  \/ InTransaction(st) = (op = "Begin") /\ Return("ok") /\ UNCHANGED bad
  \/ /\ InTransaction(st) # (op = "Begin") /\ op = "Exec"
     /\ Return(IF got.err THEN "error" ELSE "ok") /\ UNCHANGED bad
  \/ /\ InTransaction(st) # (op = "Begin") /\ op # "Exec"
     /\ Return("error") /\ bad' = (bad \/ op # "Begin")

\* What Exec, Begin, Commit and Rollback make of simpleExec's results and the new
\* status: what do they return, and is the connection bad?
Doomed == bad' = TRUE /\ Return("error")
Succeeds == Return("ok") /\ UNCHANGED bad

Verdict(st) ==
  \/ op = "Exec" /\ IF got.err THEN Fails ELSE Succeeds
  \/ op # "Exec" /\ got.err /\ IF op # "Begin" /\ InTransaction(st) THEN Doomed ELSE Fails
  \/ /\ op = "Begin" /\ ~got.err
     /\ IF got.tag = "BEGIN" /\ st = "T" THEN Succeeds ELSE Doomed
  \/ /\ op = "Commit" /\ ~got.err
     /\ IF got.tag = "COMMIT" /\ ~InTransaction(st) THEN Succeeds ELSE Doomed
  \/ /\ op \in {"Rollback", "CommitRollback"} /\ ~got.err
     /\ \/ got.tag # "ROLLBACK" /\ Fails
        \/ got.tag = "ROLLBACK" /\ InTransaction(st) /\ Doomed
        \/ /\ got.tag = "ROLLBACK" /\ ~InTransaction(st)
           /\ IF op = "Rollback" THEN Succeeds ELSE Fails

SimpleExec(m) ==
  /\ loop = "simpleExec" /\ Read(m, "none")
  /\ \/ m.t \in {"T", "D", "I"} /\ Continue(got)
     \/ m.t \in Complete /\ Continue(Tagged(m.t))
     \/ m.t = "E" /\ Continue(Err)
     \/ Ready(m) /\ Verdict(m.txn) /\ UNCHANGED user
     \/ m.t \notin Complete \cup {"T", "D", "I", "E", "Z"} /\ Assert
  /\ UNCHANGED <<deadline, copyin, excuse>>

\* The first row is saved for Next.
SimpleQuery(m) ==
  /\ loop = "simpleQuery" /\ Read(m, IF m.t = "D" /\ got.res # "nil" THEN "D" ELSE "none")
  /\ \/ m.t \in Complete \cup {"I"} /\ ~got.err /\ Continue(HasResult("done"))
     \/ m.t \in Complete \cup {"I"} /\ got.err /\ Assert
     \/ m.t = "T" /\ Continue(HasResult("rows"))
     \/ m.t = "E" /\ Continue(OnlyErr)
     \/ /\ Ready(m) /\ UNCHANGED <<bad, stmt, copy>>
        /\ IF got.err THEN Return("error") /\ UNCHANGED rows
           ELSE Return("ok") /\ rows' = IF got.res = "rows" THEN "open" ELSE "done"
     \/ /\ m.t = "D" /\ got.res # "nil"
        /\ rows' = "open" /\ Return("ok") /\ UNCHANGED <<bad, status, stmt, copy>>
     \/ m.t = "D" /\ got.res = "nil" /\ Assert
     \/ m.t \notin Complete \cup {"I", "T", "E", "Z", "D"} /\ Assert
  /\ UNCHANGED <<deadline, copyin, excuse>>

PrepareTo_NoWait(m) ==
  /\ loop = "prepareTo" /\ Read(m, "none")
  /\ \/ m.t \in {"1", "t", "T", "n"} /\ Continue(got)
     \/ m.t = "E" /\ Fails /\ UNCHANGED <<status, user>>
     \/ /\ Ready(m) /\ ~got.err
        /\ \/ /\ op = "Prepare" /\ Return("ok")
              /\ stmt' = "open" /\ UNCHANGED <<bad, rows, copy>>
           \/ op # "Prepare" /\ Fails /\ UNCHANGED user
     \/ m.t \notin {"1", "t", "T", "n", "E", "Z"} /\ Assert
  /\ UNCHANGED <<deadline, copyin, excuse>>

\* Prepare ends here; Query and Exec with arguments execute the statement, unless
\* the arguments do not fit it.
PrepareTo(m) ==
  /\ loop = "prepareTo"
  /\ \/ /\ m.t \in {"1", "t", "T", "n"} /\ Continue(got) /\ Read(m, "none")
     \/ m.t = "E" /\ Continue(Err) /\ Read(m, "none")
     \/ /\ Ready(m) /\ got.err
        /\ Fails /\ UNCHANGED user /\ Read(m, "none")
     \/ /\ Ready(m) /\ ~got.err /\ op # "Prepare"
        /\ Fails /\ UNCHANGED user /\ Read(m, "none")
     \/ /\ Ready(m) /\ ~got.err /\ op = "Prepare" /\ Read(m, "none")
        /\ Return("ok")
        /\ stmt' = "open" /\ UNCHANGED <<bad, rows, copy>>
     \/ /\ Ready(m) /\ ~got.err /\ op # "Prepare"
        /\ GoOn("bind") /\ UNCHANGED user
        /\ saved' = "none" /\ queue' = Append(m.queue, "B")
        /\ UNCHANGED <<txn, up, erred, committed>>
     \/ m.t \notin {"1", "t", "T", "n", "E", "Z"} /\ Assert /\ Read(m, "none")
  /\ UNCHANGED <<deadline, copyin, excuse>>

\* st.exec returns: Query has its rows, Exec reads on.
Executed ==
  IF op \in {"QueryArgs", "StmtQuery"}
  THEN rows' = "open" /\ Return("ok") /\ UNCHANGED <<bad, stmt, copy>>
  ELSE GoOn("stExec") /\ UNCHANGED user

Bind(m) ==
  /\ loop = "bind" /\ Read(m, "none")
  /\ \/ m.t = "E" /\ Continue(Err)
     \/ m.t = "2" /\ ~got.err /\ GoOn("workaround") /\ UNCHANGED <<status, user>>
     \/ m.t = "2" /\ got.err /\ Fails /\ UNCHANGED <<status, user>>
     \/ Ready(m) /\ IF got.err THEN Fails /\ UNCHANGED user ELSE Executed
     \/ m.t \notin {"E", "2", "Z"} /\ Assert
  /\ UNCHANGED <<deadline, copyin, excuse>>

Workaround_Any(m) ==
  /\ loop = "workaround" /\ Read(m, IF m.t = "E" THEN "none" ELSE m.t)
  /\ \/ m.t = "E" /\ Continue(Err)
     \/ m.t # "E" /\ Executed /\ UNCHANGED status
  /\ UNCHANGED <<deadline, copyin, excuse>>

\* st.exec waits for one more message, which it saves unless it is an error.
Workaround(m) ==
  /\ loop = "workaround" /\ Read(m, IF m.t \in Complete \cup {"D", "I"} THEN m.t ELSE "none")
  /\ \/ m.t = "E" /\ Continue(Err)
     \/ m.t \in Complete \cup {"D", "I"} /\ Executed /\ UNCHANGED status
     \/ Ready(m) /\ got.err /\ Fails /\ UNCHANGED user
     \/ m.t \notin Complete \cup {"D", "I", "E", "Z"} /\ Assert
     \/ m.t = "Z" /\ ~got.err /\ Assert
  /\ UNCHANGED <<deadline, copyin, excuse>>

StExec(m) ==
  /\ loop = "stExec" /\ Read(m, "none")
  /\ \/ m.t \in Complete \cup {"T", "D", "I"} /\ Continue(got)
     \/ m.t = "E" /\ Continue(Err)
     \/ /\ Ready(m) /\ Return(IF got.err THEN "error" ELSE "ok")
        /\ UNCHANGED <<bad, user>>
     \/ m.t \notin Complete \cup {"T", "D", "I", "E", "Z"} /\ Assert
  /\ UNCHANGED <<deadline, copyin, excuse>>

StClose(m) ==
  /\ \/ /\ loop = "stClose"
        /\ \/ m.t = "3" /\ GoOn("stCloseZ") /\ stmt' = "none" /\ UNCHANGED <<status, rows, copy>>
           \/ m.t # "3" /\ Assert
     \/ /\ loop = "stCloseZ"
        /\ \/ Ready(m) /\ Return("ok") /\ UNCHANGED <<bad, user>>
           \/ m.t # "Z" /\ Assert
  /\ Read(m, "none")
  /\ UNCHANGED <<deadline, copyin, excuse>>

Rows_Dropped(m) ==
  /\ loop = "next" /\ Read(m, "none")
  /\ \/ m.t \in Complete \cup {"I", "E"} /\ Continue(got)
     \/ m.t = "D" /\ op = "Next" /\ Return("row") /\ UNCHANGED <<bad, status, user>>
     \/ m.t = "D" /\ op = "RowsClose" /\ Continue(got)
     \/ /\ Ready(m) /\ Return("ok")
        /\ rows' = (IF op = "RowsClose" THEN "none" ELSE "done") /\ UNCHANGED <<bad, stmt, copy>>
  /\ UNCHANGED <<deadline, copyin, excuse>>

\* rows.Next; Close calls it until the rows are done or it fails.  A value that does
\* not decode, and a message it does not expect, leave the connection as it is.
Rows(m) ==
  /\ loop = "next" /\ Read(m, "none")
  /\ \/ m.t = "E" /\ Continue(Err) /\ UNCHANGED excuse
     \/ m.t \in Complete \cup {"I"} /\ Continue(got) /\ UNCHANGED excuse
     \/ /\ Ready(m) /\ Return(IF got.err THEN "error" ELSE "ok")
        /\ rows' = (IF op = "RowsClose" THEN "none" ELSE "done")
        /\ UNCHANGED <<bad, stmt, copy, excuse>>
     \/ /\ m.t = "D" /\ op = "Next"
        /\ \E v \in {"row", "error"} : Return(v)
        /\ UNCHANGED <<bad, status, user, excuse>>
     \/ m.t = "D" /\ op = "RowsClose" /\ Continue(Fresh) /\ UNCHANGED excuse
     \/ /\ m.t \notin Complete \cup {"E", "I", "Z", "D"}
        /\ Fails
        /\ IF op = "RowsClose"
           THEN rows' = "none" /\ excuse' = excuse \cup {"cut"}
           ELSE UNCHANGED <<rows, excuse>>
        /\ UNCHANGED <<status, stmt, copy>>
  /\ UNCHANGED <<deadline, copyin>>

--------------------------------------------------------------------------------
(* COPY *)

\* prepareCopyIn: the text format of COPY FROM STDIN starts resploop, the binary one
\* and COPY TO are given up; the rest of what COPY can be answered with is not
\* known.
AwaitCopy(m) ==
  /\ loop = "awaitCopy"
  /\ \/ /\ m.t = "G" /\ Return("ok") /\ Read(m, "none")
        /\ copy' = "open" /\ resp' = "run" /\ ciErr' = FALSE /\ done' = FALSE
        /\ UNCHANGED <<bad, status, rows, stmt, excuse>>
     \/ /\ m.t \in {"Gb", "H"} /\ GoOn("copyFail") /\ UNCHANGED <<status, user, copyin, excuse>>
        /\ saved' = "none" /\ UNCHANGED <<txn, up, erred, committed>>
        /\ queue' = <<IF m.t = "Gb" THEN "INF" ELSE "OUT">> \o Tail(m.queue)
     \/ m.t = "E" /\ Continue(Err) /\ Read(m, "none") /\ UNCHANGED <<copyin, excuse>>
     \/ /\ Ready(m) /\ got.err /\ Fails /\ Read(m, "none") /\ UNCHANGED <<user, copyin, excuse>>
     \/ /\ m.t \notin {"G", "Gb", "H", "E"} /\ (m.t = "Z" => ~got.err)
        /\ Assert /\ Read(m, "none")
        /\ excuse' = excuse \cup {"unknown"} /\ UNCHANGED copyin
  /\ UNCHANGED deadline

CopyFail(m) ==
  /\ loop = "copyFail" /\ Read(m, "none")
  /\ \/ m.t \in Complete \cup {"c", "E"} /\ Continue(got) /\ UNCHANGED excuse
     \/ Ready(m) /\ Fails /\ UNCHANGED <<user, excuse>>
     \/ /\ m.t \notin Complete \cup {"c", "E", "Z"} /\ Assert
        /\ excuse' = excuse \cup {"unknown"}
  /\ UNCHANGED <<deadline, copyin>>

\* copyin.Exec with a row: it is in the buffer or in a CopyData message, unless the
\* error of an earlier one is known, or the write fails.
CopyExec ==
  /\ op = "none" /\ copy = "open" /\ ~bad
  /\ \/ ciErr /\ Outcome("CopyExec", "error") /\ UNCHANGED bad
     \/ ~ciErr /\ ~up /\ Outcome("CopyExec", "badconn") /\ bad' = TRUE
  /\ UNCHANGED <<op, loop, got, saved, status, deadline, user, copyin, server, excuse>>

\* copyin.Close, and Exec without a row, which calls it unless there is an error;
\* CopyDone that cannot be written is an error on a good connection.
CopyCall(name) ==
  /\ op = "none" /\ ~bad /\ copy = "open"
  /\ name = "CopySync" => ~ciErr
  /\ \/ /\ op' = name /\ loop' = "done" /\ got' = Fresh /\ EndCopy("IND")
        /\ UNCHANGED <<result, bad, user>>
     \/ /\ ~up /\ \/ bad' = TRUE /\ Outcome(name, "badconn")
                  \/ Outcome(name, "error") /\ UNCHANGED bad
        /\ copy' = (IF name = "CopySync" THEN "closed" ELSE "none")
        /\ UNCHANGED <<op, loop, got, rows, stmt, server>>
  /\ UNCHANGED <<saved, status, deadline, copyin, excuse>>

CopyDone ==
  /\ loop = "done" /\ done /\ done' = FALSE
  /\ Return(IF ciErr THEN "error" ELSE "ok")
  /\ copy' = (IF op = "CopySync" THEN "closed" ELSE "none")
  /\ UNCHANGED <<conn, rows, stmt, ciErr, resp, server, excuse>>

\* The statement's Close after Exec without a row has closed it
CopyClosed ==
  /\ op = "none" /\ copy = "closed" /\ copy' = "none"
  /\ Outcome("CopyClose", "error")
  /\ UNCHANGED <<op, loop, got, conn, rows, stmt, copyin, server, excuse>>

\* resploop: the end of the goroutine, on a bad connection
RespEnds == bad' = TRUE /\ ciErr' = TRUE /\ done' = TRUE /\ resp' = "off"

RespLoop_Silent(m) ==
  /\ resp = "run" /\ Read(m, "none")
  /\ \/ m.t \in Complete /\ UNCHANGED <<copyin, bad, status>>
     \/ m.t = "E" /\ ciErr' = TRUE /\ UNCHANGED <<resp, done, bad, status>>
     \/ Ready(m) /\ resp' = "off" /\ UNCHANGED <<ciErr, done, bad>>
     \/ m.t \notin Complete \cup {"E", "Z"} /\ RespEnds /\ UNCHANGED status
  /\ UNCHANGED <<op, loop, got, result, deadline, user, excuse>>

RespLoop(m) ==
  /\ resp = "run" /\ Read(m, "none")
  /\ \/ m.t \in Complete /\ UNCHANGED <<copyin, bad, status>>
     \/ m.t = "E" /\ ciErr' = TRUE /\ UNCHANGED <<resp, done, bad, status>>
     \/ Ready(m) /\ done' = TRUE /\ resp' = "off" /\ UNCHANGED <<ciErr, bad>>
     \/ m.t \notin Complete \cup {"E", "Z"} /\ RespEnds /\ UNCHANGED status
  /\ UNCHANGED <<op, loop, got, result, deadline, user, excuse>>

\* A notice, notification or parameter status, which it does not know
RespAsync ==
  /\ resp = "run" /\ up /\ saved = "none"
  /\ RespEnds
  /\ excuse' = excuse \cup {"unknown"}
  /\ UNCHANGED <<op, loop, got, result, saved, status, deadline, user, server>>

RespFails ==
  /\ resp = "run" /\ ~up /\ saved = "none"
  /\ RespEnds
  /\ UNCHANGED <<op, loop, got, result, saved, status, deadline, user, server, excuse>>

--------------------------------------------------------------------------------
Receive(m) ==
  \/ Startup(m) \/ AskPassword(m) \/ Auth(m)
  \/ SimpleExec(m) \/ SimpleQuery(m) \/ PrepareTo(m) \/ Bind(m) \/ Workaround(m)
  \/ StExec(m) \/ StClose(m) \/ Rows(m) \/ AwaitCopy(m) \/ CopyFail(m) \/ RespLoop(m)

Next ==
  \/ Dial \/ Ssl
  \/ Begin \/ Commit \/ Rollback \/ Exec \/ Query \/ QueryArgs \/ ExecArgs
  \/ Prepare \/ StmtQuery \/ StmtExec \/ StmtClose \/ PrepareCopy
  \/ \E name \in {"Next", "RowsClose"} : RowsCall(name)
  \/ RowsCloseDone \/ OnBad \/ Close \/ RecvFails
  \/ \E m \in Incoming : Receive(m)
  \/ \E name \in {"CopySync", "CopyClose"} : CopyCall(name)
  \/ CopyExec \/ CopyDone \/ CopyClosed \/ RespAsync \/ RespFails
  \/ Lose

Spec == Init /\ [][Next]_vars

--------------------------------------------------------------------------------
(* Safety *)

Idle == op = "none" /\ resp = "off" /\ rows # "open"

\* A connection on which no call is in course, and which is not bad, is in step with
\* the server: every message of every reply has been read, also after errors in
\* the middle of a reply, rows closed early, statements that fail to execute and a
\* COPY given up or failed, and both sides agree on the transaction.  What breaks
\* this is an unexpected message in rows.Close, and calls that overlap.
InStep ==
  Idle /\ ~bad /\ up /\ excuse \cap {"cut", "overlap"} = {} =>
    queue = << >> /\ saved = "none" /\ status = txn

\* The connection goes bad for a reason: it is lost, the user began or ended a
\* transaction behind the driver's back or let calls overlap, or a message came that
\* its receive loop does not know.  No error of a statement does it.
BadForAReason == bad => ~up \/ excuse # {}

\* What Begin, Commit and Rollback report is what happened at the server.
OutcomesAgree ==
  op = "none" /\ resp = "off" /\ result.value = "ok" /\ excuse \cap {"cut", "overlap"} = {} =>
    /\ result.call = "Commit" => committed
    /\ result.call = "Begin" => txn = "T"
    /\ result.call = "Rollback" => txn = "I"

\* A call that reports success has not passed over an error of the server: of the
\* statement it ran, of the rows up to their end, or of the COPY it completed.
ErrorsReturned ==
  op = "none" /\ resp = "off" /\ result.value = "ok" /\ result.call # "PrepareCopy"
      /\ excuse \cap {"cut", "overlap"} = {} =>
    ~erred

--------------------------------------------------------------------------------
(* The inductive invariant *)

\* The loops of each call, and what else follows from where it is
PlaceInv ==
  /\ op \in {"none", "closed", "leaked"} <=> loop = "none"
  /\ op = "open" <=> loop \in {"dial", "ssl", "startup", "auth"}
  /\ op \in {"Begin", "Commit", "Rollback", "CommitRollback", "Exec"} <=> loop = "simpleExec"
  /\ op = "Query" <=> loop = "simpleQuery"
  /\ op \in {"QueryArgs", "StmtQuery"} => loop \in {"prepareTo", "bind", "workaround"}
  /\ op \in {"ExecArgs", "StmtExec"} => loop \in {"prepareTo", "bind", "workaround", "stExec"}
  /\ op = "Prepare" => loop = "prepareTo"
  /\ op = "StmtClose" <=> loop \in {"stClose", "stCloseZ"}
  /\ op \in {"Next", "RowsClose"} <=> loop = "next"
  /\ op = "PrepareCopy" <=> loop \in {"awaitCopy", "copyFail"}
  /\ op \in {"CopySync", "CopyClose"} <=> loop = "done"
  /\ op = "open" => resp = "off"
  /\ loop \in {"dial", "ssl"} => queue = << >>
  /\ deadline => op \in {"open", "leaked"}
  /\ done => resp = "off"
  /\ loop = "done" => copy = "open"
  /\ copy = "open" => done \/ resp = "run"

\* Calls are made one at a time, and nothing was left unread.
InTurn == excuse \cap {"cut", "overlap"} = {}

\* Who may be using the connection; what has been told of an error in a COPY
TurnInv ==
  InTurn =>
    /\ loop \notin {"none", "done"} => resp = "off" /\ ~bad
    /\ rows = "open" => loop \in {"none", "next", "done"} /\ resp = "off"
    /\ loop = "next" => rows = "open"
    /\ saved # "none" => rows = "open" \/ loop = "stExec"
    /\ resp = "run" =>
         /\ erred => ciErr
         /\ result.value = "ok" => result.call = "PrepareCopy"
    /\ done => ciErr \/ (loop = "done" /\ ~erred)

\* The stage of the reply that comes next
First(q) == IF q = << >> THEN "none" ELSE Head(q)
Owed == First(queue)

\* The reply is over after an error, but for its ReadyForQuery.
Going(stages) == ~got.err /\ ~erred /\ Owed \in stages
ErrorRead == got.err /\ Owed = "Z"

SavedFits ==
  \/ saved = "none"
  \/ saved = "D" /\ Owed \in {"R1", "R0", "X"}
  \/ saved \in Complete \cup {"I"} /\ Owed = "Z"

\* Between calls
ReplyOfNone == Owed = "none" /\ status = txn

ReplyOfRows ==
  /\ SavedFits
  /\ Owed \in {"R1", "R0", "S1", "X", "Z"}
  /\ erred => loop = "next" /\ ErrorRead

ReplyOfCopy ==
  \/ Owed = "IN" /\ loop # "done"
  \/ Owed = "IND" /\ loop = "done"
  \/ Owed = "Z" /\ (loop # "done" => ciErr)

ReplyOfSimpleExec ==
  /\ got.err \/ ~erred
  /\ got.err => Owed = "Z"
  /\ op = "Exec" => Owed \in {"S2", "S1", "R1", "R0", "Z"}
  /\ op = "Begin" =>
       \/ Owed = "BEGIN" /\ txn = "I"
       \/ Owed = "Z" /\ (got.err \/ (got.tag = "BEGIN" /\ txn = "T"))
  /\ op = "Commit" =>
       \/ Owed = "COMMIT" /\ txn = "T"
       \/ Owed = "Z" /\ txn = "I" /\ (got.err \/ (got.tag = "COMMIT" /\ committed))
  /\ op \in {"Rollback", "CommitRollback"} =>
       \/ Going({"ROLLBACK"})
       \/ Going({"Z"}) /\ txn = "I" /\ got.tag = "ROLLBACK"

ReplyOfSimpleQuery ==
  \/ ErrorRead
  \/ Going({"S2", "S1"})
  \/ Going({"R1", "R0"}) /\ got.res = "rows"
  \/ Going({"Z"}) /\ got.res = "done"

\* Where the server is agrees with where the driver is.
RepliesFit ==
  /\ Len(queue) <= 1
  /\ op = "none" \/ loop = "done" =>
       (rows # "open" /\ resp = "off" => ReplyOfNone)
  /\ rows = "open" => ReplyOfRows
  /\ resp = "run" => ReplyOfCopy
  /\ loop \in {"dial", "ssl"} => Owed = "none" /\ ~erred
  /\ loop = "startup" => Owed \in {"ST", "ST1"} /\ ~erred
  /\ loop = "auth" => Owed = "PWD" /\ ~erred
  /\ loop = "simpleExec" => ReplyOfSimpleExec
  /\ loop = "simpleQuery" => ReplyOfSimpleQuery
  /\ loop = "prepareTo" => ErrorRead \/ Going({"P", "P1", "P2", "Z"})
  /\ loop = "bind" => ErrorRead \/ Going({"B"})
  /\ loop = "workaround" => ErrorRead \/ Going({"X"})
  /\ loop = "stExec" => SavedFits /\ (ErrorRead \/ Going({"X", "Z"}))
  /\ loop = "stClose" => Owed = "CL" /\ ~erred
  /\ loop = "stCloseZ" => Owed = "Z" /\ ~erred
  /\ loop = "awaitCopy" => ErrorRead \/ Going({"COPY"})
  /\ loop = "copyFail" => Owed \in {"INF", "OUT", "OUTC", "Z"}

ReplyInv == InTurn /\ up /\ (bad => resp = "run") => RepliesFit

IInv ==
  /\ TypeOK /\ PlaceInv /\ TurnInv /\ ReplyInv
  /\ BadForAReason /\ OutcomesAgree /\ ErrorsReturned

--------------------------------------------------------------------------------
(* Waiting *)

\* A message can be read: one was saved, or the server is in a reply and does not
\* itself wait for the rows of a COPY or for a password.
Comes == saved # "none" \/ Owed \notin {"none", "IN", "PW"}

\* No call waits for what never comes, as long as calls do not overlap.  On a
\* connection that is up, a receive loop is on only while the server is in a reply
\* that it goes on with; so it is while Close of a COPY waits for resploop, which
\* has either told it that it is through or still runs, on a lost connection too.
NobodyWaitsInVain ==
  /\ loop = "done" => done \/ resp = "run"
  /\ InTurn /\ up /\ loop \notin {"none", "dial", "ssl"} /\ ~(loop = "done" /\ done) => Comes
================================================================================
