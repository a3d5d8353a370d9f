# A TLA+ model of the exploreapollo audio server

The repository is a Go server that answers two kinds of request with the audio
of an Apollo mission: `/stream` plays the recordings of some channels from a
mission elapsed time on, for a duration; `/audio` returns the same as one file.
The recordings are listed in a PostgreSQL table, lie on a web server, are
downloaded as clips into a directory, and are mixed, trimmed and transcoded by
the programs `sox` and `ffmpeg`. A copy of the `lib/pq` driver is vendored under
`Godeps/`, with its support for LISTEN/NOTIFY and COPY.

This directory holds TLA+ modules that model the server's logic, TLC
configurations that check them on small instances, and modules with theorems
about them that TLAPS proves for every value of their constants.

    tlc -workers 2 -config ClipDownload.cfg MCClipDownload
    tlapm ClipDownloadProofs.tla

## The system: components, state, operations

| Component | Source | State it keeps | Operations | Modelled by |
|---|---|---|---|---|
| request parameters, dispatch | `main.go` 28-119 | none of its own | parse, 500, slices, 404, `/stream` or the rest | partly: the inputs of `RequestSlices` |
| request slices | `audio/audio.go` 54-98 | slices, `lastStart`, the rows still to come | query, scan a row, end of rows | `RequestSlices` |
| trim arguments | `audio/audio.go` 100-151 | none | `getSoxTrimArgs`, `soxBulkTrimArgs` | `SliceTrims` |
| clip download pool | `audio/util.go` 37-80 | channel, WaitGroup, workers; the clip directory | start, send, close, wait; stat, create, get, copy | `ClipDownload`, with `ParallelFor` for its callers |
| stream pipeline | `audio/audio.go` 153-209, `main.go` 15-26, 103-113 | two processes, two pipes and a copier for each slice | start, run, wait, next slice | `StreamPipeline`, with `Playback` for its client |
| file encoding | `audio/audio.go` 211-273, `main.go` 115-119 | the encoded files | start, run, wait, serve | `EncodeFile` |
| database configuration | `audio/database.go` | none | open, or panic | one step of `RequestSlices` |
| server start | `main.go` 121-133, `audio/audio.go` 49-52 | none | make the directories, listen | directories: `ClipDownload` |
| pq: connection, queries | `lib/pq/conn.go` | the `bad` flag, a saved message, the transaction status, the deadline; rows, statements | open, begin, commit, rollback, exec, query, prepare, next, close | `PqConn` |
| pq: COPY | `lib/pq/copy.go` | the error, `done`, the goroutine `resploop` | prepare, exec, sync, close | `PqConn` |
| pq: errors | `lib/pq/error.go` | none | `errRecover`: which panics make a connection bad | in every call of `PqConn` |
| pq: `ListenerConn` | `lib/pq/notify.go` 49-340 | two locks, the protocol state, `replyChan`, the first error | listen, unlisten, ping, close; the receiving goroutine | `PqListenerConn`, with `SimpleQueries` for its callers |
| pq: `Listener` | `lib/pq/notify.go` 342-752 | the list of channels, the connection, `Notify` | listen, unlisten, ping, close; connect, resync, the main loop | `PqListener` |
| pq: values, urls, types | `encode.go`, `url.go`, `oid/`, `hstore/` | none | parse and format | not modelled |

How they interact. Each request runs in a goroutine of `net/http`: it parses its
parameters, reads its rows over a database connection of its own, and turns them
into *time slices*, spans of time with one recording for each channel. It hands
the recordings of all slices to two worker goroutines over a channel and waits
for them. Then it runs a `sox` and an `ffmpeg` process for each slice, connected
by a pipe, whose output a goroutine copies to the client; or one pair for all
slices, which writes a file that is served afterwards. Requests share memory
only through the Go runtime, but they share the *clip directory*: the clips, by
a name made of mission, channel and start, and the encoded files, by a name made
of channels, start and duration. The clip directory is also what outlives the
process.

The driver's connections are used one call at a time by `database/sql`, except
that a COPY has a goroutine which reads the replies while the caller sends rows.
A `ListenerConn` is used by several goroutines at once, and by one that receives;
a `Listener` owns one `ListenerConn` after the other. `/stream` and `/audio` reach
the driver through one query a request (`Query` of `RequestSlices`, `QueryArgs`
and `Next` of `PqConn`); LISTEN/NOTIFY and COPY are parts of the vendored driver
which this server does not call.

What is hard, and what makes each component right:

* **Clip download pool.** Interleavings of the workers of several requests over
  one file (stat, create, get and copy are separate steps); a panic in a worker
  ends the process for every request and leaves files half written; the network
  may hang. Right if no segment is lost or handed out twice, the call returns
  only when its clips exist and are whole, and nobody is blocked but by the
  network.
* **Request slices.** Ties of `ORDER BY`, rows that end differently from their
  slice, negative times, overflow of `start + duration`, rows that do not scan,
  a connection that fails in the middle. Right if the slices are in order, hold
  what was asked for and nothing else, and leave nothing out.
* **Trim arguments.** The first slice, the last one and the one that is both;
  gaps and overlaps. Right if what is played is what was asked for.
* **Stream pipeline.** Three concurrent parties for each slice, pipes of bounded
  capacity, a client that leaves or stalls, processes that fail, all errors
  dropped. Right if slices are played one after the other, completely, and the
  handler ends and leaves nothing behind.
* **File encoding.** One file for equal requests, truncated by one while another
  writes or serves it; errors dropped; `log.Fatal`. Right if a request gets the
  whole of its own audio.
* **Connections.** An error may come at any point of a reply, and the rest of the
  reply must still be read, by whichever receive loop is on; a message
  read early is saved for the next call. Right if an idle connection is in step
  with the server or known to be bad, if no error is lost, and if Commit tells
  the truth.
* **ListenerConn.** Senders, a receiver and Close share a protocol state and two
  locks; the connection may end between any two steps. Right if each call gets
  the answer to its own query or an error, and none waits for ever.
* **Listener.** Connections are lost while channels are added and removed, while
  the list is sent to a new session, and while notifications are under way. Right
  if session and list agree, if the application hears of every gap, and if calls
  and Close come to an end.

`PROJECT.json` lists the hazards one by one, at their lines.

## The modules

| Module | Contents |
|---|---|
| `ParallelFor` | abstract: a call has items, deals with each in any order, and returns when none is left |
| `ClipDownload` | the download pool, the disk, the death and restart of the process |
| `ClipDownloadProofs` | its invariant, eight theorems, among them the refinement of `ParallelFor` |
| `RequestSlices` | from the table and a request to the slices |
| `SliceTrims` | extends it with the trims of `/stream` and `/audio` |
| `RequestSlicesProofs` | theorems about both |
| `Playback` | abstract: what a client of `/stream` hears: slices in order, each from its start and to its end, unless something failed or it left |
| `StreamPipeline` | the processes, pipes and copier of one `/stream` request |
| `StreamPipelineProofs` | its invariant and eight theorems, among them the refinement of `Playback` |
| `EncodeFile` | the shared output file of `/audio` requests |
| `EncodeFileProofs` | its invariant and three theorems |
| `PqConn` | one connection of the driver: its calls, its receive loops, COPY, and the server's replies |
| `PqConnProofs` | its invariant and six theorems |
| `SimpleQueries` | abstract: each call gets the answer to its own query, or fails once there is a reason |
| `PqListenerConn` | the connection of a listener, shared by several goroutines |
| `PqListenerConnProofs` | its invariant, the refinement of `SimpleQueries`, the deadlock that lasts and is the only one |
| `PqListener` | the listener: subscriptions, reconnects, notifications |
| `PqListenerProofs` | its invariant and five theorems |
| `MC...` | values for the constants |

Definitions named `X_Y`, before an `X`, are variants of `X` with a mistake in it
(`Return_NoWait` returns without the wait). No specification uses them; they
show that the properties notice such a mistake.

### ClipDownload

`call[r]` is the place of the request's goroutine in `DownloadAllAudio`,
`unsent[r]` what its two loops have yet to send, `closed[r]` and `wg[r]` the
channel and the WaitGroup. `wpc[t]`, `item[t]`, `body[t]` and `off[t]` are the
place of a worker, its segment, what the response holds and how far the copy is.
`present` and `content` are the clip directory. Each action is what the code does
between two points at which another goroutine can interfere: `Stat`, `Create`,
`Get`, one `CopyChunk` for each write of `io.Copy`, `CopyEnd`. The channel is
unbuffered, so that a `Send` is one step of sender and receiver. `Panic` is
`check(err)` in a worker, `Kill` the host: both lose the memory and leave the
disk as it is. `Restart` keeps the disk, or finds it empty, as on a new host.
`suspect` is a history variable: the paths that got a wrong body, or were
incomplete when the process died with them open.

### RequestSlices and SliceTrims

`Init` chooses a table and a request. `Query` takes the matching rows; each
`ScanRow` or `SkipRow` takes one of the least start, any of those that tie.
The WHERE clause and Go's addition are operators over ints of a small range that
wrap around. A slice is a record with the set of its rows, one for a channel.
`SliceTrims` gives the intervals of time that the two sets of `trim` arguments
select, with `sox`'s meaning of them: exact decimals of whole milliseconds, and
no more than the input holds. The query does not mention the mission, and the
model has none.

### StreamPipeline

The audio of a slice is `NChunks` chunks that pass five places: written by sox,
taken by ffmpeg, made by ffmpeg, sent by the copier, got by the client. Pipes
keep the order, so that counters are enough. `StartFfmpeg`, `StartSox`,
`WaitSox` and `WaitFfmpeg` are the handler; the rest are the processes, the
copier and the client. Every call may fail as its error path allows, and the
handler goes on as the code does. sox blocks on a full pipe for good when
ffmpeg is gone, since the handler itself keeps the read end open until it has
waited for sox. Whether the copier closes its end of the other pipe after a
failed write depends on the Go release; `CopyToNobody` may do either.

`Playback` is what is left of it for the client, in six actions: hear a chunk of
the slice that is on, go on to the next slice or finish once it is heard to the
end, something fails, there is nothing to play with, the client leaves. The
refinement takes `cur` for the slice that is on, `got` for what was heard and
`failed` for what spoilt it; the processes and the pipes are hidden.

### EncodeFile

Handlers, ffmpeg processes and the files of the clip directory. `FfOpen`
truncates, each `FfWrite` writes at its own process's offset, `Open` is
`http.ServeFile` taking the size of the file for the length of the response.
`Fatal` is `log.Fatal` in one request: every handler is gone, the processes they
started are not. `failed` and `disturbed` are history variables.

### PqConn

A call sends a request and reads its reply in a loop of the code: `op` is the
call, `loop` the loop it is in, `got` the loop's locals. Each action `SimpleExec(m)`,
`PrepareTo(m)`, ... is one turn of a loop with the message `m`. `bad`, `saved`,
`status` and `deadline` are fields of `conn`; `rows`, `stmt` and `copy` are what
the user has; `ciErr`, `resp` and `done` belong to the COPY and its goroutine
(`RespLoop`). The server is external: `queue` holds, for each request whose reply
is not read to the end, the stage of that reply, and `Replies` lists the messages
each stage may send and the stage after it; an error may come in the stages of
`CanFail`, and a FATAL one, or the loss of the connection, at any time. A message is
chosen when it is read. Notices, parameter statuses and notifications are skipped
by `recv1` and left out, but not in `resploop`, which does not know them.

`Overlaps` and `UserTxn` say what the user may do: calls while rows are open or a
COPY runs, and BEGIN or COMMIT as the text of a statement. `excuse` is a history
variable: what the user did, or a message that a loop does not know. A call that
overlaps gets another call's reply; a message that `rows.Next` does not know ends
`rows.Close` without making the connection bad (`"cut"`). For these two the
properties claim nothing.

What the model says of the driver besides: `conn.Close` on a bad connection, and
one that cannot write its last message, leave the socket open, and so does a
handshake that fails (`op = "leaked"`); `io.ErrUnexpectedEOF` does not make a
connection bad; a binary COPY, and a COPY TO that sends no rows, are given up with
the connection intact, but the first row of a COPY TO makes it bad
(`copy.go:123-125`), as do a COPY that answers neither way and any notice
during one.

### PqListenerConn and PqListener

`PqListenerConn`: `pc[c]` is where a call of `ExecSimpleQuery` is, and thereby who
holds `connectionLock` (`"acquire"`) and `senderLock` (`Sending`). `rpc` is the
place of `listenerConnMain`, `replyChan` and `notes` the two channels, `reply[c]`
and `ran[c]` what the server has for the query of `c` and what it made of it. The
server may shut down in the middle of a reply, go, or refuse; TCP may lose what
was on its way; `Close` may come at any step. `SimpleQueries` is the promise of
the comment on `ExecSimpleQuery`, in one action for a query the server ran, one
for a call that returns and one for the reason of the end.

`PqListener`: `main` is the place of `listenerMain` with `connect`, `rs` that of
resync's goroutine, `pc[c]` of a call; `l.lock` is held by `main` in resync or by a
call that waits for its query. The `ListenerConn` under it is what
`PqListenerConn` leaves of one for a single query at a time (`query`, `wire`,
`chan`): its end closes `replyChan` first and then the notification channel.
`rsNil` is resync's local variable `notificationChan`, which two goroutines share.
Sleeps may be of any length.

## The runs, their bounds, what they show

| Run | Instance | Shows |
|---|---|---|
| `ClipDownload` | 2 requests, 2 workers each, 2 clips of which one is shared, 2 chunks, wrong bodies, 1 death, fairness (290 thousand states) | the safety properties, `OnlyNetworkBlocks`, the refinement of `ParallelFor`, `StuckOnlyOnNetwork`, `OneHungWorkerIsNotEnough` |
| `ClipDownloadShared` | 2 requests, no wrong bodies, no deaths | **violation** of `DownloadedBeforeUse` |
| `RequestSlices` | tables of up to 2 short rows with or without url, 3 short rows with one, 3 rows of one channel of any length; ints from -6 to 5; lost connections | the safety properties of `RequestSlices` and of `SliceTrims` |
| `RequestSlicesUnaligned` | a recording of each of two channels | **violation** of `EveryMatchServed` |
| `StreamPipeline` | 2 slices, 3 chunks, pipes of 1, fairness | `NothingLeftBehind`, `OnlyHangOrClientBlocks`, `EveryStepAdvances`, `HungForGood`, the refinement of `Playback`, `EndsOrHangs` |
| `EncodeFile` | 3 requests for 1 file, 2 chunks | the safety properties |
| `PqConn` | 1 connection, 2 requests under way, every call, overlapping calls, a user's own BEGIN and COMMIT (3.2 million states) | `InStep`, `BadForAReason`, `OutcomesAgree`, `ErrorsReturned`, `NobodyWaitsInVain` |
| `PqListenerConn` | 3 calls of which 1 is a ping, a notification channel of 1, 2 notifications, fairness | the refinement of `SimpleQueries`, `OnlyLockOrderBlocks`, `StuckOnlyByLockOrder`, `DeadlockedForGood` |
| `PqListenerConnDeadlock` | 2 calls, no notifications, fairness | **violation** of `LostConnectionFreesCallers` |
| `PqListener` | 2 calls of any kind, 2 channels, Go channels of 1, 2 notifications, 1 lost connection, fairness (280 thousand states) | `SubscriptionsAgree`, `GapsAnnounced`, `OnlyResyncBlocks`, `StuckOnlyUnconnected`, `EndsOnceDisconnected` |
| `PqListenerResync` | 1 call, 1 channel, 1 lost connection, fairness | **violation** of `LostResyncReturns` |
| `PqListenerClose` | 1 call, 1 channel, no lost connection, fairness | **violation** of `CloseShutsDown` |

Why the bounds are enough. Two requests with two workers each are the least in
which workers of one call and of two compete for a file; two chunks let one
worker truncate between the writes of another. One death is enough to leave a
damaged file for a second process. With three rows there can be a slice, a row
that does not fit it and a row after it; the range of ints holds overflow in both
directions, negative times and requests within, over the ends of and outside the
rows. In the pipeline two slices show that they do not mix and three chunks with
pipes of one let both pipes be full while more is to come. Three requests for a
file let one fail, one disturb and one be served. Two replies under way are the
least in which a call reads another one's; the driver itself never needs more than
one, and a statement text of two statements is the least in which rows, another
result and an error follow one another. A listener's connection needs one call
that has the sender lock, one that waits for it and one more to come; two
notifications fill a channel of one and leave one to wait. One lost connection
makes a listener go through connect, resync and cleanup, with calls at each of
them; two channels let one be subscribed while another is not. The Go channels of
32 are of one in the models: what matters is that they get full. Where a property is also
proved, as most of the safety properties are, the bound is
there only to find mistakes early.

`CHECK_DEADLOCK FALSE` is set everywhere: requests end, and handlers may really
hang. That they do so only where they must is what the properties about waiting
say: `OnlyNetworkBlocks`, `OnlyHangOrClientBlocks`, `NobodyWaitsInVain`,
`OnlyLockOrderBlocks` and `OnlyResyncBlocks` are the deadlock checks of these
modules, with the waits on the outside taken out, and the liveness properties say
the same of what happens in the end.
In `PqConn` an idle connection may be closed, and an overlapping call may wait for
a reply that another one has read. `EncodeFile` uses symmetry of the requests; it
has no liveness properties.

### What the violations mean

Each violation run checks one statement of the repository's documents or
comments that the code does not keep, or only under a condition that another run
shows to be sufficient:

* `ClipDownloadShared`: "Download all here" (`audio/audio.go:154`) does not hold
  for a clip another request is downloading: the file exists, and is skipped.
  `ReturnedClipsWholeOrShared` says that this is the only way.
* `RequestSlicesUnaligned`: the request of the README (`README.md:45`) leaves out a
  channel whose recording ends differently from another's. `RowsAccountedFor` lists
  the reasons for which a row that was read is left out.
* `PqListenerConnDeadlock`: `acquireSenderLock` waits for `senderLock` with
  `connectionLock` in its hands (`notify.go:95`). When the connection is lost, the
  receiving goroutine needs `connectionLock` before it closes `replyChan`, and the
  call that waits for `replyChan` has `senderLock`: the comment at `notify.go:197`
  ("make sure nobody's waiting for a response to it") is not kept, and
  `DeadlockedForGood` says that it stays so. `StuckOnlyByLockOrder` says that
  nothing else holds a call up, but a server that does not answer and
  notifications that nobody reads.
* `PqListenerResync`: resync's loop sets `notificationChan` to nil
  (`notify.go:630`) before its goroutine ranges over it (`notify.go:612`), which
  then never ends; connect hangs with `l.lock` held. The theorem
  `NothingReturns` says that no call returns from then on, and `OnlyResyncBlocks` that
  this is the only such state.
* `PqListenerClose`: "Close disconnects the Listener from the database and shuts it
  down" (`notify.go:670`). connect does not look at `isClosed` once it has the lock
  (`notify.go:654-667`). A Close that comes while it dials, or in the sleep before,
  finds no connection to close; the goroutine sets up the new one, and goes on with
  it until it is lost. `EndsOnceDisconnected` says when Close does what it says: a
  closed listener that is not about to dial, and whose connection is over (as it is
  when Close found one), ends without another, unless resync never returns.

Behaviour that is in the models and no violation of anything promised: a lost
database connection shortens the audio without an error, since `rows.Err` is not
asked; the stream plays audio twice where recordings overlap, and the file of
`/audio` needs recordings without a gap (`FileIsStream`), because
`soxBulkTrimArgs` cuts once; a failed process shortens a response that ends as a
success. What a lost connection cuts off is the end: `RowsAccountedFor` says that no
row that was not read starts before one that was.

One statement that the code does not keep has no violation run of its own:
`notify.go:446` names Close as a reason for which a Listen fails, but Close does not
wake one that waits for a connection, and once the goroutine has ended nothing
does. `OnlyResyncBlocks` takes this state out by name, and `StuckOnlyUnconnected`
speaks of calls that find a connection.

## Fairness

* `ClipDownload`: weak fairness of closing, of returning, of each call's sends as
  a whole, and of a worker's exit, stat and create: the Go scheduler runs every
  goroutine that can go on, and a local file operation ends. There is none for
  `Get`, `CopyChunk` and `CopyEnd`, since `http.Get` is used without a timeout,
  none for a request to arrive, and none for `Restart`.
* `StreamPipeline`: weak fairness of the handler, of sox, of ffmpeg, and of the
  copier once the client is gone. A client need not read (`ListenAndServe` is
  used without timeouts), need not leave, and nothing has to fail.
* `PqListenerConn`: weak fairness of the receiving goroutine and of each call once
  it is made: goroutines run, and a mutex that is free again and again is handed
  to one that waits (here the holder is the only one in the way). There is none for
  the server, the network, Close or whoever reads the notifications; the
  properties name these as conditions (`Unanswered`, `NotesUnread`).
* `PqListener`: weak fairness of main, of resync's goroutine, of what throws
  notifications away, of the receiver, and of each call. `Served` is the condition
  on the environment: the application reads `Notify`, and a server that is up
  answers. The receiver may drop a notification with a connection that breaks, or
  have read it and wait for room in its channel: that it notices the end is assumed
  only while it is not held up so (`HeldUp`).

## What is proved

`ClipDownloadProofs`: for any sets of requests, workers and clips, any number of
chunks and of deaths (assumptions: the set of workers is finite, `Owner` and
`Need` are functions of the right type, `NoClip` is no clip, each call has a
worker, as `workerCount` is 2). The invariant
`IInv` adds to the properties: which workers are active at each stage of a call
and that `wg` counts them (`PoolInv`); that a worker holds a segment of its own
call exactly while it is in `downloadUrlAndSave` (`ItemInv`); and that every
chunk of a file that is not suspect is right or has a worker that has yet to
write it (`ChunkInv`). The last is why concurrent writers of one file do no
lasting harm: whoever truncates the file also rewrites all of it, and all write
the same. `Implements` maps `todo` to what is unsent or held by a worker; only
the step in which a worker drops its segment is a step of `ParallelFor`'s
`Handle`. `BlockedByNetwork` follows from `PoolInv` and `ItemInv` by cases on
the place of the call: while it has something to send, a worker that is not there
to receive it is busy with a segment; once the channel is closed an idle worker
leaves, and when all have left `wg` is zero and the call returns.

`RequestSlicesProofs`: for any channels, urls, tables, requests and range of
ints. `IInv` says that `lastStart` is the start of the last slice, that no row
that is left starts before it, and that a slice has one row for each channel.
`StreamIsRequest` then follows from the order of the slices and the WHERE clause
alone, by arithmetic. That an overflow finds nothing follows from
`reqEnd < start` and from rows that end after the start of the request.
`BulkExact` is about a sum: where a slice begins in the audio that `/audio` puts
end to end. For slices without a gap this is the difference of two starts
(`PositionIs`). The lemma needs induction on the number of slices, which is done
by hand, from the least slice for which it would be false (`LeastNatural`, from the
well-foundedness of `<` on the naturals).

`StreamPipelineProofs`: for any number of slices and chunks, any capacity,
with every failure. `IInv` relates the place of the
handler to the processes of every slice (`StageOf`), and says what has become of
its audio as long as nothing failed (`AudioOf`): a copier that has ended sent
all ffmpeg made, an ffmpeg that has exited made all that sox wrote. `StaysHung`
shows for each action but the failure of a process that it does not free a
handler that hangs. `NoCircularWait` says that while the response goes on somebody
can take a step, or the handler hangs after a failure or without its client
(`HangHasReason`), or the client does not read; it needs from
`IInv` that a process the handler waits for was started (`StageOf`) and that pipes
hold no more than they can. `Advances` says that every step but the client's
leaving lowers `Left` of a slice, a natural number, and raises none; a client
leaves once. Together they hold the argument for `EndsOrHangs` for every number
of slices and chunks: a response has finitely many steps, and when no step is left
it is over or in one of the two halts. That fairness then brings a behaviour to
that point is the part that only TLC checks. `Implements` maps the steps of the
handler to `GoOn` and `Finish`, for which it needs that a slice is left only when
it was heard or there is a reason (`AudioOf` with `StageOf`), and that the handler
looks for its tools before the first slice only (`PlaceOK`).

`EncodeFileProofs`: for any number of requests and files and any length of an
encoding, with every failure and any number of deaths of the server. `IInv` says
how far the processes of a request can be where its handler is (`ProcessesOf`);
that whatever chunk a file lacks some ffmpeg has yet to write, or failed to
(`ChunksOf`); that a request which has its file to itself finds there what its
own ffmpeg wrote (`FileOf`), and that its response has that length (`ServedOf`).
`SettledFilesWhole` follows from the second alone; `ServedWholeUnlessDisturbed`
is not inductive without the other three.

`PqConnProofs`: for any bound of requests under way, whether or not the user lets
calls overlap or ends transactions by statements. `PlaceInv` says which loop
belongs to which call. `TurnInv` says who uses the connection: no loop but a COPY's
runs beside an open row set, a message is saved only for the loop that reads it
next, and an error of a COPY is known to the caller before its end. `ReplyInv` is
the heart: as long as calls are made in turn and the connection is good, at most
one reply is due, and its stage fits the loop the driver is in and what that loop
has seen (`RepliesFit`). From it follow, in `Expected`, the messages each loop can
meet: no loop meets one it does not know, which is why the connection stays good
(`BadOnlyForAReason`), and each ends at ReadyForQuery with the error it has seen
(`ErrorsTold`, `OutcomesTold`), with nothing left unread (`StaysInStep`). None of
the four properties is inductive without it. `EveryCallIsAnswered` reads it the
other way round: in each loop the stage that fits it is one in which the server
goes on by itself. For the Close of a COPY it adds to `PlaceInv` that an open COPY
has its goroutine, or the entry in `ci.done` that the goroutine left.

`PqListenerConnProofs`: for any number of calls and notifications and any capacity.
`LocksOf` says that a call which could not be completed is the last; `StageOf`
relates, for the one call on the connection, its place, its reply, the protocol
state and the messages on their way to it, also after a fatal error came in the
place of the reply. `Implements` maps `ran` to the answer and `err` to the reason.
`NeverHeldUpHolds` excludes the panics of the protocol state and a full
`replyChan`. `Deadlock` shows action by action that nobody leaves it, and
`OneDeadlock` that there is no other: when neither a call nor the receiver can go
on, the locks are held in that order, or the server or the reader of the
notifications has to move.

`PqListenerProofs`: for any numbers of calls, channels, notifications and losses.
`StageInv` says where main, resync's goroutine and the calls may be together;
`SessionInv` what the session listens on, given the query or answer under way;
`FirstInv` that there is nothing to miss before the first connection. For
`OneNilChannel`, `StageInv` also says what those who wait rely on: main has a
connection whenever it uses one, no call is left on the condition variable while
there is one, resync's channel is nil only once the connection is closed, and its
goroutine ranges over the channel only when the connection is no longer up. That a
query under way has its reply on the wire or still to come is in `SessionInv`.
`NothingReturns` shows action by action that a stuck
resync stays stuck and keeps `l.lock`.

Only model-checked: the liveness properties (`StuckOnlyOnNetwork`,
`OneHungWorkerIsNotEnough`, `EndsOrHangs`, `StuckOnlyByLockOrder`,
`StuckOnlyUnconnected`, `EndsOnceDisconnected`), since liveness under fairness and
ENABLED are beyond the prover, and of course the five violations. What a proof can
say of them is proved instead: that each state in which nobody can go on is one of those that the property names. The conditions of
those theorems (`GoesOn`, `SomethingRuns`, `CallGoesOn` and the like) are the
guards of the actions that have fairness, by name where an action has its guard
under a name, so that no ENABLED is needed. Every other property of the runs is
stated by a theorem.

Proved, and in no run by themselves: the type invariants of `RequestSlices`,
`StreamPipeline` and `EncodeFile`, which say nothing but types; `SlicesDoNotMix` and
`CompleteUnlessFailed`, which say what the refinement of `Playback` says, of the
processes; `NoItemLost`, of which the run shows what callers see, that the clips
are there; and `StuckForGood`, which is about what follows a violation.

## Abstractions, and what is not modelled

* A clip's content is its chunks, right, wrong or missing; that a path stands for
  one url is assumed in `ClipDownload`, and holds while the table has one row for
  a channel and a start. Nothing notices when the table changes.
* sox, ffmpeg, os/exec, net/http, the database and the network are modelled as
  the code uses them, and marked external. ffmpeg makes a chunk from a chunk.
* `StreamPipeline` models one request: nothing of it is shared. `EncodeFile` does
  not model the pipe between sox and ffmpeg again; that a handler may hang on it
  is shown by `StreamPipeline`, whose three calls are the same.
* Formats, codecs, names and log lines; what http.ServeFile does with ranges and
  conditional requests; the mission in a clip's name.
* Deletion: nothing in the code ever removes a file.
* When every process fails to start, `/audio` logs "Saved output to"
  (`audio/audio.go:271`) and answers 404: `EncodeFile` has this behaviour and no
  property for the log line.
* Requests as a whole: `parseParameters`, the answers 500 and 404 and the recovery
  of panics by net/http. The phases of a request follow one another in one
  goroutine, and what one phase leaves to the next is the input of the next
  module. `connectDb`'s settings and `main`'s port have no state.
* The driver's values: `encode.go`, `url.go`, the parts of `conn.go` that parse
  connection strings, certificates and row descriptions, `hstore`, `oid`, the
  table of error codes. These are functions from strings to values without a
  state. Where their failure changes the control, as a value of a row that does
  not decode, or arguments that do not fit a statement, it is a choice of the
  action.
* In `PqConn`: what the values of rows are, and the buffers for COPY rows (a row is
  in the buffer or in a message, and errors come later in both cases). One
  prepared statement, one set of rows and one COPY at a time.
* In `PqListener`: event callbacks, and the length of the waits between attempts
  to reconnect.
