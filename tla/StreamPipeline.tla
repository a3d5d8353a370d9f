---------------------------- MODULE StreamPipeline -----------------------------
(***************************************************************************)
(* audio/audio.go: the loop of DownloadAndStream over the slices, with the *)
(* flushWriter of main.go, for one request of /stream.                     *)
(*                                                                         *)
(* For each slice a sox process writes the merged audio into a pipe that   *)
(* an ffmpeg process reads; a goroutine of os/exec (the copier) reads what *)
(* ffmpeg writes from a second pipe and writes it to the client.  The      *)
(* handler starts ffmpeg, runs sox to its end and waits for ffmpeg and the *)
(* copier.  Every error of the three calls is dropped.                     *)
(*                                                                         *)
(* os/exec and the processes are external.  What the code relies on:       *)
(*  - the handler's process keeps the read end of the first pipe open      *)
(*    until sox was waited for, so that sox is never told that nobody      *)
(*    reads: it blocks when the pipe is full;                              *)
(*  - the copier stops at the first error of a write.  Whether it then     *)
(*    closes its end of the second pipe, so that ffmpeg is told, depends   *)
(*    on the Go release: both are modelled.                                *)
(*                                                                         *)
(* Pipes and connections keep the order of what they carry, so that the    *)
(* chunks of a slice are counted at each place they pass.  Requests share  *)
(* nothing here, and one is modelled.                                      *)
(***************************************************************************)
EXTENDS Integers

CONSTANTS
  NSlices,      \* slices of the request
  NChunks,      \* chunks of audio in a slice
  Cap           \* chunks a pipe holds

ASSUME SizeAssumption ==
  /\ NSlices \in Nat \ {0}
  /\ NChunks \in Nat \ {0}
  /\ Cap \in Nat \ {0}

VARIABLES
  pc,       \* where the handler is
  cur,      \* the slice it is at
  piped,    \* piped[i]: soxCommand.StdoutPipe succeeded
  sox,      \* sox[i]: the state of the process
  ff,       \* ff[i]: the state of the ffmpeg process
  cop,      \* cop[i]: the state of the copier
  written,  \* written[i]: chunks sox wrote
  taken,    \* taken[i]: chunks ffmpeg read
  made,     \* made[i]: chunks ffmpeg wrote
  sent,     \* sent[i]: chunks the copier wrote
  got,      \* got[i]: chunks the client received
  client,   \* "here" or "gone"
  failed    \* some process or call failed (for the properties only)

procs == <<piped, sox, ff, cop>>
data == <<written, taken, made, sent, got>>
vars == <<pc, cur, procs, data, client, failed>>

Slices == 1..NSlices

TypeOK ==
  /\ pc \in {"tools", "ffmpeg", "sox", "soxwait", "ffwait", "done", "panicked"}
  /\ cur \in Slices
  /\ piped \in [Slices -> BOOLEAN]
  /\ sox \in [Slices -> {"none", "run", "failed", "exited"}]
  /\ ff \in [Slices -> {"none", "run", "failed", "exited"}]
  /\ cop \in [Slices -> {"none", "copy", "stopped", "closed", "ended"}]
  /\ written \in [Slices -> Nat] /\ taken \in [Slices -> Nat] /\ made \in [Slices -> Nat]
  /\ sent \in [Slices -> Nat] /\ got \in [Slices -> Nat]
  /\ client \in {"here", "gone"}
  /\ failed \in BOOLEAN

Zero == [i \in Slices |-> 0]
NoneYet == [i \in Slices |-> "none"]

Init ==
  /\ pc = "tools"
  /\ cur = 1
  /\ piped = [i \in Slices |-> FALSE]
  /\ sox = NoneYet /\ ff = NoneYet /\ cop = NoneYet
  /\ written = Zero /\ taken = Zero /\ made = Zero /\ sent = Zero /\ got = Zero
  /\ client = "here"
  /\ failed = FALSE

--------------------------------------------------------------------------------
(* The handler *)

\* exec.LookPath finds sox and ffmpeg, or check(err) panics.
LookPath ==
  /\ pc = "tools"
  /\ pc' \in {"ffmpeg", "panicked"}
  /\ failed' = (failed \/ pc' = "panicked")
  /\ UNCHANGED <<cur, procs, data, client>>

\* soxCommand.StdoutPipe; without a pipe sox's output and ffmpeg's input are
\* /dev/null, and the code goes on.
\* ffmpegCommand.Start, which starts the copier as well; its error is dropped.
StartFfmpeg ==
  /\ pc = "ffmpeg"
  /\ pc' = "sox"
  /\ \E pipe, ok \in BOOLEAN :
       /\ piped' = [piped EXCEPT ![cur] = pipe]
       /\ ff' = [ff EXCEPT ![cur] = IF ok THEN "run" ELSE "failed"]
       /\ cop' = [cop EXCEPT ![cur] = IF ok THEN "copy" ELSE "none"]
       /\ failed' = (failed \/ ~pipe \/ ~ok)
  /\ UNCHANGED <<cur, sox, data, client>>

\* soxCommand.Run: its Start, which closes the write end the handler held.
StartSox ==
  /\ pc = "sox"
  /\ \/ /\ pc' = "soxwait"
        /\ sox' = [sox EXCEPT ![cur] = "run"]
        /\ UNCHANGED failed
     \/ /\ pc' = "ffwait"
        /\ sox' = [sox EXCEPT ![cur] = "failed"]
        /\ failed' = TRUE
  /\ UNCHANGED <<cur, piped, ff, cop, data, client>>

\* soxCommand.Run: its Wait.
WaitSox_NoWait ==
  /\ pc = "soxwait"
  /\ pc' = "ffwait"
  /\ UNCHANGED <<cur, procs, data, client, failed>>

SoxWaited == pc = "soxwait" /\ sox[cur] = "exited"

WaitSox ==
  /\ SoxWaited
  /\ pc' = "ffwait"
  /\ UNCHANGED <<cur, procs, data, client, failed>>

\* ffmpegCommand.Wait: for the process and the copier, or not at all if it did
\* not start.  Then the next slice.
NextSlice_Again ==
  IF cur = NSlices
  THEN pc' = "done" /\ UNCHANGED cur
  ELSE pc' = "ffmpeg" /\ UNCHANGED cur

NextSlice ==
  IF cur = NSlices
  THEN pc' = "done" /\ UNCHANGED cur
  ELSE pc' = "ffmpeg" /\ cur' = cur + 1

WaitFfmpeg_ProcessOnly ==
  /\ pc = "ffwait"
  /\ ff[cur] \in {"none", "failed", "exited"}
  /\ NextSlice
  /\ UNCHANGED <<procs, data, client, failed>>

WaitFfmpeg_CopiedAll ==
  /\ pc = "ffwait"
  /\ ff[cur] = "failed" \/ (ff[cur] = "exited" /\ cop[cur] = "ended")
  /\ NextSlice
  /\ UNCHANGED <<procs, data, client, failed>>

FfmpegWaited ==
  /\ pc = "ffwait"
  /\ ff[cur] = "failed" \/ (ff[cur] = "exited" /\ cop[cur] \in {"stopped", "closed", "ended"})

WaitFfmpeg ==
  /\ FfmpegWaited
  /\ NextSlice
  /\ UNCHANGED <<procs, data, client, failed>>

--------------------------------------------------------------------------------
(* sox *)

SoxCanWrite(i) ==
  /\ sox[i] = "run"
  /\ written[i] < NChunks
  /\ piped[i] => written[i] - taken[i] < Cap

SoxWrite(i) ==
  /\ SoxCanWrite(i)
  /\ written' = [written EXCEPT ![i] = @ + 1]
  /\ UNCHANGED <<pc, cur, procs, taken, made, sent, got, client, failed>>

SoxIsThrough(i) == sox[i] = "run" /\ written[i] = NChunks

SoxExit(i) ==
  /\ SoxIsThrough(i)
  /\ sox' = [sox EXCEPT ![i] = "exited"]
  /\ UNCHANGED <<pc, cur, piped, ff, cop, data, client, failed>>

\* A clip it cannot read, a signal.
SoxFail(i) ==
  /\ sox[i] = "run"
  /\ sox' = [sox EXCEPT ![i] = "exited"]
  /\ failed' = TRUE
  /\ UNCHANGED <<pc, cur, piped, ff, cop, data, client>>

--------------------------------------------------------------------------------
(* ffmpeg: a chunk in, a chunk out. *)

FfCanRead(i) ==
  ff[i] = "run" /\ piped[i] /\ made[i] = taken[i] /\ taken[i] < written[i]

FfRead(i) ==
  /\ FfCanRead(i)
  /\ taken' = [taken EXCEPT ![i] = @ + 1]
  /\ UNCHANGED <<pc, cur, procs, written, made, sent, got, client, failed>>

FfCanWrite(i) ==
  ff[i] = "run" /\ made[i] < taken[i] /\ made[i] - sent[i] < Cap

FfWrite(i) ==
  /\ FfCanWrite(i)
  /\ made' = [made EXCEPT ![i] = @ + 1]
  /\ UNCHANGED <<pc, cur, procs, written, taken, sent, got, client, failed>>

\* The end of its input: no process holds the write end of the first pipe, which
\* is empty.
FfInputEnds_HeldOpen(i) ==
  piped[i] => pc = "done" /\ taken[i] = written[i]

FfInputEnds(i) ==
  piped[i] => sox[i] \in {"failed", "exited"} /\ taken[i] = written[i]

FfIsThrough(i) == ff[i] = "run" /\ made[i] = taken[i] /\ FfInputEnds(i)

FfExit(i) ==
  /\ FfIsThrough(i)
  /\ ff' = [ff EXCEPT ![i] = "exited"]
  /\ UNCHANGED <<pc, cur, piped, sox, cop, data, client, failed>>

\* A codec or a format it does not have, a signal.
FfFail(i) ==
  /\ ff[i] = "run"
  /\ ff' = [ff EXCEPT ![i] = "exited"]
  /\ failed' = TRUE
  /\ UNCHANGED <<pc, cur, piped, sox, cop, data, client>>

\* The second pipe has no reader any more, and ffmpeg is told when it writes.
FfIsTold(i) == ff[i] = "run" /\ made[i] < taken[i] /\ cop[i] = "closed"

FfBrokenPipe(i) ==
  /\ FfIsTold(i)
  /\ ff' = [ff EXCEPT ![i] = "exited"]
  /\ UNCHANGED <<pc, cur, piped, sox, cop, data, client, failed>>

--------------------------------------------------------------------------------
(* The copier, writing to the client through the flushWriter *)

CopierHas(i) == cop[i] = "copy" /\ sent[i] < made[i]

Copy(i) ==
  /\ CopierHas(i)
  /\ client = "here"
  /\ sent' = [sent EXCEPT ![i] = @ + 1]
  /\ got' = [got EXCEPT ![i] = @ + 1]
  /\ UNCHANGED <<pc, cur, procs, written, taken, made, client, failed>>

\* The client is gone: the write goes into a buffer all the same, or fails.
CopyToNobody(i) ==
  /\ CopierHas(i)
  /\ client = "gone"
  /\ \/ sent' = [sent EXCEPT ![i] = @ + 1] /\ UNCHANGED cop
     \/ /\ \E end \in {"stopped", "closed"} : cop' = [cop EXCEPT ![i] = end]
        /\ UNCHANGED sent
  /\ UNCHANGED <<pc, cur, piped, sox, ff, written, taken, made, got, client, failed>>

\* ffmpeg is gone and the second pipe is empty.
CopierIsThrough(i) == cop[i] = "copy" /\ sent[i] = made[i] /\ ff[i] = "exited"

CopyEnd(i) ==
  /\ CopierIsThrough(i)
  /\ cop' = [cop EXCEPT ![i] = "ended"]
  /\ UNCHANGED <<pc, cur, piped, sox, ff, data, client, failed>>

\* The client closes the connection.
Leave ==
  /\ client = "here"
  /\ client' = "gone"
  /\ UNCHANGED <<pc, cur, procs, data, failed>>

--------------------------------------------------------------------------------
Next ==
  \/ LookPath \/ StartFfmpeg \/ StartSox \/ WaitSox \/ WaitFfmpeg
  \/ \E i \in Slices :
       \/ SoxWrite(i) \/ SoxExit(i) \/ SoxFail(i)
       \/ FfRead(i) \/ FfWrite(i) \/ FfExit(i) \/ FfFail(i) \/ FfBrokenPipe(i)
       \/ Copy(i) \/ CopyToNobody(i) \/ CopyEnd(i)
  \/ Leave

Spec == Init /\ [][Next]_vars

\* The handler, the copier and the processes run when they can.  Nothing makes
\* the client read (the server sets no timeout), leave, or a process fail.
Fairness ==
  /\ WF_vars(LookPath \/ StartFfmpeg \/ StartSox \/ WaitSox \/ WaitFfmpeg)
  /\ \A i \in Slices :
       /\ WF_vars(SoxWrite(i) \/ SoxExit(i))
       /\ WF_vars(FfRead(i) \/ FfWrite(i) \/ FfExit(i) \/ FfBrokenPipe(i))
       /\ WF_vars(CopyToNobody(i) \/ CopyEnd(i))

FairSpec == Spec /\ Fairness

--------------------------------------------------------------------------------
(* Safety *)

\* The audio of a slice reaches the client only when nothing of the slices before
\* it can still arrive.
SlicesDoNotMix ==
  \A i, j \in Slices : i < j /\ got[j] > 0 => cop[i] # "copy"

\* The processes and the copier of a slice are gone when the next one starts and
\* when the handler is done: none is left behind.
NothingLeftBehind ==
  \A i \in Slices :
    i < cur \/ pc = "done" => sox[i] # "run" /\ ff[i] # "run" /\ cop[i] # "copy"

\* If nothing failed and the client stayed, it has received everything.
CompleteUnlessFailed ==
  pc = "done" /\ ~failed /\ client = "here" => \A i \in Slices : got[i] = NChunks

--------------------------------------------------------------------------------
(* The inductive invariant *)

\* Nothing of slice i has been started.
NotStarted(i) == i > cur \/ (i = cur /\ pc \in {"tools", "ffmpeg", "panicked"})

\* The handler is through with slice i.
Passed(i) == i < cur \/ pc = "done"

\* A chunk passes one place after the other, and the pipes and ffmpeg hold no more
\* than they can.
WithinBounds(i) ==
  /\ written[i] <= NChunks
  /\ ~piped[i] => taken[i] = 0
  /\ piped[i] => taken[i] <= written[i] /\ written[i] - taken[i] <= Cap
  /\ made[i] <= taken[i] /\ taken[i] - made[i] <= 1
  /\ sent[i] <= made[i] /\ made[i] - sent[i] <= Cap
  /\ got[i] <= sent[i]

\* What the place of the handler says of the processes of slice i.
StageOf(i) ==
  /\ NotStarted(i) =>
       /\ sox[i] = "none" /\ ff[i] = "none" /\ cop[i] = "none"
       /\ written[i] = 0 /\ taken[i] = 0 /\ made[i] = 0 /\ sent[i] = 0 /\ got[i] = 0
  /\ ~NotStarted(i) => ff[i] # "none"
  /\ i = cur /\ pc = "sox" => sox[i] = "none"
  /\ i = cur /\ pc = "soxwait" => sox[i] \in {"run", "exited"}
  /\ Passed(i) \/ (i = cur /\ pc = "ffwait") => sox[i] \in {"failed", "exited"}
  /\ Passed(i) => ff[i] \in {"failed", "exited"} /\ cop[i] # "copy"
  /\ cop[i] = "none" <=> ff[i] \in {"none", "failed"}

\* What has become of the audio of slice i, as long as nothing has failed.
AudioOf(i) ==
  /\ cop[i] = "ended" => sent[i] = made[i] /\ ff[i] = "exited"
  /\ client = "here" => got[i] = sent[i] /\ cop[i] \notin {"stopped", "closed"}
  /\ ~failed =>
       /\ ff[i] # "failed" /\ sox[i] # "failed"
       /\ ff[i] # "none" => piped[i]
       /\ sox[i] = "exited" => written[i] = NChunks
       /\ ff[i] = "exited" /\ cop[i] \notin {"stopped", "closed"} => made[i] = NChunks

\* The handler is done only at the last slice, and looks for the tools only before
\* the first.
PlaceOK ==
  /\ pc = "done" => cur = NSlices
  /\ pc \in {"tools", "panicked"} => cur = 1

IInv ==
  /\ TypeOK
  /\ PlaceOK
  /\ \A i \in Slices : WithinBounds(i) /\ StageOf(i) /\ AudioOf(i)

--------------------------------------------------------------------------------
(* Hanging *)

\* ffmpeg has a chunk to write, and the pipe is full for good.
FfBlocked(i) ==
  /\ ff[i] = "run" /\ made[i] < taken[i] /\ made[i] - sent[i] = Cap
  /\ cop[i] = "stopped"

\* sox has a chunk to write, and the pipe is full for good.
SoxBlocked(i) ==
  /\ sox[i] = "run" /\ written[i] < NChunks
  /\ piped[i] /\ written[i] - taken[i] = Cap
  /\ ff[i] \in {"failed", "exited"} \/ FfBlocked(i)

Hung ==
  \/ pc = "soxwait" /\ SoxBlocked(cur)
  \/ pc = "ffwait" /\ FfBlocked(cur)

\* The handler waits for a process that waits for a reader that is gone: nothing
\* in the server ends that, only the end of the process does.
HungForGood ==
  [][Hung => Hung' \/ SoxFail(cur) \/ FfFail(cur)]_vars

Over == pc \in {"done", "panicked"}

\* The copier waits for a client that does not read.
ClientStalls == client = "here" /\ \E i \in Slices : CopierHas(i)

\* The handler, a process or the copier can do its next step by itself.
SomethingRuns ==
  \/ pc \in {"tools", "ffmpeg", "sox"} \/ SoxWaited \/ FfmpegWaited
  \/ \E i \in Slices :
       \/ SoxCanWrite(i) \/ SoxIsThrough(i)
       \/ FfCanRead(i) \/ FfCanWrite(i) \/ FfIsThrough(i) \/ FfIsTold(i)
       \/ (client = "gone" /\ CopierHas(i)) \/ CopierIsThrough(i)

\* The handler, the two processes and the copier never wait for one another in a
\* circle: as long as the handler is not through, one of them can go on, or a
\* reader that a process needs is gone, by a failure or with the client, or the
\* client does not read.
HungForAReason == Hung /\ (failed \/ client = "gone")

OnlyHangOrClientBlocks == Over \/ SomethingRuns \/ HungForAReason \/ ClientStalls

\* What the handler, a process or a copier, and the audio have before them until
\* slice i is through.
HandlerLeft(i) ==
  IF Over \/ i < cur THEN 0
  ELSE IF i = cur THEN [tools |-> 5, ffmpeg |-> 4, sox |-> 3, soxwait |-> 2, ffwait |-> 1][pc]
  ELSE 5

ProcessLeft(state) == IF state = "none" THEN 2 ELSE IF state \in {"run", "copy"} THEN 1 ELSE 0

AudioLeft(i) == 4 * NChunks - (written[i] + taken[i] + made[i] + sent[i])

Left(i) ==
  HandlerLeft(i) + ProcessLeft(sox[i]) + ProcessLeft(ff[i]) + ProcessLeft(cop[i]) + AudioLeft(i)

\* Every step, a failure too, brings some slice nearer to its end and takes none
\* farther from it: no step is ever done again.  A request has only finitely many
\* steps, and ends unless it comes to one of the halts of OnlyHangOrClientBlocks.
EveryStepAdvances ==
  [][\/ Leave
     \/ /\ \A i \in Slices : Left(i)' \in Nat /\ Left(i)' <= Left(i)
        /\ \E i \in Slices : Left(i)' < Left(i)]_vars

\* There is no other way not to end: without a failure, and with a client that reads
\* to the end, the handler ends.
EndsOrHangs == <>Over \/ <>[]HungForAReason \/ <>[]ClientStalls

--------------------------------------------------------------------------------
(* The abstraction: what the client notices of it. *)

Abstract == INSTANCE Playback WITH
  at <- cur,
  heard <- got,
  spoilt <- failed,
  gone <- (client = "gone"),
  over <- Over

\* The loop of DownloadAndStream implements Playback: it leaves no slice before its
\* end, and sends nothing after it, unless something failed or the client left.
ImplementsPlayback == Abstract!Spec
================================================================================
