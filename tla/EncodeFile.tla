------------------------------ MODULE EncodeFile -------------------------------
(***************************************************************************)
(* audio/audio.go: DownloadAndEncode, after its downloads, and main.go:    *)
(* fullAudioHandler, for several requests of /audio at once.               *)
(*                                                                         *)
(* A request encodes its audio into a file whose name holds its channels,  *)
(* start and duration, and then serves that file.  Requests for the same   *)
(* audio, one after the other or at once, use the same file: ffmpeg -y     *)
(* truncates it and writes it anew while another request may write or read *)
(* it.  The errors of the three calls that run the processes are dropped.  *)
(*                                                                         *)
(* sh, sox and ffmpeg are external, and so is http.ServeFile, which sends  *)
(* as many bytes as the file has when it opens it.  An encoding is NChunks *)
(* writes, the same for all the requests of a file.  That sox may block    *)
(* for good on its pipe is the matter of StreamPipeline.                   *)
(***************************************************************************)
EXTENDS Integers

CONSTANTS
  Requests,
  Files,      \* the values of outFile
  OutFile,    \* OutFile[r]: the file of request r
  NChunks     \* chunks of an encoding

ASSUME FileAssumption == OutFile \in [Requests -> Files]
ASSUME SizeAssumption == NChunks \in Nat \ {0}

VARIABLES
  pc,         \* pc[r]: where the handler of r is
  ff,         \* ff[r]: the state of the ffmpeg process of r
  audio,      \* audio[r]: chunks for which sox delivers audio
  off,        \* off[r]: chunks ffmpeg has written
  \* the clip directory
  present,    \* the files that exist
  size,       \* size[f]: chunks up to the end of f
  content,    \* content[f]: its chunks, "none" where nothing was written
  \* http.ServeFile
  limit,      \* limit[r]: the length it announced
  pos,        \* pos[r]: chunks it has sent
  holes,      \* holes[r]: has it sent a chunk nobody had written?
  \* for the properties only
  failed,     \* requests with a process that failed
  disturbed   \* requests whose file another ffmpeg had open at some time from the
              \* beginning of their own encoding to the end of their response

disk == <<present, size, content>>
serving == <<limit, pos, holes>>
vars == <<pc, ff, audio, off, disk, serving, failed, disturbed>>

Chunk == 1..NChunks
Over == {"done", "aborted", "notfound", "panicked", "dead"}

TypeOK ==
  /\ pc \in [Requests -> {"idle", "encode", "sox", "soxwait", "ffwait", "serve", "serving"} \cup Over]
  /\ ff \in [Requests -> {"none", "run", "open", "failed", "exited"}]
  /\ audio \in [Requests -> 0..NChunks] /\ off \in [Requests -> 0..NChunks]
  /\ present \subseteq Files
  /\ size \in [Files -> 0..NChunks]
  /\ content \in [Files -> [Chunk -> {"none", "written"}]]
  /\ limit \in [Requests -> 0..NChunks] /\ pos \in [Requests -> 0..NChunks]
  /\ holes \in [Requests -> BOOLEAN]
  /\ failed \subseteq Requests /\ disturbed \subseteq Requests

Init ==
  /\ pc = [r \in Requests |-> "idle"]
  /\ ff = [r \in Requests |-> "none"]
  /\ audio = [r \in Requests |-> 0] /\ off = [r \in Requests |-> 0]
  /\ present = {} /\ failed = {} /\ disturbed = {}
  /\ size = [f \in Files |-> 0]
  /\ content = [f \in Files |-> [k \in Chunk |-> "none"]]
  /\ limit = [r \in Requests |-> 0] /\ pos = [r \in Requests |-> 0]
  /\ holes = [r \in Requests |-> FALSE]

--------------------------------------------------------------------------------
(* The handler *)

\* exec.LookPath finds sox and ffmpeg, or check(err) panics.
LookPath(r) ==
  /\ pc[r] = "idle"
  /\ \E next \in {"encode", "panicked"} : pc' = [pc EXCEPT ![r] = next]
  /\ UNCHANGED <<ff, audio, off, disk, serving, failed, disturbed>>

\* soxCommand.StdoutPipe fails: log.Fatal ends the server with every request it
\* has.  The processes it started go on; requests to come find a new server.
Fatal_EndsThem(r) ==
  /\ pc[r] = "encode"
  /\ pc' = [s \in Requests |-> IF pc[s] \in Over \cup {"idle"} THEN pc[s] ELSE "dead"]
  /\ ff' = [s \in Requests |-> IF ff[s] \in {"run", "open"} THEN "exited" ELSE ff[s]]
  /\ UNCHANGED <<audio, off, disk, serving, failed, disturbed>>

Fatal(r) ==
  /\ pc[r] = "encode"
  /\ pc' = [s \in Requests |-> IF pc[s] \in Over \cup {"idle"} THEN pc[s] ELSE "dead"]
  /\ UNCHANGED <<ff, audio, off, disk, serving, failed, disturbed>>

\* ffmpegCommand.Start
StartFfmpeg(r) ==
  /\ pc[r] = "encode"
  /\ pc' = [pc EXCEPT ![r] = "sox"]
  /\ \/ ff' = [ff EXCEPT ![r] = "run"] /\ UNCHANGED failed
     \/ ff' = [ff EXCEPT ![r] = "failed"] /\ failed' = failed \cup {r}
  /\ UNCHANGED <<audio, off, disk, serving, disturbed>>

\* soxCommand.Run: sh runs sox, which may fail at any point of its output.
RunSox(r) ==
  /\ pc[r] = "sox"
  /\ pc' = [pc EXCEPT ![r] = "soxwait"]
  /\ \E n \in 0..NChunks :
       /\ audio' = [audio EXCEPT ![r] = n]
       /\ failed' = IF n < NChunks THEN failed \cup {r} ELSE failed
  /\ UNCHANGED <<ff, off, disk, serving, disturbed>>

SoxEnds(r) ==
  /\ pc[r] = "soxwait"
  /\ pc' = [pc EXCEPT ![r] = "ffwait"]
  /\ UNCHANGED <<ff, audio, off, disk, serving, failed, disturbed>>

\* ffmpegCommand.Wait, and DownloadAndEncode returns outFile.
WaitFfmpeg_NoWait(r) ==
  /\ pc[r] = "ffwait"
  /\ pc' = [pc EXCEPT ![r] = "serve"]
  /\ UNCHANGED <<ff, audio, off, disk, serving, failed, disturbed>>

WaitFfmpeg(r) ==
  /\ pc[r] = "ffwait"
  /\ ff[r] \in {"failed", "exited"}
  /\ pc' = [pc EXCEPT ![r] = "serve"]
  /\ UNCHANGED <<ff, audio, off, disk, serving, failed, disturbed>>

--------------------------------------------------------------------------------
(* http.ServeFile *)

\* It opens the file and takes its size for the length of the response, or
\* answers 404.
Open(r) ==
  /\ pc[r] = "serve"
  /\ IF OutFile[r] \in present
     THEN pc' = [pc EXCEPT ![r] = "serving"] /\ limit' = [limit EXCEPT ![r] = size[OutFile[r]]]
     ELSE pc' = [pc EXCEPT ![r] = "notfound"] /\ UNCHANGED limit
  /\ UNCHANGED <<ff, audio, off, disk, pos, holes, failed, disturbed>>

SendChunk(r) ==
  /\ pc[r] = "serving"
  /\ pos[r] < limit[r] /\ pos[r] < size[OutFile[r]]
  /\ pos' = [pos EXCEPT ![r] = @ + 1]
  /\ holes' = [holes EXCEPT ![r] = @ \/ content[OutFile[r]][pos[r] + 1] = "none"]
  /\ UNCHANGED <<pc, ff, audio, off, disk, limit, failed, disturbed>>

\* The announced length is sent, or the file ends before it.
EndResponse(r) ==
  /\ pc[r] = "serving"
  /\ pc' = [pc EXCEPT ![r] = IF pos[r] = limit[r] THEN "done" ELSE "aborted"]
  /\ pos[r] = limit[r] \/ pos[r] >= size[OutFile[r]]
  /\ UNCHANGED <<ff, audio, off, disk, serving, failed, disturbed>>

--------------------------------------------------------------------------------
(* ffmpeg *)

\* It has seen the format of its input and opens its output: with -y, whether
\* the file exists or not.
FfOpen_NoForce(r) ==
  /\ ff[r] = "run" /\ audio[r] > 0
  /\ IF OutFile[r] \in present
     THEN ff' = [ff EXCEPT ![r] = "exited"] /\ UNCHANGED present
     ELSE ff' = [ff EXCEPT ![r] = "open"] /\ present' = present \cup {OutFile[r]}
  /\ UNCHANGED <<pc, audio, off, size, content, serving, failed, disturbed>>

FfOpen(r) ==
  LET others == {s \in Requests \ {r} : OutFile[s] = OutFile[r]}
      writing == {s \in others : ff[s] = "open"}
      using == {s \in others : ff[s] \in {"open", "exited"} /\ pc[s] \notin Over}
  IN
  /\ ff[r] = "run" /\ audio[r] > 0
  /\ ff' = [ff EXCEPT ![r] = "open"]
  /\ present' = present \cup {OutFile[r]}
  /\ size' = [size EXCEPT ![OutFile[r]] = 0]
  /\ content' = [content EXCEPT ![OutFile[r]] = [k \in Chunk |-> "none"]]
  /\ disturbed' = disturbed \cup using \cup (IF writing = {} THEN {} ELSE {r})
  /\ UNCHANGED <<pc, audio, off, serving, failed>>

FfWrite(r) ==
  /\ ff[r] = "open"
  /\ off[r] < audio[r]
  /\ off' = [off EXCEPT ![r] = @ + 1]
  /\ content' = [content EXCEPT ![OutFile[r]][off[r] + 1] = "written"]
  /\ size' = [size EXCEPT ![OutFile[r]] = IF @ > off[r] THEN @ ELSE off[r] + 1]
  /\ UNCHANGED <<pc, ff, audio, present, serving, failed, disturbed>>

\* The end of its input; without any input it ends before it opens the file.
FfExit(r) ==
  /\ ff[r] = IF audio[r] = 0 THEN "run" ELSE "open"
  /\ pc[r] \in {"ffwait", "dead"}
  /\ off[r] = audio[r]
  /\ ff' = [ff EXCEPT ![r] = "exited"]
  /\ UNCHANGED <<pc, audio, off, disk, serving, failed, disturbed>>

\* A codec it does not have, a full disk, a signal.
FfFail(r) ==
  /\ ff[r] \in {"run", "open"}
  /\ ff' = [ff EXCEPT ![r] = "exited"]
  /\ failed' = failed \cup {r}
  /\ UNCHANGED <<pc, audio, off, disk, serving, disturbed>>

--------------------------------------------------------------------------------
Next ==
  \E r \in Requests :
    \/ LookPath(r) \/ Fatal(r) \/ StartFfmpeg(r) \/ RunSox(r) \/ SoxEnds(r) \/ WaitFfmpeg(r)
    \/ Open(r) \/ SendChunk(r) \/ EndResponse(r)
    \/ FfOpen(r) \/ FfWrite(r) \/ FfExit(r) \/ FfFail(r)

Spec == Init /\ [][Next]_vars

--------------------------------------------------------------------------------
(* Safety *)

Whole(f) == \A k \in Chunk : content[f][k] = "written"

\* Any number of requests may write one file at once, each truncating what the
\* others wrote, and the server may end while they do.  As long as no process
\* failed, a file that nobody writes is whole all the same.
SettledFilesWhole ==
  \A f \in present :
    \/ Whole(f)
    \/ \E r \in Requests : OutFile[r] = f /\ (ff[r] = "open" \/ r \in failed)

\* A request none of whose processes failed, and during which no other one wrote
\* its file, gets the whole audio, whatever the requests before it left there.
ServedWholeUnlessDisturbed ==
  \A r \in Requests \ (failed \cup disturbed) :
    pc[r] \in {"done", "aborted", "notfound"} =>
      pc[r] = "done" /\ pos[r] = NChunks /\ ~holes[r]

--------------------------------------------------------------------------------
(* The inductive invariant *)

\* How far the processes of r can be where its handler is, and what they have left
\* to do if none of them failed.
ProcessesOf(r) ==
  /\ pc[r] \in {"idle", "encode", "panicked"} => ff[r] = "none"
  /\ pc[r] \in {"serve", "serving", "done", "aborted", "notfound"} => ff[r] \in {"failed", "exited"}
  /\ ff[r] \in {"none", "run", "failed"} => off[r] = 0
  /\ pc[r] \in {"idle", "encode", "sox"} => audio[r] = 0
  /\ off[r] <= audio[r]
  /\ ff[r] = "open" => OutFile[r] \in present /\ audio[r] > 0
  /\ r \notin failed =>
       /\ ff[r] # "failed"
       /\ ff[r] = "exited" => off[r] = audio[r] /\ pc[r] \notin {"sox", "soxwait"}
       /\ audio[r] \in {0, NChunks}
       /\ pc[r] \in {"soxwait", "ffwait", "serve", "serving", "done", "aborted", "notfound"} =>
            audio[r] = NChunks

\* A chunk that a file lacks is one that some ffmpeg has yet to write, or failed to.
ChunksOf(f) ==
  \/ \E r \in failed : OutFile[r] = f
  \/ \A k \in Chunk :
       \/ content[f][k] = "written"
       \/ \E r \in Requests : OutFile[r] = f /\ ff[r] = "open" /\ off[r] < k

\* r has had its file to itself since it opened it.
Alone(r) ==
  r \notin failed \cup disturbed /\ ff[r] \in {"open", "exited"} /\ pc[r] \notin Over

\* The file of such a request is what its own ffmpeg has written.
FileOf(r) ==
  /\ OutFile[r] \in present
  /\ \A s \in Requests \ {r} : ff[s] = "open" => OutFile[s] # OutFile[r]
  /\ size[OutFile[r]] = off[r]
  /\ \A k \in 1..off[r] : content[OutFile[r]][k] = "written"

ServedOf(r) ==
  /\ pc[r] \notin {"serving"} \cup Over => pos[r] = 0 /\ ~holes[r]
  /\ pc[r] = "serving" /\ Alone(r) => limit[r] = NChunks /\ ~holes[r]

IInv ==
  /\ TypeOK
  /\ \A r \in Requests : ProcessesOf(r) /\ (Alone(r) => FileOf(r)) /\ ServedOf(r)
  /\ \A f \in present : ChunksOf(f)
  /\ ServedWholeUnlessDisturbed
================================================================================
