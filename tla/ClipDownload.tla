----------------------------- MODULE ClipDownload ------------------------------
(***************************************************************************)
(* audio/util.go: DownloadAllAudio and downloadUrlAndSave, as they run for *)
(* several HTTP requests at once inside one server process, over the clip  *)
(* directory they share.                                                   *)
(*                                                                         *)
(* A call of DownloadAllAudio starts two workers, hands every segment of   *)
(* its slices to them over an unbuffered channel, closes the channel and   *)
(* waits.  A worker downloads a segment straight into its final path,      *)
(* unless that path exists.  check(err) panics in the worker's goroutine,  *)
(* where nothing recovers: the whole process exits, and the files it had   *)
(* open stay as they are.                                                  *)
(*                                                                         *)
(* A clip stands for a local path.  Its url is the same in every request,  *)
(* as long as the table has one row for the channel and the start that the *)
(* path names; a call's segments have distinct paths (PathsDistinct of     *)
(* RequestSlices).  The order in which a call's segments are sent (slices  *)
(* in order, the map of a slice in any order) is abstracted to any order.  *)
(* A body is NChunks writes of io.Copy.                                    *)
(***************************************************************************)
EXTENDS Integers, FiniteSets

CONSTANTS
  Requests,     \* calls of DownloadAllAudio, one for each request being served
  Thread,       \* worker goroutines, of all the calls
  Owner,        \* Owner[t]: the call that starts worker t
  Clips,        \* local paths
  NoClip,       \* the value of item[t] while t holds no segment
  Need,         \* Need[r]: the paths of the segments of r
  NChunks,      \* chunks of a clip's body
  JunkBodies,   \* may a GET succeed with a body that is not the clip?
  MaxCrashes    \* bound: how many times the process may die

ASSUME ThreadAssumption ==
  /\ IsFiniteSet(Thread)
  /\ Owner \in [Thread -> Requests]
\* workerCount is not 0.
ASSUME PoolAssumption == \A r \in Requests : \E t \in Thread : Owner[t] = r
ASSUME ClipAssumption ==
  /\ NoClip \notin Clips
  /\ Need \in [Requests -> SUBSET Clips]
ASSUME BoundAssumption ==
  /\ NChunks \in Nat \ {0}
  /\ JunkBodies \in BOOLEAN
  /\ MaxCrashes \in Nat

VARIABLES
  \* memory, lost when the process dies
  up,         \* is the process running?
  call,       \* call[r]: where the goroutine of r is in DownloadAllAudio
  unsent,     \* unsent[r]: segments the loops have not put on itemQ yet
  closed,     \* closed[r]: close(itemQ) done
  wg,         \* wg[r]: the counter of the WaitGroup
  wpc,        \* wpc[t]: where worker t is
  item,       \* item[t]: the segment t is working on
  body,       \* body[t]: what the response t reads holds
  off,        \* off[t]: chunks t has written
  \* the disk, which may survive the process
  present,    \* the paths that exist
  content,    \* content[c]: the chunks of c, "none" where nothing was written
  \* for the properties only
  crashes,    \* how often the process died
  suspect     \* paths that got a body that is not the clip, or that were
              \* incomplete when the process died with them open

memory == <<up, call, unsent, closed, wg, wpc, item, body, off>>
disk == <<present, content>>
vars == <<memory, disk, crashes, suspect>>

Chunk == 1..NChunks
Pool(r) == {t \in Thread : Owner[t] = r}
Running(r) == call[r] \in {"feeding", "waiting"}
Whole(c) == \A k \in Chunk : content[c][k] = "clip"

\* t holds the file of c open for writing.
Writing(t, c) == item[t] = c /\ wpc[t] \in {"get", "copy"}

TypeOK ==
  /\ up \in BOOLEAN
  /\ call \in [Requests -> {"none", "feeding", "waiting", "returned"}]
  /\ unsent \in [Requests -> SUBSET Clips]
  /\ closed \in [Requests -> BOOLEAN]
  /\ wg \in [Requests -> Nat]
  /\ wpc \in [Thread -> {"none", "recv", "stat", "create", "get", "copy", "exited"}]
  /\ item \in [Thread -> Clips \cup {NoClip}]
  /\ body \in [Thread -> {"clip", "junk"}]
  /\ off \in [Thread -> 0..NChunks]
  /\ present \in SUBSET Clips
  /\ content \in [Clips -> [Chunk -> {"none", "clip", "junk"}]]
  /\ crashes \in 0..MaxCrashes
  /\ suspect \in SUBSET Clips

--------------------------------------------------------------------------------
(* The process starts with no call running and no goroutine. *)
NoCalls ==
  /\ call = [r \in Requests |-> "none"]
  /\ unsent = [r \in Requests |-> {}]
  /\ closed = [r \in Requests |-> FALSE]
  /\ wg = [r \in Requests |-> 0]
  /\ wpc = [t \in Thread |-> "none"]
  /\ item = [t \in Thread |-> NoClip]
  /\ body = [t \in Thread |-> "clip"]
  /\ off = [t \in Thread |-> 0]

EmptyDisk ==
  /\ present = {}
  /\ content = [c \in Clips |-> [k \in Chunk |-> "none"]]
  /\ suspect = {}

Init == up = TRUE /\ NoCalls /\ EmptyDisk /\ crashes = 0

--------------------------------------------------------------------------------
(* The calling goroutine *)

\* The WaitGroup, the channel, and one wg.Add(1) and one go for each worker.
Start_NoAdd(r) ==
  /\ up
  /\ call[r] = "none"
  /\ call' = [call EXCEPT ![r] = "feeding"]
  /\ unsent' = [unsent EXCEPT ![r] = Need[r]]
  /\ wpc' = [t \in Thread |-> IF Owner[t] = r THEN "recv" ELSE wpc[t]]
  /\ UNCHANGED <<up, closed, wg, item, body, off, disk, crashes, suspect>>

Start(r) ==
  /\ up
  /\ call[r] = "none"
  /\ call' = [call EXCEPT ![r] = "feeding"]
  /\ unsent' = [unsent EXCEPT ![r] = Need[r]]
  /\ wg' = [wg EXCEPT ![r] = Cardinality(Pool(r))]
  /\ wpc' = [t \in Thread |-> IF Owner[t] = r THEN "recv" ELSE wpc[t]]
  /\ UNCHANGED <<up, closed, item, body, off, disk, crashes, suspect>>

\* itemQ <- b meets a worker that is receiving.
CanSend(t, c) ==
  call[Owner[t]] = "feeding" /\ c \in unsent[Owner[t]] /\ wpc[t] = "recv"

Send(t, c) ==
  LET r == Owner[t] IN
  /\ CanSend(t, c)
  /\ unsent' = [unsent EXCEPT ![r] = @ \ {c}]
  /\ wpc' = [wpc EXCEPT ![t] = "stat"]
  /\ item' = [item EXCEPT ![t] = c]
  /\ UNCHANGED <<up, call, closed, wg, body, off, disk, crashes, suspect>>

\* Both loops are over: close(itemQ), then wg.Wait().
Close_Forgotten(r) ==
  /\ call[r] = "feeding"
  /\ unsent[r] = {}
  /\ call' = [call EXCEPT ![r] = "waiting"]
  /\ UNCHANGED <<up, unsent, closed, wg, wpc, item, body, off, disk, crashes, suspect>>

AllSent(r) == call[r] = "feeding" /\ unsent[r] = {}

Close(r) ==
  /\ AllSent(r)
  /\ call' = [call EXCEPT ![r] = "waiting"]
  /\ closed' = [closed EXCEPT ![r] = TRUE]
  /\ UNCHANGED <<up, unsent, wg, wpc, item, body, off, disk, crashes, suspect>>

\* wg.Wait() lets the caller go on: the clips are used from here.
Return_NoWait(r) ==
  /\ call[r] = "waiting"
  /\ call' = [call EXCEPT ![r] = "returned"]
  /\ UNCHANGED <<up, unsent, closed, wg, wpc, item, body, off, disk, crashes, suspect>>

AllDone(r) == call[r] = "waiting" /\ wg[r] = 0

Return(r) ==
  /\ AllDone(r)
  /\ call' = [call EXCEPT ![r] = "returned"]
  /\ UNCHANGED <<up, unsent, closed, wg, wpc, item, body, off, disk, crashes, suspect>>

--------------------------------------------------------------------------------
(* A worker *)

\* The range over itemQ ends when it is closed; the deferred wg.Done() runs.
NothingToReceive(t) == wpc[t] = "recv" /\ closed[Owner[t]]

Exit(t) ==
  LET r == Owner[t] IN
  /\ NothingToReceive(t)
  /\ wpc' = [wpc EXCEPT ![t] = "exited"]
  /\ wg' = [wg EXCEPT ![r] = @ - 1]
  /\ UNCHANGED <<up, call, unsent, closed, item, body, off, disk, crashes, suspect>>

\* downloadUrlAndSave returns: the worker drops the segment and receives again.
NextItem(t) ==
  /\ wpc' = [wpc EXCEPT ![t] = "recv"]
  /\ item' = [item EXCEPT ![t] = NoClip]
  /\ body' = [body EXCEPT ![t] = "clip"]
  /\ off' = [off EXCEPT ![t] = 0]

\* os.Stat(clipPath): "file exists; skipping", or on to os.Create.
Stat_NoSkip(t) ==
  /\ wpc[t] = "stat"
  /\ wpc' = [wpc EXCEPT ![t] = "create"]
  /\ UNCHANGED <<up, call, unsent, closed, wg, item, body, off, disk, crashes, suspect>>

Stat(t) ==
  /\ wpc[t] = "stat"
  /\ \/ /\ item[t] \in present
        /\ NextItem(t)
     \/ /\ item[t] \notin present
        /\ wpc' = [wpc EXCEPT ![t] = "create"]
        /\ UNCHANGED <<item, body, off>>
  /\ UNCHANGED <<up, call, unsent, closed, wg, disk, crashes, suspect>>

\* os.Create(clipPath) truncates the file if it is there by now.
Create_OneAtATime(t) ==
  /\ wpc[t] = "create"
  /\ \A u \in Thread : wpc[u] \notin {"get", "copy"}
  /\ wpc' = [wpc EXCEPT ![t] = "get"]
  /\ present' = present \cup {item[t]}
  /\ content' = [content EXCEPT ![item[t]] = [k \in Chunk |-> "none"]]
  /\ UNCHANGED <<up, call, unsent, closed, wg, item, body, off, crashes, suspect>>

Create(t) ==
  /\ wpc[t] = "create"
  /\ wpc' = [wpc EXCEPT ![t] = "get"]
  /\ present' = present \cup {item[t]}
  /\ content' = [content EXCEPT ![item[t]] = [k \in Chunk |-> "none"]]
  /\ UNCHANGED <<up, call, unsent, closed, wg, item, body, off, crashes, suspect>>

\* http.Get(url) returns a response.  Its status is not looked at.
Get(t) ==
  /\ wpc[t] = "get"
  /\ wpc' = [wpc EXCEPT ![t] = "copy"]
  /\ \/ /\ body' = [body EXCEPT ![t] = "clip"]
        /\ UNCHANGED suspect
     \/ /\ JunkBodies
        /\ body' = [body EXCEPT ![t] = "junk"]
        /\ suspect' = suspect \cup {item[t]}
  /\ UNCHANGED <<up, call, unsent, closed, wg, item, off, disk, crashes>>

\* io.Copy writes the next chunk where this worker's file offset is.
CopyChunk(t) ==
  /\ wpc[t] = "copy"
  /\ off[t] < NChunks
  /\ off' = [off EXCEPT ![t] = @ + 1]
  /\ content' = [content EXCEPT ![item[t]] = [@ EXCEPT ![off[t] + 1] = body[t]]]
  /\ UNCHANGED <<up, call, unsent, closed, wg, wpc, item, body, present, crashes, suspect>>

\* io.Copy meets the end of the body: all of a clip, any part of another body.
CopyEnd_Short(t) ==
  /\ wpc[t] = "copy"
  /\ NextItem(t)
  /\ UNCHANGED <<up, call, unsent, closed, wg, disk, crashes, suspect>>

CopyEnd(t) ==
  /\ wpc[t] = "copy"
  /\ body[t] = "junk" \/ off[t] = NChunks
  /\ NextItem(t)
  /\ UNCHANGED <<up, call, unsent, closed, wg, disk, crashes, suspect>>

--------------------------------------------------------------------------------
(* The process *)

\* Every call and every goroutine is gone: NoCalls holds again.
LoseMemory ==
  /\ call' = [r \in Requests |-> "none"]
  /\ unsent' = [r \in Requests |-> {}]
  /\ closed' = [r \in Requests |-> FALSE]
  /\ wg' = [r \in Requests |-> 0]
  /\ wpc' = [t \in Thread |-> "none"]
  /\ item' = [t \in Thread |-> NoClip]
  /\ body' = [t \in Thread |-> "clip"]
  /\ off' = [t \in Thread |-> 0]

\* The disk of a fresh host: EmptyDisk holds again.
WipeDisk ==
  /\ present' = {}
  /\ content' = [c \in Clips |-> [k \in Chunk |-> "none"]]
  /\ suspect' = {}

\* The process dies in the middle of whatever it was doing.
Die ==
  /\ up
  /\ crashes < MaxCrashes
  /\ up' = FALSE
  /\ crashes' = crashes + 1
  /\ LoseMemory
  /\ suspect' = suspect \cup {c \in present : ~Whole(c) /\ \E t \in Thread : Writing(t, c)}
  /\ UNCHANGED disk

\* check(err) on the results of os.Create, http.Get and io.Copy.
Panic(t) ==
  /\ wpc[t] \in {"create", "get", "copy"}
  /\ Die

\* The host stops or restarts the process, whatever it is doing.
Kill == Die

\* A new process; InitDirs keeps a clip directory that exists, and makes one
\* on a host whose temporary directory is empty.
Restart ==
  /\ ~up
  /\ up' = TRUE
  /\ \/ UNCHANGED <<disk, suspect>>
     \/ WipeDisk
  /\ UNCHANGED <<call, unsent, closed, wg, wpc, item, body, off, crashes>>

--------------------------------------------------------------------------------
Next ==
  \/ \E r \in Requests : Start(r) \/ Close(r) \/ Return(r)
  \/ \E t \in Thread, c \in Clips : Send(t, c)
  \/ \E t \in Thread :
       \/ Exit(t) \/ Stat(t) \/ Create(t)
       \/ Get(t) \/ CopyChunk(t) \/ CopyEnd(t)
       \/ Panic(t)
  \/ Kill
  \/ Restart

Spec == Init /\ [][Next]_vars

\* The Go scheduler runs every goroutine that can go on, and a local file
\* operation ends.  Nothing makes a server answer a GET or send a body
\* (http.Get has no timeout), a client send a request, or the host restart
\* the process: those steps are not fair.
Fairness ==
  /\ \A r \in Requests : WF_vars(Close(r)) /\ WF_vars(Return(r))
  /\ \A r \in Requests : WF_vars(\E t \in Pool(r), c \in Clips : Send(t, c))
  /\ \A t \in Thread : WF_vars(Exit(t)) /\ WF_vars(Stat(t)) /\ WF_vars(Create(t))

FairSpec == Spec /\ Fairness

--------------------------------------------------------------------------------
(* Safety *)

\* No segment is lost between the loops, the channel and the two workers, and
\* none is handed out twice: as long as a call runs, each of its paths is in
\* exactly one place: not sent yet, held by one worker, or dealt with, and
\* then its file exists.
NoItemLost ==
  \A r \in Requests : \A c \in Need[r] :
    /\ Running(r) => \/ c \in unsent[r]
                     \/ c \in present
                     \/ \E t \in Pool(r) : item[t] = c
    /\ c \in unsent[r] => \A t \in Pool(r) : item[t] # c
    /\ \A t, u \in Pool(r) : item[t] = c /\ item[u] = c => t = u

\* When DownloadAllAudio returns, every clip of the call exists on disk.
ReturnedClipsExist ==
  \A r \in Requests : call[r] = "returned" => Need[r] \subseteq present

\* Two workers, of one call or of two, may write the same file at the same
\* time, each truncating what the other wrote.  Once nobody writes a file it
\* is the whole clip all the same, unless a response was not the clip or the
\* process died while it was incomplete.
SettledClipsWhole ==
  \A c \in present \ suspect : Whole(c) \/ \E t \in Thread : Writing(t, c)

\* A call that returned finds each of its clips whole, or else another call is
\* writing it at this moment: its own workers are never the reason.
ReturnedClipsWholeOrShared ==
  \A r \in Requests : call[r] = "returned" =>
    \A c \in Need[r] \ suspect :
      Whole(c) \/ \E t \in Thread \ Pool(r) : Writing(t, c)

\* What audio/audio.go:154 says of the call: "Download all here", before the
\* slices are processed: all the clips are there, complete, when it returns.
DownloadedBeforeUse ==
  \A r \in Requests : call[r] = "returned" => \A c \in Need[r] : Whole(c)

\* c exists, and no worker has found it missing and is about to write it, or does.
Settled(c) ==
  /\ c \in present
  /\ \A t \in Thread : ~(item[t] = c /\ wpc[t] \in {"create", "get", "copy"})

\* Once a file is settled it stays so and never changes again on that disk: a clip
\* left damaged by a crash or by a wrong response is never downloaded again.
SettledClipsFinal ==
  [][\A c \in Clips :
       Settled(c) /\ ~WipeDisk => Settled(c)' /\ content'[c] = content[c]]_vars

--------------------------------------------------------------------------------
(* The inductive invariant behind the safety properties *)

\* The workers of r that have not run wg.Done() yet.
Active(r) == {t \in Pool(r) : wpc[t] \notin {"none", "exited"}}

\* What each stage of a call says of its channel, its counter and its workers.
StageOf(r) ==
  /\ ~up => call[r] = "none"
  /\ wg[r] = Cardinality(Active(r))
  /\ closed[r] <=> call[r] \in {"waiting", "returned"}
  /\ call[r] # "feeding" => unsent[r] = {}
  /\ call[r] = "none" => \A t \in Pool(r) : wpc[t] = "none"
  /\ call[r] = "feeding" => \A t \in Pool(r) : wpc[t] \notin {"none", "exited"}
  /\ call[r] = "waiting" => \A t \in Pool(r) : wpc[t] # "none"
  /\ call[r] = "returned" => \A t \in Pool(r) : wpc[t] = "exited"

PoolInv == \A r \in Requests : StageOf(r)

\* A worker holds a segment of its own call exactly while it is inside
\* downloadUrlAndSave, the file it writes exists, and only a wrong response makes
\* it write anything but the clip, from its first chunk on.
ItemInv ==
  /\ \A r \in Requests : unsent[r] \subseteq Need[r]
  /\ \A t \in Thread :
       /\ item[t] # NoClip <=> wpc[t] \in {"stat", "create", "get", "copy"}
       /\ item[t] # NoClip => item[t] \in Need[Owner[t]]
       /\ wpc[t] \in {"get", "copy"} => item[t] \in present
       /\ wpc[t] # "copy" => off[t] = 0
       /\ wpc[t] = "copy" /\ body[t] = "junk" => item[t] \in suspect

\* Each chunk of a file is right, or some worker has yet to write it.
ChunkInv ==
  \A c \in present \ suspect : \A k \in Chunk :
    \/ content[c][k] = "clip"
    \/ \E t \in Thread :
         /\ item[t] = c
         /\ \/ wpc[t] = "get"
            \/ wpc[t] = "copy" /\ body[t] = "clip" /\ off[t] < k

IInv ==
  TypeOK /\ PoolInv /\ ItemInv /\ NoItemLost /\ ReturnedClipsExist /\ ChunkInv

--------------------------------------------------------------------------------
(* Waiting *)

Hung(t) == wpc[t] \in {"get", "copy"}

\* The call of r, or one of its workers, can do its next step without the network.
GoesOn(r) ==
  \/ AllSent(r) \/ AllDone(r)
  \/ \E t \in Pool(r) :
       \/ \E c \in Clips : CanSend(t, c)
       \/ NothingToReceive(t)
       \/ wpc[t] \in {"stat", "create"}

\* The call and its workers never wait for one another in a circle: a call that
\* cannot go on has a worker that waits for the network, and all of its clips are
\* at least begun, unless every one of its workers waits.
OnlyNetworkBlocks ==
  \A r \in Requests : Running(r) /\ ~GoesOn(r) =>
    /\ \E t \in Pool(r) : Hung(t)
    /\ Need[r] \subseteq present \/ \A t \in Pool(r) : Hung(t)

\* A call returns, or dies with its process, unless one of its workers waits
\* for the network forever: the channel and the WaitGroup block nobody else.
StuckOnlyOnNetwork ==
  \A r \in Requests :
    []<>~Running(r) \/ <>[](\E t \in Pool(r) : Hung(t))

\* One hung download holds up its own clip only: every clip of a running call
\* is reached, unless all its workers end up waiting for the network.
OneHungWorkerIsNotEnough ==
  \A r \in Requests : \A c \in Need[r] :
    []<>(~Running(r) \/ c \in present) \/ <>[](\A t \in Pool(r) : Hung(t))

--------------------------------------------------------------------------------
(* The abstraction: an item is still to do until its worker drops it. *)

PhaseOf(r) ==
  CASE Running(r) -> "running"
    [] call[r] = "returned" -> "returned"
    [] OTHER -> "idle"

TodoOf(r) == (unsent[r] \cup {item[t] : t \in Pool(r)}) \ {NoClip}

Abstract == INSTANCE ParallelFor WITH
  phase <- [r \in Requests |-> PhaseOf(r)],
  todo <- [r \in Requests |-> TodoOf(r)]

\* DownloadAllAudio implements ParallelFor: it deals with each segment it was
\* given, and it returns only when there is none left.
ImplementsParallelFor == Abstract!Spec
================================================================================
