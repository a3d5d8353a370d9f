----------------------------- MODULE RequestSlices -----------------------------
(***************************************************************************)
(* audio/audio.go: GetRequestSlices, from the query to the time slices.    *)
(*                                                                         *)
(* The rows of audio_segments that a request asks for are read one at a    *)
(* time from the connection, in the order of met_start, and each is put    *)
(* into the time slice with its start and end.  A slice merges the         *)
(* channels that were recorded over one span; the slices are played one    *)
(* after the other.                                                        *)
(*                                                                         *)
(* Nothing in the query mentions the mission: it goes into the local path  *)
(* only, one value for a whole call, and is left out here.  Times are      *)
(* milliseconds, in Go's int.                                              *)
(***************************************************************************)
EXTENDS Integers, Sequences

CONSTANTS
  Channel,      \* channel ids
  Url,          \* where the clips are
  NoUrl,        \* the url of a row that holds NULL there
  Tables,       \* contents of audio_segments: sets of rows
  Queries,      \* requests that parseParameters lets through
  IntLimit,     \* the values of an int are -IntLimit..IntLimit-1
  MayLose       \* may the connection fail while the rows are read?

IntRange == -IntLimit..(IntLimit - 1)

Row == [start : IntRange, end : IntRange, channel : Channel, url : Url \cup {NoUrl}]

\* RequestVars
Rv == [channels : SUBSET Channel, start : IntRange, duration : IntRange]

ASSUME RowAssumption ==
  /\ NoUrl \notin Url
  /\ IntLimit \in Nat \ {0}
  /\ \A T \in Tables : T \subseteq Row
ASSUME QueryAssumption ==
  /\ Queries \subseteq Rv
  /\ MayLose \in BOOLEAN

VARIABLES
  table,      \* the rows of audio_segments while the query runs
  request,    \* rv, the parameters of the request
  pc,         \* "query", "scan", "done", or "panicked"
  left,       \* matching rows that rows.Next has not returned
  lastStart,
  slices

vars == <<table, request, pc, left, lastStart, slices>>

--------------------------------------------------------------------------------
(* The sum of two ints, which wraps around. *)
Plus(a, b) ==
  CASE a + b >= IntLimit  -> a + b - 2 * IntLimit
    [] a + b < -IntLimit  -> a + b + 2 * IntLimit
    [] OTHER              -> a + b

reqEnd == Plus(request.start, request.duration)

\* The WHERE clause.
Matches_EndsOnly(r) ==
  /\ r.channel \in request.channels
  /\ r.end > request.start

Matches(r) ==
  /\ r.channel \in request.channels
  /\ r.end > request.start
  /\ r.start < reqEnd

Matching == {r \in table : Matches(r)}

\* NewTimeSlice: the map of segments is the set of its rows, one for a channel.
Slice == [start : IntRange, end : IntRange, segments : SUBSET Row]

TypeOK ==
  /\ table \subseteq Row
  /\ request \in Rv
  /\ pc \in {"query", "scan", "done", "panicked"}
  /\ left \in SUBSET Row
  /\ lastStart \in -1..(IntLimit - 1)
  /\ slices \in Seq(Slice)

Init ==
  /\ table \in Tables
  /\ request \in Queries
  /\ pc = "query"
  /\ left = {}
  /\ lastStart = -1
  /\ slices = <<>>

--------------------------------------------------------------------------------
\* connectDb, db.Prepare and stmt.Query succeed.
Query ==
  /\ pc = "query"
  /\ pc' = "scan"
  /\ left' = Matching
  /\ UNCHANGED <<table, request, lastStart, slices>>

\* One of them fails: check(err) panics in the goroutine of the request.
QueryFails ==
  /\ pc = "query"
  /\ pc' = "panicked"
  /\ UNCHANGED <<table, request, left, lastStart, slices>>

\* A row that rows.Next may return: ORDER BY met_start says nothing of ties.
NextRow_Unordered(r) == r \in left

NextRow(r) ==
  /\ r \in left
  /\ \A s \in left : r.start <= s.start

\* The slices after "Check for new timeslice".
WithSliceFor_Disjoint(r) ==
  IF slices = <<>> \/ r.start >= slices[Len(slices)].end
  THEN Append(slices, [start |-> r.start, end |-> r.end, segments |-> {}])
  ELSE slices

WithSliceFor_NotBefore(r) ==
  IF r.start >= lastStart
  THEN Append(slices, [start |-> r.start, end |-> r.end, segments |-> {}])
  ELSE slices

WithSliceFor(r) ==
  IF r.start > lastStart
  THEN Append(slices, [start |-> r.start, end |-> r.end, segments |-> {}])
  ELSE slices

Fits_StartOnly(slice, r) == slice.start = r.start

Fits(slice, r) == slice.start = r.start /\ slice.end = r.end

\* slices[i].segments[segment.channel_id] = segment
Put_AnyChannel(slice, r) == [slice EXCEPT !.segments = @ \cup {r}]

Put(slice, r) ==
  [slice EXCEPT !.segments = {s \in @ : s.channel # r.channel} \cup {r}]

\* The loop over the slices stops at the first one that fits.
AddToFirst(ss, r) ==
  IF \E i \in DOMAIN ss : Fits(ss[i], r)
  THEN LET first == CHOOSE i \in DOMAIN ss :
                      Fits(ss[i], r) /\ \A j \in 1..(i - 1) : ~Fits(ss[j], r)
       IN  [ss EXCEPT ![first] = Put(@, r)]
  ELSE ss

\* rows.Scan succeeds: the row is put into its slice, if there is one.
ScanRow(r) ==
  /\ pc = "scan"
  /\ NextRow(r)
  /\ r.url # NoUrl
  /\ left' = left \ {r}
  /\ lastStart' = IF r.start > lastStart THEN r.start ELSE lastStart
  /\ slices' = AddToFirst(WithSliceFor(r), r)
  /\ UNCHANGED <<table, request, pc>>

\* rows.Scan fails, since NULL is no string: "Error reading row", continue.
SkipRow(r) ==
  /\ pc = "scan"
  /\ NextRow(r)
  /\ r.url = NoUrl
  /\ left' = left \ {r}
  /\ UNCHANGED <<table, request, pc, lastStart, slices>>

\* rows.Next returns false: after the last row, or since the connection failed
\* before it.  The code does not ask which (rows.Err).
EndOfRows ==
  /\ pc = "scan"
  /\ left = {} \/ MayLose
  /\ pc' = "done"
  /\ UNCHANGED <<table, request, left, lastStart, slices>>

Next ==
  \/ Query \/ QueryFails \/ EndOfRows
  \/ \E r \in left : ScanRow(r) \/ SkipRow(r)

Spec == Init /\ [][Next]_vars

--------------------------------------------------------------------------------
(* Safety *)

\* The slices come in the order in which they are to be played: their starts
\* increase strictly, and none is before the launch.
SlicesInOrder ==
  /\ \A i \in DOMAIN slices : slices[i].start >= 0
  /\ \A i, j \in DOMAIN slices : i < j => slices[i].start < slices[j].start

\* A slice has something to play, and everything in it was asked for and was
\* recorded over the span of the slice.
SegmentsBelong ==
  \A i \in DOMAIN slices :
    /\ slices[i].segments # {}
    /\ \A r \in slices[i].segments :
         /\ r \in Matching /\ r.url # NoUrl
         /\ r.start = slices[i].start /\ r.end = slices[i].end

\* The segments of a call have different local paths, which name the channel and
\* the start: no two workers of one DownloadAllAudio write the same file.
LocalPath(r) == <<r.channel, r.start>>

PathsDistinct ==
  \A i, j \in DOMAIN slices : \A r \in slices[i].segments, s \in slices[j].segments :
    LocalPath(r) = LocalPath(s) => i = j /\ r = s

\* Why a row that was read is in no slice: the database holds no url for it, it
\* was recorded before the launch, it does not end with the rows that start with
\* it, or the table has its channel and span once more.
Dropped(r) ==
  \/ r.url = NoUrl
  \/ r.start < 0
  \/ \E i \in DOMAIN slices : slices[i].start = r.start /\ slices[i].end # r.end
  \/ \E i \in DOMAIN slices : \E s \in slices[i].segments :
       s # r /\ s.channel = r.channel /\ s.start = r.start /\ s.end = r.end

\* Every row that was read is in a slice, but for those reasons; and the rows that
\* were not read, for the connection was lost and nothing asks rows.Err, are the
\* last ones: the audio may be cut off, but it has no hole where they were.
RowsAccountedFor ==
  pc \in {"scan", "done"} =>
    \A r \in Matching \ left :
      /\ (\E i \in DOMAIN slices : r \in slices[i].segments) \/ Dropped(r)
      /\ \A unread \in left : r.start <= unread.start

\* A duration that takes the end of the request past the largest int leads to
\* "no audio" (404), not to the wrong audio.
OverflowFindsNothing ==
  request.duration >= 0 /\ request.start + request.duration # reqEnd => slices = <<>>

\* README.md:45, "returns an m4a stream of Apollo 11 channels 14, 18, and 24
\* starting at MET 369300000 [...] and lasting 600000 milliseconds": the audio of
\* the requested channels and times that the table lists is in the slices.
EveryMatchServed ==
  pc = "done" =>
    \A r \in Matching : \E i \in DOMAIN slices : r \in slices[i].segments

--------------------------------------------------------------------------------
(* The inductive invariant *)

\* The cursor never goes back: what is left starts at the last slice or later.
CursorInv ==
  /\ lastStart = IF slices = <<>> THEN -1 ELSE slices[Len(slices)].start
  /\ pc = "query" => slices = <<>>
  /\ left \subseteq Matching
  /\ \A r \in left : slices # <<>> => r.start >= lastStart

\* The segments of a slice are a map from channels.
OnePerChannel ==
  \A i \in DOMAIN slices : \A r, s \in slices[i].segments :
    r.channel = s.channel => r = s

IInv ==
  /\ TypeOK /\ CursorInv /\ SlicesInOrder
  /\ SegmentsBelong /\ OnePerChannel /\ RowsAccountedFor
================================================================================
