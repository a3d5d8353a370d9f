------------------------------ MODULE SliceTrims -------------------------------
(***************************************************************************)
(* audio/audio.go: getSoxTrimArgs and soxBulkTrimArgs, the arguments of    *)
(* sox's trim effect for /stream and for /audio, applied to the slices     *)
(* that GetRequestSlices returns for a request.                            *)
(*                                                                         *)
(* "trim s d" plays d milliseconds of the input from s on, or what is left *)
(* of it.  A slice's clips are taken to last from its start to its end.    *)
(* The arguments are decimal seconds with four digits, exact for whole     *)
(* milliseconds.  An interval [from, to) holds the mission elapsed times   *)
(* that are played.                                                        *)
(***************************************************************************)
EXTENDS RequestSlices

Larger(a, b) == IF a >= b THEN a ELSE b
Smaller(a, b) == IF a <= b THEN a ELSE b

Length(i) == slices[i].end - slices[i].start

\* The part of slice i that the request is about.
Wanted(i) ==
  [from |-> Larger(slices[i].start, request.start), to |-> Smaller(slices[i].end, reqEnd)]

--------------------------------------------------------------------------------
(* /stream: each slice is trimmed on its own. *)

\* trimOffset: the first slice is played from the start of the request.
TrimOffset(i) ==
  IF i = 1 /\ request.start > slices[i].start THEN request.start - slices[i].start ELSE 0

\* The last slice is played to the end of the request; a slice with no second
\* argument, to its own end.
TrimDuration_ToEnd(i) ==
  IF i = Len(slices) /\ slices[i].end > reqEnd
  THEN reqEnd - slices[i].start
  ELSE Length(i)

TrimDuration(i) ==
  IF i = Len(slices) /\ slices[i].end > reqEnd
  THEN IF request.start > slices[i].start
       THEN reqEnd - request.start
       ELSE reqEnd - slices[i].start
  ELSE Length(i)

Streamed(i) ==
  LET from == slices[i].start + TrimOffset(i)
  IN  [from |-> from, to |-> Smaller(slices[i].end, from + TrimDuration(i))]

--------------------------------------------------------------------------------
(* /audio: the slices are put end to end, and the whole is trimmed once. *)

BulkOffset_None(ss) == 0

BulkOffset(ss) ==
  IF request.start > ss[1].start THEN request.start - ss[1].start ELSE 0

\* Where slice i begins in the concatenation.
Position(i) ==
  LET p[k \in 1..Len(slices)] == IF k = 1 THEN 0 ELSE p[k - 1] + Length(k - 1)
  IN  p[i]

\* What of slice i is inside the trimmed part.
Encoded(i) ==
  LET first == BulkOffset(slices) - Position(i)
      last == first + request.duration
  IN  [from |-> slices[i].start + Larger(0, first),
       to |-> slices[i].start + Smaller(Length(i), last)]

--------------------------------------------------------------------------------
(* Safety *)

\* There are slices to play for a request whose end is not before its start.
Playing == pc = "done" /\ slices # <<>> /\ request.duration >= 0

\* A slice ends before, or when, the next one starts.
Disjoint ==
  \A i, j \in DOMAIN slices : i < j => slices[i].end <= slices[j].start

\* Each slice starts where the one before it ends, and the first one not after
\* the request.
Covering ==
  /\ slices[1].start <= request.start
  /\ \A i \in DOMAIN slices : i > 1 => slices[i].start = slices[i - 1].end

\* The slices of spans that do not overlap are streamed exactly as far as the
\* request asks for them, gaps or not.
StreamIsRequest ==
  Playing /\ Disjoint => \A i \in DOMAIN slices : Streamed(i) = Wanted(i)

\* The file for a request that the recordings cover without a gap holds exactly
\* what the stream plays.
FileIsStream ==
  Playing /\ Covering => \A i \in DOMAIN slices : Encoded(i) = Streamed(i)
================================================================================
