------------------------------- MODULE Playback --------------------------------
(***************************************************************************)
(* What a client of /stream may rely on (DownloadAndStream of              *)
(* audio/audio.go): it hears the slices of its request in order, each from *)
(* its start, and the next one only after all of this one, unless          *)
(* something failed or it left.  The processes, the pipes between them and *)
(* the goroutine that copies are not visible here; StreamPipeline          *)
(* implements this specification.                                          *)
(***************************************************************************)
EXTENDS Integers

CONSTANTS NSlices,    \* slices of the request
          NChunks     \* chunks of audio in a slice

VARIABLES at,         \* the slice that is played
          heard,      \* heard[i]: chunks of slice i that reached the client
          spoilt,     \* something failed
          gone,       \* the client left
          over        \* the response has ended

vars == <<at, heard, spoilt, gone, over>>

Init ==
  /\ at = 1
  /\ heard = [i \in 1..NSlices |-> 0]
  /\ spoilt = FALSE /\ gone = FALSE /\ over = FALSE

Hear ==
  /\ ~over /\ ~gone
  /\ heard[at] < NChunks
  /\ heard' = [heard EXCEPT ![at] = @ + 1]
  /\ UNCHANGED <<at, spoilt, gone, over>>

\* A slice is left before its end only for a reason.
Through == heard[at] = NChunks \/ spoilt \/ gone

GoOn ==
  /\ ~over
  /\ Through
  /\ at < NSlices
  /\ at' = at + 1
  /\ UNCHANGED <<heard, spoilt, gone, over>>

Finish ==
  /\ ~over
  /\ Through
  /\ at = NSlices
  /\ over' = TRUE
  /\ UNCHANGED <<at, heard, spoilt, gone>>

Spoil ==
  /\ ~over
  /\ spoilt' = TRUE
  /\ UNCHANGED <<at, heard, gone, over>>

\* There is nothing to play with: the response ends before the first chunk.
GiveUp ==
  /\ ~over
  /\ \A i \in 1..NSlices : heard[i] = 0
  /\ spoilt' = TRUE
  /\ over' = TRUE
  /\ UNCHANGED <<at, heard, gone>>

Leave ==
  /\ ~gone
  /\ gone' = TRUE
  /\ UNCHANGED <<at, heard, spoilt, over>>

Next == Hear \/ GoOn \/ Finish \/ Spoil \/ GiveUp \/ Leave

Spec == Init /\ [][Next]_vars
================================================================================
