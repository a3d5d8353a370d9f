------------------------- MODULE StreamPipelineProofs --------------------------
(***************************************************************************)
(* Proofs about StreamPipeline, for any number of slices, any length of    *)
(* their audio and any capacity of the pipes, with every failure the model *)
(* has.                                                                    *)
(***************************************************************************)
EXTENDS StreamPipeline, TLAPS


\* The variables keep their types.
LEMMA TypeStep == TypeOK /\ [Next]_vars => TypeOK'
<1> SUFFICES ASSUME TypeOK, [Next]_vars PROVE TypeOK'
  OBVIOUS
<1> USE SizeAssumption DEF TypeOK, procs, data
<1>1. CASE LookPath
  BY <1>1 DEF LookPath
<1>2. CASE StartFfmpeg
  BY <1>2 DEF StartFfmpeg
<1>3. CASE StartSox
  BY <1>3 DEF StartSox
<1>4. CASE WaitSox
  BY <1>4 DEF WaitSox, SoxWaited
<1>5. CASE WaitFfmpeg
  <2>1. cur' \in Slices /\ pc' \in {"ffmpeg", "done"}
    BY <1>5 DEF WaitFfmpeg, FfmpegWaited, NextSlice, Slices
  <2> QED
    BY <1>5, <2>1 DEF WaitFfmpeg, FfmpegWaited
<1>6. ASSUME NEW i \in Slices, SoxWrite(i) PROVE TypeOK'
  BY <1>6 DEF SoxWrite, SoxCanWrite
<1>7. ASSUME NEW i \in Slices, SoxExit(i) PROVE TypeOK'
  BY <1>7 DEF SoxExit, SoxIsThrough
<1>8. ASSUME NEW i \in Slices, SoxFail(i) PROVE TypeOK'
  BY <1>8 DEF SoxFail
<1>9. ASSUME NEW i \in Slices, FfRead(i) PROVE TypeOK'
  BY <1>9 DEF FfRead, FfCanRead
<1>10. ASSUME NEW i \in Slices, FfWrite(i) PROVE TypeOK'
  BY <1>10 DEF FfWrite, FfCanWrite
<1>11. ASSUME NEW i \in Slices, FfExit(i) PROVE TypeOK'
  BY <1>11 DEF FfExit, FfIsThrough
<1>12. ASSUME NEW i \in Slices, FfFail(i) PROVE TypeOK'
  BY <1>12 DEF FfFail
<1>13. ASSUME NEW i \in Slices, FfBrokenPipe(i) PROVE TypeOK'
  BY <1>13 DEF FfBrokenPipe, FfIsTold
<1>14. ASSUME NEW i \in Slices, Copy(i) PROVE TypeOK'
  BY <1>14 DEF Copy, CopierHas
<1>15. ASSUME NEW i \in Slices, CopyToNobody(i) PROVE TypeOK'
  BY <1>15 DEF CopyToNobody, CopierHas
<1>16. ASSUME NEW i \in Slices, CopyEnd(i) PROVE TypeOK'
  BY <1>16 DEF CopyEnd, CopierIsThrough
<1>17. CASE Leave
  BY <1>17 DEF Leave
<1>18. CASE UNCHANGED vars
  BY <1>18 DEF vars
<1> QED
  BY <1>1, <1>2, <1>3, <1>4, <1>5, <1>6, <1>7, <1>8, <1>9, <1>10,
     <1>11, <1>12, <1>13, <1>14, <1>15, <1>16, <1>17, <1>18 DEF Next

\* No pipe holds more than it can, and no chunk arrives before it was sent.
LEMMA BoundsStep == IInv /\ [Next]_vars => \A j \in Slices : WithinBounds(j)'
<1> SUFFICES ASSUME IInv, [Next]_vars, NEW j \in Slices PROVE WithinBounds(j)'
  OBVIOUS
<1> TypeOK /\ WithinBounds(j) /\ StageOf(j)
  BY DEF IInv
<1> USE SizeAssumption DEF TypeOK, WithinBounds, procs, data
<1>1. CASE LookPath
  BY <1>1 DEF LookPath
<1>2. CASE StartFfmpeg
  <2>1. CASE j = cur
    <3>1. StageOf(j)
      BY <1>2
    <3>2. taken[j] = 0 /\ written[j] = 0
      BY <1>2, <2>1, <3>1 DEF StageOf, NotStarted, StartFfmpeg
    <3> QED
      BY <1>2, <2>1, <3>2 DEF StartFfmpeg
  <2>2. CASE j # cur
    BY <1>2, <2>2 DEF StartFfmpeg
  <2> QED
    BY <2>1, <2>2
<1>3. CASE StartSox
  BY <1>3 DEF StartSox
<1>4. CASE WaitSox
  BY <1>4 DEF WaitSox, SoxWaited
<1>5. CASE WaitFfmpeg
  BY <1>5 DEF WaitFfmpeg, FfmpegWaited
<1>6. ASSUME NEW i \in Slices, SoxWrite(i) PROVE WithinBounds(j)'
  <2>1. CASE j = i
    BY <1>6, <2>1 DEF SoxWrite, SoxCanWrite
  <2>2. CASE j # i
    BY <1>6, <2>2 DEF SoxWrite, SoxCanWrite
  <2> QED
    BY <2>1, <2>2
<1>7. ASSUME NEW i \in Slices, SoxExit(i) PROVE WithinBounds(j)'
  BY <1>7 DEF SoxExit, SoxIsThrough
<1>8. ASSUME NEW i \in Slices, SoxFail(i) PROVE WithinBounds(j)'
  BY <1>8 DEF SoxFail
<1>9. ASSUME NEW i \in Slices, FfRead(i) PROVE WithinBounds(j)'
  <2>1. CASE j = i
    BY <1>9, <2>1 DEF FfRead, FfCanRead
  <2>2. CASE j # i
    BY <1>9, <2>2 DEF FfRead, FfCanRead
  <2> QED
    BY <2>1, <2>2
<1>10. ASSUME NEW i \in Slices, FfWrite(i) PROVE WithinBounds(j)'
  <2>1. CASE j = i
    BY <1>10, <2>1 DEF FfWrite, FfCanWrite
  <2>2. CASE j # i
    BY <1>10, <2>2 DEF FfWrite, FfCanWrite
  <2> QED
    BY <2>1, <2>2
<1>11. ASSUME NEW i \in Slices, FfExit(i) PROVE WithinBounds(j)'
  BY <1>11 DEF FfExit, FfIsThrough
<1>12. ASSUME NEW i \in Slices, FfFail(i) PROVE WithinBounds(j)'
  BY <1>12 DEF FfFail
<1>13. ASSUME NEW i \in Slices, FfBrokenPipe(i) PROVE WithinBounds(j)'
  BY <1>13 DEF FfBrokenPipe, FfIsTold
<1>14. ASSUME NEW i \in Slices, Copy(i) PROVE WithinBounds(j)'
  <2>1. CASE j = i
    BY <1>14, <2>1 DEF Copy, CopierHas
  <2>2. CASE j # i
    BY <1>14, <2>2 DEF Copy, CopierHas
  <2> QED
    BY <2>1, <2>2
<1>15. ASSUME NEW i \in Slices, CopyToNobody(i) PROVE WithinBounds(j)'
  <2>1. CASE j = i
    BY <1>15, <2>1 DEF CopyToNobody, CopierHas
  <2>2. CASE j # i
    BY <1>15, <2>2 DEF CopyToNobody, CopierHas
  <2> QED
    BY <2>1, <2>2
<1>16. ASSUME NEW i \in Slices, CopyEnd(i) PROVE WithinBounds(j)'
  BY <1>16 DEF CopyEnd, CopierIsThrough
<1>17. CASE Leave
  BY <1>17 DEF Leave
<1>18. CASE UNCHANGED vars
  BY <1>18 DEF vars
<1> QED
  BY <1>1, <1>2, <1>3, <1>4, <1>5, <1>6, <1>7, <1>8, <1>9, <1>10,
     <1>11, <1>12, <1>13, <1>14, <1>15, <1>16, <1>17, <1>18 DEF Next

\* The processes of a slice follow the handler through it.
LEMMA StageStep == IInv /\ [Next]_vars => \A j \in Slices : StageOf(j)'
<1> SUFFICES ASSUME IInv, [Next]_vars, NEW j \in Slices PROVE StageOf(j)'
  OBVIOUS
<1> TypeOK /\ StageOf(j) /\ (pc = "done" => cur = NSlices)
  BY DEF IInv, PlaceOK
<1> USE SizeAssumption DEF TypeOK, StageOf, NotStarted, Passed, Slices, procs, data
<1>1. CASE LookPath
  BY <1>1 DEF LookPath
<1>2. CASE StartFfmpeg
  <2>1. PICK pipe \in BOOLEAN, ok \in BOOLEAN :
          /\ piped' = [piped EXCEPT ![cur] = pipe]
          /\ ff' = [ff EXCEPT ![cur] = IF ok THEN "run" ELSE "failed"]
          /\ cop' = [cop EXCEPT ![cur] = IF ok THEN "copy" ELSE "none"]
          /\ failed' = (failed \/ ~pipe \/ ~ok)
    BY <1>2 DEF StartFfmpeg
  <2>2. pc = "ffmpeg" /\ pc' = "sox" /\ UNCHANGED <<cur, sox, data, client>>
    BY <1>2 DEF StartFfmpeg
  <2>3. CASE j = cur
    <3>1. piped'[j] = pipe /\ ff'[j] = (IF ok THEN "run" ELSE "failed") /\ cop'[j] = (IF ok THEN "copy" ELSE "none")
      BY <2>1, <2>3
    <3> QED
      BY <2>1, <2>2, <2>3, <3>1
  <2>4. CASE j # cur
    <3>1. piped'[j] = piped[j] /\ ff'[j] = ff[j] /\ cop'[j] = cop[j]
      BY <2>1, <2>4
    <3> QED
      BY <2>1, <2>2, <2>4, <3>1
  <2> QED
    BY <2>3, <2>4
<1>3. CASE StartSox
  BY <1>3 DEF StartSox
<1>4. CASE WaitSox
  BY <1>4 DEF WaitSox, SoxWaited
<1>5. CASE WaitFfmpeg
  <2>1. /\ pc = "ffwait" /\ UNCHANGED <<sox, ff, cop, written, taken, made, sent, got>>
        /\ ff[cur] \in {"failed", "exited"}
        /\ ff[cur] = "exited" => cop[cur] # "copy"
    BY <1>5 DEF WaitFfmpeg, FfmpegWaited
  <2>2. j \in Int /\ cur \in Int /\ j <= NSlices /\ NSlices \in Int
    OBVIOUS
  <2>3. \/ cur = NSlices /\ pc' = "done" /\ cur' = cur
        \/ cur # NSlices /\ pc' = "ffmpeg" /\ cur' = cur + 1
    BY <1>5 DEF WaitFfmpeg, FfmpegWaited, NextSlice
  <2> HIDE DEF TypeOK, Slices, StageOf
  <2>4. (NotStarted(j)' <=> j > cur) /\ (Passed(j)' <=> j <= cur)
    <3>1. CASE pc' = "done" /\ cur' = cur /\ cur = NSlices
      BY <2>2, <3>1
    <3>2. CASE pc' = "ffmpeg" /\ cur' = cur + 1
      BY <2>2, <3>2
    <3> QED
      BY <2>3, <3>1, <3>2
  <2>5. pc' \in {"ffmpeg", "done"}
    BY <2>3
  <2>6. (NotStarted(j) <=> j > cur) /\ (j <= cur => Passed(j) \/ (j = cur /\ pc = "ffwait"))
    BY <2>1, <2>2
  <2>7. j = cur => ff[j] \in {"failed", "exited"} /\ (ff[j] = "exited" => cop[j] # "copy")
    BY <2>1
  <2> HIDE DEF NotStarted, Passed
  <2>8. j > cur \/ j <= cur
    BY <2>2
  <2> QED
    BY <2>1, <2>2, <2>4, <2>5, <2>6, <2>7, <2>8 DEF StageOf
<1>6. ASSUME NEW i \in Slices, SoxWrite(i) PROVE StageOf(j)'
  BY <1>6 DEF SoxWrite, SoxCanWrite
<1>7. ASSUME NEW i \in Slices, SoxExit(i) PROVE StageOf(j)'
  BY <1>7 DEF SoxExit, SoxIsThrough
<1>8. ASSUME NEW i \in Slices, SoxFail(i) PROVE StageOf(j)'
  BY <1>8 DEF SoxFail
<1>9. ASSUME NEW i \in Slices, FfRead(i) PROVE StageOf(j)'
  BY <1>9 DEF FfRead, FfCanRead
<1>10. ASSUME NEW i \in Slices, FfWrite(i) PROVE StageOf(j)'
  BY <1>10 DEF FfWrite, FfCanWrite
<1>11. ASSUME NEW i \in Slices, FfExit(i) PROVE StageOf(j)'
  BY <1>11 DEF FfExit, FfIsThrough
<1>12. ASSUME NEW i \in Slices, FfFail(i) PROVE StageOf(j)'
  BY <1>12 DEF FfFail
<1>13. ASSUME NEW i \in Slices, FfBrokenPipe(i) PROVE StageOf(j)'
  BY <1>13 DEF FfBrokenPipe, FfIsTold
<1>14. ASSUME NEW i \in Slices, Copy(i) PROVE StageOf(j)'
  BY <1>14 DEF Copy, CopierHas
<1>15. ASSUME NEW i \in Slices, CopyToNobody(i) PROVE StageOf(j)'
  BY <1>15 DEF CopyToNobody, CopierHas
<1>16. ASSUME NEW i \in Slices, CopyEnd(i) PROVE StageOf(j)'
  BY <1>16 DEF CopyEnd, CopierIsThrough
<1>17. CASE Leave
  BY <1>17 DEF Leave
<1>18. CASE UNCHANGED vars
  BY <1>18 DEF vars
<1> QED
  BY <1>1, <1>2, <1>3, <1>4, <1>5, <1>6, <1>7, <1>8, <1>9, <1>10,
     <1>11, <1>12, <1>13, <1>14, <1>15, <1>16, <1>17, <1>18 DEF Next

\* The audio of a slice is neither lost nor cut short, unless something fails.
LEMMA AudioStep == IInv /\ [Next]_vars => \A j \in Slices : AudioOf(j)'
<1> SUFFICES ASSUME IInv, [Next]_vars, NEW j \in Slices PROVE AudioOf(j)'
  OBVIOUS
<1> TypeOK /\ WithinBounds(j) /\ StageOf(j) /\ AudioOf(j)
  BY DEF IInv
<1> USE SizeAssumption DEF TypeOK, WithinBounds, AudioOf, StageOf, NotStarted, procs, data
<1>1. CASE LookPath
  BY <1>1 DEF LookPath
<1>2. CASE StartFfmpeg
  <2>1. PICK pipe \in BOOLEAN, ok \in BOOLEAN :
          /\ piped' = [piped EXCEPT ![cur] = pipe]
          /\ ff' = [ff EXCEPT ![cur] = IF ok THEN "run" ELSE "failed"]
          /\ cop' = [cop EXCEPT ![cur] = IF ok THEN "copy" ELSE "none"]
          /\ failed' = (failed \/ ~pipe \/ ~ok)
    BY <1>2 DEF StartFfmpeg
  <2>2. pc = "ffmpeg" /\ pc' = "sox" /\ UNCHANGED <<cur, sox, data, client>>
    BY <1>2 DEF StartFfmpeg
  <2>3. CASE j = cur
    <3>1. piped'[j] = pipe /\ ff'[j] = (IF ok THEN "run" ELSE "failed") /\ cop'[j] = (IF ok THEN "copy" ELSE "none")
      BY <2>1, <2>3
    <3> QED
      BY <2>1, <2>2, <2>3, <3>1
  <2>4. CASE j # cur
    <3>1. piped'[j] = piped[j] /\ ff'[j] = ff[j] /\ cop'[j] = cop[j]
      BY <2>1, <2>4
    <3> QED
      BY <2>1, <2>2, <2>4, <3>1
  <2> QED
    BY <2>3, <2>4
<1>3. CASE StartSox
  BY <1>3 DEF StartSox
<1>4. CASE WaitSox
  BY <1>4 DEF WaitSox, SoxWaited
<1>5. CASE WaitFfmpeg
  BY <1>5 DEF WaitFfmpeg, FfmpegWaited
<1>6. ASSUME NEW i \in Slices, SoxWrite(i) PROVE AudioOf(j)'
  BY <1>6 DEF SoxWrite, SoxCanWrite
<1>7. ASSUME NEW i \in Slices, SoxExit(i) PROVE AudioOf(j)'
  BY <1>7 DEF SoxExit, SoxIsThrough
<1>8. ASSUME NEW i \in Slices, SoxFail(i) PROVE AudioOf(j)'
  BY <1>8 DEF SoxFail
<1>9. ASSUME NEW i \in Slices, FfRead(i) PROVE AudioOf(j)'
  BY <1>9 DEF FfRead, FfCanRead
<1>10. ASSUME NEW i \in Slices, FfWrite(i) PROVE AudioOf(j)'
  BY <1>10 DEF FfWrite, FfCanWrite
<1>11. ASSUME NEW i \in Slices, FfExit(i) PROVE AudioOf(j)'
  BY <1>11 DEF FfExit, FfIsThrough, FfInputEnds
<1>12. ASSUME NEW i \in Slices, FfFail(i) PROVE AudioOf(j)'
  BY <1>12 DEF FfFail
<1>13. ASSUME NEW i \in Slices, FfBrokenPipe(i) PROVE AudioOf(j)'
  BY <1>13 DEF FfBrokenPipe, FfIsTold
<1>14. ASSUME NEW i \in Slices, Copy(i) PROVE AudioOf(j)'
  BY <1>14 DEF Copy, CopierHas
<1>15. ASSUME NEW i \in Slices, CopyToNobody(i) PROVE AudioOf(j)'
  BY <1>15 DEF CopyToNobody, CopierHas
<1>16. ASSUME NEW i \in Slices, CopyEnd(i) PROVE AudioOf(j)'
  BY <1>16 DEF CopyEnd, CopierIsThrough
<1>17. CASE Leave
  BY <1>17 DEF Leave
<1>18. CASE UNCHANGED vars
  BY <1>18 DEF vars
<1> QED
  BY <1>1, <1>2, <1>3, <1>4, <1>5, <1>6, <1>7, <1>8, <1>9, <1>10,
     <1>11, <1>12, <1>13, <1>14, <1>15, <1>16, <1>17, <1>18 DEF Next

\* Before the first step nothing is started, and nothing has moved.
LEMMA InvInit == Init => IInv
<1> SUFFICES ASSUME Init PROVE IInv
  OBVIOUS
<1> USE SizeAssumption DEF Init, Zero, NoneYet
<1>1. TypeOK
  <2>1. cur \in Slices
    BY DEF Slices
  <2> QED
    BY <2>1 DEF TypeOK
<1>2. ASSUME NEW i \in Slices PROVE WithinBounds(i) /\ AudioOf(i)
  BY <1>2 DEF WithinBounds, AudioOf
<1>3. ASSUME NEW i \in Slices PROVE StageOf(i)
  <2>1. NotStarted(i) /\ ~Passed(i)
    BY <1>3 DEF NotStarted, Passed, Slices
  <2> QED
    BY <1>3, <2>1 DEF StageOf
<1> QED
  BY <1>1, <1>2, <1>3 DEF IInv, PlaceOK

\* The handler is done only after the last slice, and looks for the tools only before
\* the first.
LEMMA PlaceStep == IInv /\ [Next]_vars => PlaceOK'
<1> SUFFICES ASSUME IInv, [Next]_vars PROVE PlaceOK'
  OBVIOUS
<1> PlaceOK
  BY DEF IInv
<1> USE DEF procs, data, PlaceOK
<1>1. CASE LookPath
  BY <1>1 DEF LookPath
<1>2. CASE StartFfmpeg
  BY <1>2 DEF StartFfmpeg
<1>3. CASE StartSox
  BY <1>3 DEF StartSox
<1>4. CASE WaitSox
  BY <1>4 DEF WaitSox, SoxWaited
<1>5. CASE WaitFfmpeg
  BY <1>5 DEF WaitFfmpeg, FfmpegWaited, NextSlice
<1>6. ASSUME NEW i \in Slices, SoxWrite(i) PROVE PlaceOK'
  BY <1>6 DEF SoxWrite, SoxCanWrite
<1>7. ASSUME NEW i \in Slices, SoxExit(i) PROVE PlaceOK'
  BY <1>7 DEF SoxExit, SoxIsThrough
<1>8. ASSUME NEW i \in Slices, SoxFail(i) PROVE PlaceOK'
  BY <1>8 DEF SoxFail
<1>9. ASSUME NEW i \in Slices, FfRead(i) PROVE PlaceOK'
  BY <1>9 DEF FfRead, FfCanRead
<1>10. ASSUME NEW i \in Slices, FfWrite(i) PROVE PlaceOK'
  BY <1>10 DEF FfWrite, FfCanWrite
<1>11. ASSUME NEW i \in Slices, FfExit(i) PROVE PlaceOK'
  BY <1>11 DEF FfExit, FfIsThrough
<1>12. ASSUME NEW i \in Slices, FfFail(i) PROVE PlaceOK'
  BY <1>12 DEF FfFail
<1>13. ASSUME NEW i \in Slices, FfBrokenPipe(i) PROVE PlaceOK'
  BY <1>13 DEF FfBrokenPipe, FfIsTold
<1>14. ASSUME NEW i \in Slices, Copy(i) PROVE PlaceOK'
  BY <1>14 DEF Copy, CopierHas
<1>15. ASSUME NEW i \in Slices, CopyToNobody(i) PROVE PlaceOK'
  BY <1>15 DEF CopyToNobody, CopierHas
<1>16. ASSUME NEW i \in Slices, CopyEnd(i) PROVE PlaceOK'
  BY <1>16 DEF CopyEnd, CopierIsThrough
<1>17. CASE Leave
  BY <1>17 DEF Leave
<1>18. CASE UNCHANGED vars
  BY <1>18 DEF vars
<1> QED
  BY <1>1, <1>2, <1>3, <1>4, <1>5, <1>6, <1>7, <1>8, <1>9, <1>10,
     <1>11, <1>12, <1>13, <1>14, <1>15, <1>16, <1>17, <1>18 DEF Next

\* The invariant is inductive.
LEMMA InvStep == IInv /\ [Next]_vars => IInv'
<1> SUFFICES ASSUME IInv, [Next]_vars PROVE IInv'
  OBVIOUS
<1>1. TypeOK'
  BY TypeStep DEF IInv
<1>2. PlaceOK'
  BY PlaceStep
<1>3. \A j \in Slices : WithinBounds(j)' /\ StageOf(j)' /\ AudioOf(j)'
  BY BoundsStep, StageStep, AudioStep
<1> QED
  BY <1>1, <1>2, <1>3 DEF IInv

\* The invariant the other theorems rest on holds in every state of audio.go's
\* loop over the slices.
THEOREM Inductive == Spec => []IInv
  BY InvInit, InvStep, PTL DEF Spec

\* The variables have their types, whatever fails.
THEOREM TypeCorrect == Spec => []TypeOK
<1>1. IInv => TypeOK
  BY DEF IInv
<1> QED
  BY <1>1, Inductive, PTL

\* The copier of a slice is through before a byte of a later one is sent: the
\* client gets the slices one after the other (ffmpegCommand.Wait, audio.go:207).
THEOREM InOrder == Spec => []SlicesDoNotMix
<1>1. IInv => SlicesDoNotMix
  <2> SUFFICES ASSUME IInv, NEW i \in Slices, NEW j \in Slices, i < j, got[j] > 0
               PROVE cop[i] # "copy"
    BY DEF SlicesDoNotMix
  <2>1. ~NotStarted(j)
    BY DEF IInv, StageOf
  <2>2. i < cur
    BY <2>1, SizeAssumption DEF NotStarted, IInv, TypeOK, Slices
  <2> QED
    BY <2>2 DEF IInv, StageOf, Passed
<1> QED
  BY <1>1, Inductive, PTL

\* Both processes and the copier of a slice are gone when the handler goes on to
\* the next one or returns (the Run and the Wait of audio.go:206-207).
THEOREM LeavesNothing == Spec => []NothingLeftBehind
<1>1. IInv => NothingLeftBehind
  <2> SUFFICES ASSUME IInv, NEW i \in Slices, i < cur \/ pc = "done"
               PROVE sox[i] # "run" /\ ff[i] # "run" /\ cop[i] # "copy"
    BY DEF NothingLeftBehind
  <2>1. Passed(i)
    BY DEF Passed
  <2> QED
    BY <2>1 DEF IInv, StageOf
<1> QED
  BY <1>1, Inductive, PTL

\* A response the code ends is the whole audio of every slice, unless a process
\* or a call failed or the client left.
THEOREM Complete == Spec => []CompleteUnlessFailed
<1>1. IInv => CompleteUnlessFailed
  <2> SUFFICES ASSUME IInv, pc = "done", ~failed, client = "here", NEW i \in Slices
               PROVE got[i] = NChunks
    BY DEF CompleteUnlessFailed
  <2>1. TypeOK /\ StageOf(i) /\ AudioOf(i)
    BY DEF IInv
  <2>2. ff[i] = "exited"
    BY <2>1 DEF StageOf, AudioOf, Passed
  <2>3. cop[i] = "ended"
    BY <2>1, <2>2 DEF StageOf, AudioOf, Passed, TypeOK
  <2> QED
    BY <2>1, <2>2, <2>3 DEF AudioOf
<1> QED
  BY <1>1, Inductive, PTL

\* No step but the end of one of the two processes frees a handler that hangs.
LEMMA HungStep ==
  IInv /\ [Next]_vars => (Hung => Hung' \/ SoxFail(cur) \/ FfFail(cur))
<1> SUFFICES ASSUME IInv, [Next]_vars, Hung, ~SoxFail(cur), ~FfFail(cur) PROVE Hung'
  OBVIOUS
<1> TypeOK /\ WithinBounds(cur) /\ StageOf(cur)
  BY DEF IInv, TypeOK
<1> USE SizeAssumption DEF TypeOK, WithinBounds, Hung, SoxBlocked, FfBlocked, procs, data
<1>1. CASE LookPath
  BY <1>1 DEF LookPath
<1>2. CASE StartFfmpeg
  BY <1>2 DEF StartFfmpeg
<1>3. CASE StartSox
  BY <1>3 DEF StartSox
<1>4. CASE WaitSox
  BY <1>4 DEF WaitSox, SoxWaited
<1>5. CASE WaitFfmpeg
  BY <1>5 DEF WaitFfmpeg, FfmpegWaited
<1>6. ASSUME NEW i \in Slices, SoxWrite(i) PROVE Hung'
  BY <1>6 DEF SoxWrite, SoxCanWrite
<1>7. ASSUME NEW i \in Slices, SoxExit(i) PROVE Hung'
  BY <1>7 DEF SoxExit, SoxIsThrough
<1>8. ASSUME NEW i \in Slices, SoxFail(i) PROVE Hung'
  BY <1>8 DEF SoxFail
<1>9. ASSUME NEW i \in Slices, FfRead(i) PROVE Hung'
  BY <1>9 DEF FfRead, FfCanRead
<1>10. ASSUME NEW i \in Slices, FfWrite(i) PROVE Hung'
  BY <1>10 DEF FfWrite, FfCanWrite
<1>11. ASSUME NEW i \in Slices, FfExit(i) PROVE Hung'
  BY <1>11 DEF FfExit, FfIsThrough
<1>12. ASSUME NEW i \in Slices, FfFail(i) PROVE Hung'
  BY <1>12 DEF FfFail
<1>13. ASSUME NEW i \in Slices, FfBrokenPipe(i) PROVE Hung'
  BY <1>13 DEF FfBrokenPipe, FfIsTold
<1>14. ASSUME NEW i \in Slices, Copy(i) PROVE Hung'
  BY <1>14 DEF Copy, CopierHas
<1>15. ASSUME NEW i \in Slices, CopyToNobody(i) PROVE Hung'
  BY <1>15 DEF CopyToNobody, CopierHas
<1>16. ASSUME NEW i \in Slices, CopyEnd(i) PROVE Hung'
  BY <1>16 DEF CopyEnd, CopierIsThrough
<1>17. CASE Leave
  BY <1>17 DEF Leave
<1>18. CASE UNCHANGED vars
  BY <1>18 DEF vars
<1> QED
  BY <1>1, <1>2, <1>3, <1>4, <1>5, <1>6, <1>7, <1>8, <1>9, <1>10,
     <1>11, <1>12, <1>13, <1>14, <1>15, <1>16, <1>17, <1>18 DEF Next

\* A handler that waits for a process whose reader is gone waits for good: only
\* the end of a process from outside lets it go on (audio.go:206-207).
THEOREM StaysHung == Spec => HungForGood
  BY Inductive, HungStep, PTL DEF Spec, HungForGood

\* A process that runs with nothing more to do by itself waits for a reader that
\* is gone, or for a client that does not read.
LEMMA FfWaits ==
  ASSUME IInv, NEW i \in Slices, ff[i] = "run", made[i] < taken[i],
         ~SomethingRuns, ~ClientStalls
  PROVE  FfBlocked(i)
<1> TypeOK /\ WithinBounds(i) /\ StageOf(i) /\ AudioOf(i)
  BY DEF IInv
<1>1. ~FfCanWrite(i) /\ ~FfIsTold(i) /\ ~(client = "gone" /\ CopierHas(i))
  BY DEF SomethingRuns
<1>2. made[i] - sent[i] = Cap
  BY <1>1, SizeAssumption DEF FfCanWrite, WithinBounds, TypeOK
<1>3. cop[i] # "closed"
  BY <1>1 DEF FfIsTold
<1>4. cop[i] # "copy"
  <2>1. client = "here" => ~CopierHas(i)
    BY DEF ClientStalls
  <2>2. ~CopierHas(i)
    BY <1>1, <2>1 DEF TypeOK
  <2>3. sent[i] < made[i]
    BY <1>2, SizeAssumption DEF TypeOK
  <2> QED
    BY <2>2, <2>3 DEF CopierHas
<1>5. cop[i] \notin {"none", "ended"}
  BY DEF StageOf, AudioOf
<1> QED
  BY <1>2, <1>3, <1>4, <1>5 DEF FfBlocked, TypeOK

\* The same of the ffmpeg that the handler waits for, directly or because sox
\* waits for it.
LEMMA FfHolds ==
  ASSUME IInv, NEW i \in Slices, ff[i] = "run", ~SomethingRuns, ~ClientStalls,
         piped[i] => sox[i] \in {"failed", "exited"} \/ taken[i] < written[i]
  PROVE  FfBlocked(i)
<1> TypeOK /\ WithinBounds(i)
  BY DEF IInv
<1>1. ~FfCanRead(i) /\ ~FfIsThrough(i)
  BY DEF SomethingRuns
<1>2. made[i] < taken[i]
  <2>1. CASE made[i] = taken[i]
    <3>1. piped[i] => taken[i] >= written[i]
      BY <1>1, <2>1 DEF FfCanRead, TypeOK
    <3>2. FfInputEnds(i)
      BY <3>1 DEF FfInputEnds, WithinBounds, TypeOK
    <3> QED
      BY <1>1, <2>1, <3>2 DEF FfIsThrough
  <2> QED
    BY <2>1 DEF WithinBounds, TypeOK
<1> QED
  BY <1>2, FfWaits

\* A reader is gone that a process needs only after a failure, or with the client.
LEMMA HangHasReason ==
  ASSUME IInv, Hung
  PROVE  failed \/ client = "gone"
<1> SUFFICES ASSUME ~failed, client = "here" PROVE FALSE
  BY DEF IInv, TypeOK
<1> TypeOK /\ cur \in Slices /\ WithinBounds(cur) /\ StageOf(cur) /\ AudioOf(cur)
  BY DEF IInv, TypeOK
<1>1. ~FfBlocked(cur)
  BY DEF FfBlocked, AudioOf
<1>2. SoxBlocked(cur) /\ ff[cur] = "exited"
  BY <1>1 DEF Hung, SoxBlocked, AudioOf
<1>3. made[cur] = NChunks /\ written[cur] < NChunks
  BY <1>2 DEF SoxBlocked, AudioOf
<1> QED
  BY <1>3, SizeAssumption DEF WithinBounds, TypeOK

\* The handler, sox, ffmpeg and the copier of audio.go's loop over the slices never
\* wait for one another in a circle: a loop that has stopped for good has a
\* process whose reader is gone, by a failure or with the client, or a client that
\* does not read.
THEOREM NoCircularWait == Spec => []OnlyHangOrClientBlocks
<1>1. IInv => OnlyHangOrClientBlocks
  <2> SUFFICES ASSUME IInv, ~Over, ~SomethingRuns, ~ClientStalls
               PROVE  Hung
    BY HangHasReason DEF OnlyHangOrClientBlocks, HungForAReason
  <2> TypeOK /\ cur \in Slices
    BY DEF IInv, TypeOK
  <2> WithinBounds(cur) /\ StageOf(cur) /\ AudioOf(cur)
    BY DEF IInv
  <2>1. pc \in {"soxwait", "ffwait"}
    BY DEF TypeOK, SomethingRuns, Over
  <2>2. ~NotStarted(cur)
    BY <2>1 DEF NotStarted, TypeOK, Slices
  <2>3. ff[cur] \in {"run", "failed", "exited"}
    BY <2>2 DEF StageOf, TypeOK
  <2>4. CASE pc = "soxwait"
    <3>1. sox[cur] = "run"
      BY <2>4 DEF StageOf, SomethingRuns, SoxWaited
    <3>2. ~SoxIsThrough(cur) /\ ~SoxCanWrite(cur)
      BY DEF SomethingRuns
    <3>3. written[cur] < NChunks
      BY <3>1, <3>2, SizeAssumption DEF SoxIsThrough, WithinBounds, TypeOK
    <3>4. piped[cur] /\ written[cur] - taken[cur] >= Cap
      BY <3>1, <3>2, <3>3, SizeAssumption DEF SoxCanWrite, TypeOK
    <3>5. written[cur] - taken[cur] = Cap /\ taken[cur] < written[cur]
      BY <3>4, SizeAssumption DEF WithinBounds, TypeOK
    <3>6. ff[cur] = "run" => FfBlocked(cur)
      BY <3>5, FfHolds
    <3> QED
      BY <2>3, <2>4, <3>1, <3>3, <3>4, <3>5, <3>6 DEF Hung, SoxBlocked
  <2>5. CASE pc = "ffwait"
    <3>1. sox[cur] \in {"failed", "exited"}
      BY <2>5 DEF StageOf
    <3>2. ff[cur] = "run" => FfBlocked(cur)
      BY <3>1, FfHolds
    <3>3. ff[cur] # "failed"
      BY <2>5 DEF SomethingRuns, FfmpegWaited
    <3>4. ff[cur] # "exited"
      <4> SUFFICES ASSUME ff[cur] = "exited" PROVE FALSE
        OBVIOUS
      <4>1. cop[cur] # "none"
        BY DEF StageOf
      <4>2. cop[cur] = "copy"
        BY <2>5, <4>1 DEF SomethingRuns, FfmpegWaited, TypeOK
      <4>3. ~CopierIsThrough(cur) /\ ~CopierHas(cur)
        BY DEF SomethingRuns, ClientStalls, TypeOK
      <4> QED
        BY <4>2, <4>3 DEF CopierIsThrough, CopierHas, WithinBounds, TypeOK
    <3> QED
      BY <2>3, <2>5, <3>2, <3>3, <3>4 DEF Hung
  <2> QED
    BY <2>1, <2>4, <2>5
<1> QED
  BY <1>1, Inductive, PTL

\* What is left to do is counted by natural numbers.
LEMMA LeftIsNat ==
  IInv => \A i \in Slices :
    /\ HandlerLeft(i) \in Int /\ AudioLeft(i) \in Int /\ Left(i) \in Nat
    /\ \A state : ProcessLeft(state) \in Int
<1> SUFFICES ASSUME IInv, NEW i \in Slices
             PROVE  /\ HandlerLeft(i) \in Nat /\ AudioLeft(i) \in Nat /\ Left(i) \in Nat
                    /\ \A state : ProcessLeft(state) \in Nat
  OBVIOUS
<1> TypeOK /\ WithinBounds(i)
  BY DEF IInv
<1>1. HandlerLeft(i) \in Nat
  BY DEF HandlerLeft, Over, TypeOK, Slices
<1>2. \A state : ProcessLeft(state) \in Nat
  BY DEF ProcessLeft
<1>3. AudioLeft(i) \in Nat
  <2>1. taken[i] <= written[i]
    BY DEF WithinBounds, TypeOK
  <2> QED
    BY <2>1, SizeAssumption DEF AudioLeft, WithinBounds, TypeOK
<1> QED
  BY <1>1, <1>2, <1>3 DEF Left

\* The same after a step.
LEMMA LeftIsNatNext ==
  IInv' => (\A i \in Slices :
    /\ HandlerLeft(i) \in Int /\ AudioLeft(i) \in Int /\ Left(i) \in Nat
    /\ \A state : ProcessLeft(state) \in Int)'
  BY LeftIsNat, PTL

\* A step of a process or of the copier leaves the handler where it is.
LEMMA HandlerStays ==
  ASSUME UNCHANGED <<pc, cur>>, NEW i \in Slices
  PROVE  HandlerLeft(i)' = HandlerLeft(i)
  BY DEF HandlerLeft, Over

\* A step of the handler brings the slice it is at, or the one it goes on to, nearer
\* to its end, and no slice farther from it.
LEMMA HandlerMoves ==
  ASSUME TypeOK, ~Over,
         \/ /\ cur' = cur
            /\ \/ pc = "tools" /\ pc' \in {"ffmpeg", "panicked"}
               \/ pc = "ffmpeg" /\ pc' = "sox"
               \/ pc = "sox" /\ pc' \in {"soxwait", "ffwait"}
               \/ pc = "soxwait" /\ pc' = "ffwait"
         \/ pc = "ffwait" /\ NextSlice
  PROVE  /\ \A j \in Slices : HandlerLeft(j)' <= HandlerLeft(j)
         /\ \E j \in Slices : HandlerLeft(j)' < HandlerLeft(j)
<1> cur \in Slices
  BY DEF TypeOK
<1> USE SizeAssumption DEF HandlerLeft, Over, Slices
<1>1. CASE cur' = cur /\ pc = "tools" /\ pc' \in {"ffmpeg", "panicked"}
  BY <1>1
<1>2. CASE cur' = cur /\ pc = "ffmpeg" /\ pc' = "sox"
  BY <1>2
<1>3. CASE cur' = cur /\ pc = "sox" /\ pc' \in {"soxwait", "ffwait"}
  BY <1>3
<1>4. CASE cur' = cur /\ pc = "soxwait" /\ pc' = "ffwait"
  BY <1>4
<1>5. CASE pc = "ffwait" /\ NextSlice
  <2>1. \A j \in Slices : HandlerLeft(j) = IF j < cur THEN 0 ELSE IF j = cur THEN 1 ELSE 5
    BY <1>5
  <2>2. CASE pc' = "done" /\ cur' = cur /\ cur = NSlices
    BY <2>1, <2>2
  <2>3. CASE pc' = "ffmpeg" /\ cur' = cur + 1
    <3>1. \A j \in Slices : HandlerLeft(j)' = IF j < cur + 1 THEN 0 ELSE IF j = cur + 1 THEN 4 ELSE 5
      BY <2>3
    <3> QED
      BY <2>1, <3>1
  <2> QED
    BY <1>5, <2>2, <2>3 DEF NextSlice
<1> QED
  BY <1>1, <1>2, <1>3, <1>4, <1>5

\* One chunk moves, one process or copier ends, or the handler goes on.
LEMMA AdvanceStep ==
  ASSUME IInv, Next, ~Leave
  PROVE  /\ \A j \in Slices : Left(j)' \in Nat /\ Left(j)' <= Left(j)
         /\ \E j \in Slices : Left(j)' < Left(j)
<1> DEFINE Advance ==
      (\A j \in Slices : Left(j)' <= Left(j)) /\ (\E j \in Slices : Left(j)' < Left(j))
<1> TypeOK /\ IInv' /\ TypeOK' /\ cur \in Slices
  BY InvStep DEF IInv, TypeOK
<1>n. \A j \in Slices :
        /\ HandlerLeft(j) \in Int /\ AudioLeft(j) \in Int
        /\ HandlerLeft(j)' \in Int /\ AudioLeft(j)' \in Int /\ Left(j)' \in Nat
        /\ \A state : ProcessLeft(state) \in Int
  BY LeftIsNat, LeftIsNatNext
<1>h. ASSUME \A j \in Slices : HandlerLeft(j)' <= HandlerLeft(j),
             \E j \in Slices : HandlerLeft(j)' < HandlerLeft(j),
             UNCHANGED data,
             \A j \in Slices :
               /\ ProcessLeft(sox[j])' <= ProcessLeft(sox[j])
               /\ ProcessLeft(ff[j])' <= ProcessLeft(ff[j])
               /\ ProcessLeft(cop[j])' <= ProcessLeft(cop[j])
      PROVE  Advance
  <2>1. \A j \in Slices : AudioLeft(j)' = AudioLeft(j)
    BY <1>h DEF AudioLeft, data
  <2> QED
    BY <1>n, <1>h, <2>1 DEF Left
<1>1. CASE LookPath
  <2>1. \A j \in Slices : HandlerLeft(j)' <= HandlerLeft(j)
    BY <1>1, HandlerMoves DEF LookPath, Over
  <2>2. \E j \in Slices : HandlerLeft(j)' < HandlerLeft(j)
    BY <1>1, HandlerMoves DEF LookPath, Over
  <2> QED
    BY <1>1, <1>h, <2>1, <2>2, <1>n DEF LookPath, procs
<1>2. CASE StartFfmpeg
  <2>1. pc = "ffmpeg" /\ pc' = "sox" /\ cur' = cur /\ UNCHANGED <<sox, data>>
    BY <1>2 DEF StartFfmpeg
  <2>2. /\ \A j \in Slices : HandlerLeft(j)' <= HandlerLeft(j)
        /\ \E j \in Slices : HandlerLeft(j)' < HandlerLeft(j)
    BY <2>1, HandlerMoves DEF Over
  <2>3. ff[cur] = "none" /\ cop[cur] = "none"
    BY <2>1, <1>n DEF IInv, StageOf, NotStarted
  <2>4. \A j \in Slices :
          /\ ProcessLeft(ff[j])' <= ProcessLeft(ff[j])
          /\ ProcessLeft(cop[j])' <= ProcessLeft(cop[j])
    <3> TAKE j \in Slices
    <3>1. CASE j = cur
      BY <1>2, <2>3, <3>1 DEF StartFfmpeg, ProcessLeft, TypeOK
    <3>2. CASE j # cur
      BY <1>2, <3>2 DEF StartFfmpeg, ProcessLeft, TypeOK
    <3> QED
      BY <3>1, <3>2
  <2> QED
    BY <1>h, <2>1, <2>2, <2>4, <1>n
<1>3. CASE StartSox
  <2>1. pc = "sox" /\ pc' \in {"soxwait", "ffwait"} /\ cur' = cur /\ UNCHANGED <<ff, cop, data>>
    BY <1>3 DEF StartSox
  <2>2. /\ \A j \in Slices : HandlerLeft(j)' <= HandlerLeft(j)
        /\ \E j \in Slices : HandlerLeft(j)' < HandlerLeft(j)
    BY <2>1, HandlerMoves DEF Over
  <2>3. sox[cur] = "none"
    BY <2>1 DEF IInv, StageOf
  <2>4. \A j \in Slices : ProcessLeft(sox[j])' <= ProcessLeft(sox[j])
    <3> TAKE j \in Slices
    <3>1. CASE j = cur
      BY <1>3, <2>3, <3>1 DEF StartSox, ProcessLeft, TypeOK
    <3>2. CASE j # cur
      BY <1>3, <3>2 DEF StartSox, ProcessLeft, TypeOK
    <3> QED
      BY <3>1, <3>2
  <2> QED
    BY <1>h, <2>1, <2>2, <2>4, <1>n
<1>4. CASE WaitSox
  <2>1. pc = "soxwait" /\ pc' = "ffwait" /\ cur' = cur /\ UNCHANGED <<sox, ff, cop, data>>
    BY <1>4 DEF WaitSox, SoxWaited, procs
  <2>2. /\ \A j \in Slices : HandlerLeft(j)' <= HandlerLeft(j)
        /\ \E j \in Slices : HandlerLeft(j)' < HandlerLeft(j)
    BY <2>1, HandlerMoves DEF Over
  <2> QED
    BY <1>h, <2>1, <2>2, <1>n
<1>5. CASE WaitFfmpeg
  <2>1. pc = "ffwait" /\ NextSlice /\ UNCHANGED <<sox, ff, cop, data>>
    BY <1>5 DEF WaitFfmpeg, FfmpegWaited, procs
  <2>2. /\ \A j \in Slices : HandlerLeft(j)' <= HandlerLeft(j)
        /\ \E j \in Slices : HandlerLeft(j)' < HandlerLeft(j)
    BY <2>1, HandlerMoves DEF Over
  <2> QED
    BY <1>h, <2>1, <2>2, <1>n
<1>6. ASSUME NEW i \in Slices, SoxWrite(i) PROVE Advance
  <2>1. \A j \in Slices : HandlerLeft(j)' = HandlerLeft(j)
    BY <1>6, HandlerStays DEF SoxWrite
  <2>2. UNCHANGED <<sox, ff, cop>>
    BY <1>6 DEF SoxWrite, procs
  <2>3. AudioLeft(i)' < AudioLeft(i) /\ \A j \in Slices \ {i} : AudioLeft(j)' = AudioLeft(j)
    BY <1>6, SizeAssumption DEF SoxWrite, AudioLeft, TypeOK
  <2> QED
    BY <1>n, <2>1, <2>2, <2>3 DEF Left
<1>7. ASSUME NEW i \in Slices, SoxExit(i) PROVE Advance
  <2>1. \A j \in Slices : HandlerLeft(j)' = HandlerLeft(j)
    BY <1>7, HandlerStays DEF SoxExit
  <2>2. UNCHANGED <<ff, cop>> /\ \A j \in Slices : AudioLeft(j)' = AudioLeft(j)
    BY <1>7 DEF SoxExit, data, AudioLeft
  <2>3. /\ ProcessLeft(sox[i])' < ProcessLeft(sox[i])
        /\ \A j \in Slices \ {i} : ProcessLeft(sox[j])' = ProcessLeft(sox[j])
    BY <1>7 DEF SoxExit, SoxIsThrough, ProcessLeft, TypeOK
  <2> QED
    BY <1>n, <2>1, <2>2, <2>3 DEF Left
<1>8. ASSUME NEW i \in Slices, SoxFail(i) PROVE Advance
  <2>1. \A j \in Slices : HandlerLeft(j)' = HandlerLeft(j)
    BY <1>8, HandlerStays DEF SoxFail
  <2>2. UNCHANGED <<ff, cop>> /\ \A j \in Slices : AudioLeft(j)' = AudioLeft(j)
    BY <1>8 DEF SoxFail, data, AudioLeft
  <2>3. /\ ProcessLeft(sox[i])' < ProcessLeft(sox[i])
        /\ \A j \in Slices \ {i} : ProcessLeft(sox[j])' = ProcessLeft(sox[j])
    BY <1>8 DEF SoxFail, ProcessLeft, TypeOK
  <2> QED
    BY <1>n, <2>1, <2>2, <2>3 DEF Left
<1>9. ASSUME NEW i \in Slices, FfRead(i) PROVE Advance
  <2>1. \A j \in Slices : HandlerLeft(j)' = HandlerLeft(j)
    BY <1>9, HandlerStays DEF FfRead
  <2>2. UNCHANGED <<sox, ff, cop>>
    BY <1>9 DEF FfRead, procs
  <2>3. AudioLeft(i)' < AudioLeft(i) /\ \A j \in Slices \ {i} : AudioLeft(j)' = AudioLeft(j)
    BY <1>9, SizeAssumption DEF FfRead, AudioLeft, TypeOK
  <2> QED
    BY <1>n, <2>1, <2>2, <2>3 DEF Left
<1>10. ASSUME NEW i \in Slices, FfWrite(i) PROVE Advance
  <2>1. \A j \in Slices : HandlerLeft(j)' = HandlerLeft(j)
    BY <1>10, HandlerStays DEF FfWrite
  <2>2. UNCHANGED <<sox, ff, cop>>
    BY <1>10 DEF FfWrite, procs
  <2>3. AudioLeft(i)' < AudioLeft(i) /\ \A j \in Slices \ {i} : AudioLeft(j)' = AudioLeft(j)
    BY <1>10, SizeAssumption DEF FfWrite, AudioLeft, TypeOK
  <2> QED
    BY <1>n, <2>1, <2>2, <2>3 DEF Left
<1>11. ASSUME NEW i \in Slices, FfExit(i) PROVE Advance
  <2>1. \A j \in Slices : HandlerLeft(j)' = HandlerLeft(j)
    BY <1>11, HandlerStays DEF FfExit
  <2>2. UNCHANGED <<sox, cop>> /\ \A j \in Slices : AudioLeft(j)' = AudioLeft(j)
    BY <1>11 DEF FfExit, data, AudioLeft
  <2>3. /\ ProcessLeft(ff[i])' < ProcessLeft(ff[i])
        /\ \A j \in Slices \ {i} : ProcessLeft(ff[j])' = ProcessLeft(ff[j])
    BY <1>11 DEF FfExit, FfIsThrough, ProcessLeft, TypeOK
  <2> QED
    BY <1>n, <2>1, <2>2, <2>3 DEF Left
<1>12. ASSUME NEW i \in Slices, FfFail(i) PROVE Advance
  <2>1. \A j \in Slices : HandlerLeft(j)' = HandlerLeft(j)
    BY <1>12, HandlerStays DEF FfFail
  <2>2. UNCHANGED <<sox, cop>> /\ \A j \in Slices : AudioLeft(j)' = AudioLeft(j)
    BY <1>12 DEF FfFail, data, AudioLeft
  <2>3. /\ ProcessLeft(ff[i])' < ProcessLeft(ff[i])
        /\ \A j \in Slices \ {i} : ProcessLeft(ff[j])' = ProcessLeft(ff[j])
    BY <1>12 DEF FfFail, ProcessLeft, TypeOK
  <2> QED
    BY <1>n, <2>1, <2>2, <2>3 DEF Left
<1>13. ASSUME NEW i \in Slices, FfBrokenPipe(i) PROVE Advance
  <2>1. \A j \in Slices : HandlerLeft(j)' = HandlerLeft(j)
    BY <1>13, HandlerStays DEF FfBrokenPipe
  <2>2. UNCHANGED <<sox, cop>> /\ \A j \in Slices : AudioLeft(j)' = AudioLeft(j)
    BY <1>13 DEF FfBrokenPipe, data, AudioLeft
  <2>3. /\ ProcessLeft(ff[i])' < ProcessLeft(ff[i])
        /\ \A j \in Slices \ {i} : ProcessLeft(ff[j])' = ProcessLeft(ff[j])
    BY <1>13 DEF FfBrokenPipe, FfIsTold, ProcessLeft, TypeOK
  <2> QED
    BY <1>n, <2>1, <2>2, <2>3 DEF Left
<1>14. ASSUME NEW i \in Slices, Copy(i) PROVE Advance
  <2>1. \A j \in Slices : HandlerLeft(j)' = HandlerLeft(j)
    BY <1>14, HandlerStays DEF Copy
  <2>2. UNCHANGED <<sox, ff, cop>>
    BY <1>14 DEF Copy, procs
  <2>3. AudioLeft(i)' < AudioLeft(i) /\ \A j \in Slices \ {i} : AudioLeft(j)' = AudioLeft(j)
    BY <1>14, SizeAssumption DEF Copy, AudioLeft, TypeOK
  <2> QED
    BY <1>n, <2>1, <2>2, <2>3 DEF Left
<1>15. ASSUME NEW i \in Slices, CopyEnd(i) PROVE Advance
  <2>1. \A j \in Slices : HandlerLeft(j)' = HandlerLeft(j)
    BY <1>15, HandlerStays DEF CopyEnd
  <2>2. UNCHANGED <<sox, ff>> /\ \A j \in Slices : AudioLeft(j)' = AudioLeft(j)
    BY <1>15 DEF CopyEnd, data, AudioLeft
  <2>3. /\ ProcessLeft(cop[i])' < ProcessLeft(cop[i])
        /\ \A j \in Slices \ {i} : ProcessLeft(cop[j])' = ProcessLeft(cop[j])
    BY <1>15 DEF CopyEnd, CopierIsThrough, ProcessLeft, TypeOK
  <2> QED
    BY <1>n, <2>1, <2>2, <2>3 DEF Left
<1>16. ASSUME NEW i \in Slices, CopyToNobody(i) PROVE Advance
  <2>1. UNCHANGED <<pc, cur, sox, ff, written, taken, made>> /\ cop[i] = "copy"
    BY <1>16 DEF CopyToNobody, CopierHas
  <2>2. \A j \in Slices : HandlerLeft(j)' = HandlerLeft(j)
    BY <2>1, HandlerStays
  <2>3. CASE sent' = [sent EXCEPT ![i] = @ + 1] /\ UNCHANGED cop
    <3>1. AudioLeft(i)' < AudioLeft(i) /\ \A j \in Slices \ {i} : AudioLeft(j)' = AudioLeft(j)
      BY <2>1, <2>3, SizeAssumption DEF AudioLeft, TypeOK
    <3> QED
      BY <1>n, <2>1, <2>2, <2>3, <3>1 DEF Left
  <2>4. CASE (\E end \in {"stopped", "closed"} : cop' = [cop EXCEPT ![i] = end]) /\ UNCHANGED sent
    <3>1. \A j \in Slices : AudioLeft(j)' = AudioLeft(j)
      BY <2>1, <2>4 DEF AudioLeft
    <3>2. /\ ProcessLeft(cop[i])' < ProcessLeft(cop[i])
          /\ \A j \in Slices \ {i} : ProcessLeft(cop[j])' = ProcessLeft(cop[j])
      BY <2>1, <2>4 DEF ProcessLeft, TypeOK
    <3> QED
      BY <1>n, <2>1, <2>2, <3>1, <3>2 DEF Left
  <2> QED
    BY <1>16, <2>3, <2>4 DEF CopyToNobody
<1>a. Advance
  BY <1>1, <1>2, <1>3, <1>4, <1>5, <1>6, <1>7, <1>8, <1>9, <1>10, <1>11, <1>12, <1>13, <1>14, <1>15, <1>16 DEF Next
<1> QED
  BY <1>a, <1>n

\* Every step of a request takes it nearer to its end, and there is only so much to
\* do for a slice: no step of the handler, the processes or the copiers of
\* audio.go's loop is ever done again.
THEOREM Advances == Spec => EveryStepAdvances
<1>1. IInv /\ [Next]_vars =>
        [\/ Leave
         \/ /\ \A i \in Slices : Left(i)' \in Nat /\ Left(i)' <= Left(i)
            /\ \E i \in Slices : Left(i)' < Left(i)]_vars
  BY AdvanceStep
<1> QED
  BY <1>1, Inductive, PTL DEF Spec, EveryStepAdvances

\* A step that the client does not notice, and a failure it may not notice yet.
LEMMA Unnoticed ==
  ASSUME UNCHANGED <<pc, cur, got, failed, client>>
  PROVE  UNCHANGED Abstract!vars
  BY DEF Abstract!vars, Over

LEMMA Spoils ==
  ASSUME UNCHANGED <<cur, got, client>>, Over' = Over, ~Over, failed' = TRUE
  PROVE  Abstract!Spoil
  BY DEF Abstract!Spoil

\* Whoever runs runs for the slice the handler is at, and the handler is not through.
LEMMA AtTheSlice ==
  ASSUME IInv, NEW i \in Slices, sox[i] = "run" \/ ff[i] = "run" \/ cop[i] = "copy"
  PROVE  i = cur /\ ~Over
<1> TypeOK /\ StageOf(i)
  BY DEF IInv
<1>1. ~NotStarted(i) /\ ~Passed(i)
  BY DEF StageOf
<1> QED
  BY <1>1 DEF NotStarted, Passed, TypeOK, Slices, Over

\* When the handler goes on to another slice, the client has heard all of this one,
\* or something failed, or the client left.
LEMMA HeardAll ==
  ASSUME IInv, FfmpegWaited
  PROVE  got[cur] = NChunks \/ failed \/ client = "gone"
<1> TypeOK /\ cur \in Slices
  BY DEF IInv, TypeOK
<1> StageOf(cur) /\ AudioOf(cur)
  BY DEF IInv
<1> SUFFICES ASSUME ~failed, client = "here" PROVE got[cur] = NChunks
  BY DEF TypeOK
<1>1. ff[cur] = "exited" /\ cop[cur] = "ended"
  BY DEF AudioOf, FfmpegWaited
<1> QED
  BY <1>1 DEF AudioOf

\* Every step is a step of Playback, or one the client does not notice.
LEMMA StepRefines == IInv /\ [Next]_vars => [Abstract!Next]_(Abstract!vars)
<1> SUFFICES ASSUME IInv, [Next]_vars PROVE [Abstract!Next]_(Abstract!vars)
  OBVIOUS
<1> TypeOK /\ cur \in Slices
  BY DEF IInv, TypeOK
<1> USE DEF Abstract!Next
<1>f. ASSUME UNCHANGED <<pc, cur, got, client>>, ~Over, failed' = TRUE
      PROVE  [Abstract!Next]_(Abstract!vars)
  BY <1>f, Spoils DEF Over
<1>1. CASE LookPath
  <2>1. CASE pc' = "ffmpeg"
    BY <1>1, <2>1 DEF LookPath, data, Abstract!vars, Over, TypeOK
  <2>2. CASE pc' = "panicked"
    <3>1. \A i \in Slices : got[i] = 0
      BY <1>1 DEF LookPath, IInv, PlaceOK, StageOf, NotStarted, TypeOK, Slices
    <3>2. Abstract!GiveUp
      BY <1>1, <2>2, <3>1 DEF LookPath, data, Abstract!GiveUp, Over, Slices
    <3> QED
      BY <3>2
  <2> QED
    BY <1>1, <2>1, <2>2 DEF LookPath
<1>2. CASE StartFfmpeg
  <2>1. pc = "ffmpeg" /\ pc' = "sox" /\ UNCHANGED <<cur, got, client>>
    BY <1>2 DEF StartFfmpeg, data
  <2>2. failed' = failed \/ failed' = TRUE
    BY <1>2 DEF StartFfmpeg, TypeOK
  <2>3. Over' = Over /\ ~Over
    BY <2>1 DEF Over
  <2> QED
    BY <2>1, <2>2, <2>3, Spoils DEF Abstract!vars
<1>3. CASE StartSox
  <2>1. /\ pc = "sox" /\ pc' \in {"soxwait", "ffwait"} /\ UNCHANGED <<cur, got, client>>
        /\ failed' = failed \/ failed' = TRUE
    BY <1>3 DEF StartSox, data
  <2>2. Over' = Over /\ ~Over
    BY <2>1 DEF Over
  <2> QED
    BY <2>1, <2>2, Spoils DEF Abstract!vars
<1>4. CASE WaitSox
  BY <1>4 DEF WaitSox, SoxWaited, data, Abstract!vars, Over
<1>5. CASE WaitFfmpeg
  <2>1. FfmpegWaited /\ pc = "ffwait" /\ NextSlice /\ UNCHANGED <<got, failed, client>>
    BY <1>5 DEF WaitFfmpeg, FfmpegWaited, data
  <2>2. Abstract!Through
    BY <2>1, HeardAll DEF Abstract!Through
  <2>3. CASE cur = NSlices
    <3>1. Abstract!Finish
      BY <2>1, <2>2, <2>3 DEF NextSlice, Abstract!Finish, Over
    <3> QED
      BY <3>1
  <2>4. CASE cur # NSlices
    <3>1. cur < NSlices
      BY <2>4, SizeAssumption DEF Slices
    <3>2. Abstract!GoOn
      BY <2>1, <2>2, <2>4, <3>1 DEF NextSlice, Abstract!GoOn, Over
    <3> QED
      BY <3>2
  <2> QED
    BY <2>3, <2>4
<1>6. ASSUME NEW i \in Slices, SoxWrite(i) PROVE UNCHANGED Abstract!vars
  BY <1>6, Unnoticed DEF SoxWrite, data
<1>7. ASSUME NEW i \in Slices, SoxExit(i) PROVE UNCHANGED Abstract!vars
  BY <1>7, Unnoticed DEF SoxExit, data
<1>8. ASSUME NEW i \in Slices, FfRead(i) PROVE UNCHANGED Abstract!vars
  BY <1>8, Unnoticed DEF FfRead, data
<1>9. ASSUME NEW i \in Slices, FfWrite(i) PROVE UNCHANGED Abstract!vars
  BY <1>9, Unnoticed DEF FfWrite, data
<1>10. ASSUME NEW i \in Slices, FfExit(i) PROVE UNCHANGED Abstract!vars
  BY <1>10, Unnoticed DEF FfExit, data
<1>11. ASSUME NEW i \in Slices, FfBrokenPipe(i) PROVE UNCHANGED Abstract!vars
  BY <1>11, Unnoticed DEF FfBrokenPipe, data
<1>12. ASSUME NEW i \in Slices, CopyToNobody(i) PROVE UNCHANGED Abstract!vars
  BY <1>12, Unnoticed DEF CopyToNobody, data
<1>13. ASSUME NEW i \in Slices, CopyEnd(i) PROVE UNCHANGED Abstract!vars
  BY <1>13, Unnoticed DEF CopyEnd, data
<1>14. ASSUME NEW i \in Slices, SoxFail(i) PROVE [Abstract!Next]_(Abstract!vars)
  <2>1. sox[i] = "run" /\ failed' = TRUE /\ UNCHANGED <<pc, cur, got, client>>
    BY <1>14 DEF SoxFail, data
  <2>2. ~Over
    BY <2>1, AtTheSlice
  <2> QED
    BY <2>1, <2>2, <1>f
<1>15. ASSUME NEW i \in Slices, FfFail(i) PROVE [Abstract!Next]_(Abstract!vars)
  <2>1. ff[i] = "run" /\ failed' = TRUE /\ UNCHANGED <<pc, cur, got, client>>
    BY <1>15 DEF FfFail, data
  <2>2. ~Over
    BY <2>1, AtTheSlice
  <2> QED
    BY <2>1, <2>2, <1>f
<1>16. ASSUME NEW i \in Slices, Copy(i) PROVE Abstract!Hear
  <2>1. i = cur /\ ~Over /\ client = "here"
    BY <1>16, AtTheSlice DEF Copy, CopierHas
  <2>2. got[i] < NChunks
    <3>1. WithinBounds(i)
      BY DEF IInv
    <3>2. sent[i] < made[i]
      BY <1>16 DEF Copy, CopierHas
    <3>3. taken[i] <= written[i]
      BY <3>1 DEF WithinBounds, TypeOK
    <3> QED
      BY <3>1, <3>2, <3>3, SizeAssumption DEF WithinBounds, TypeOK
  <2> QED
    BY <1>16, <2>1, <2>2 DEF Copy, Abstract!Hear, Over
<1>17. CASE Leave
  <2>1. Abstract!Leave
    BY <1>17 DEF Leave, Abstract!Leave, data, Over
  <2> QED
    BY <2>1
<1>18. CASE UNCHANGED vars
  BY <1>18 DEF vars, data, Abstract!vars, Over
<1> QED
  BY <1>1, <1>2, <1>3, <1>4, <1>5, <1>6, <1>7, <1>8, <1>9, <1>10, <1>11, <1>12, <1>13, <1>14, <1>15, <1>16, <1>17, <1>18 DEF Next

\* The loop of DownloadAndStream implements Playback: the client hears the slices in
\* order, each from its start and each to its end, unless something failed or it
\* left.
THEOREM Implements == Spec => ImplementsPlayback
<1>1. Init => Abstract!Init
  BY DEF Init, Zero, Slices, Over, Abstract!Init
<1> QED
  BY <1>1, StepRefines, Inductive, PTL DEF Spec, ImplementsPlayback, Abstract!Spec
================================================================================
