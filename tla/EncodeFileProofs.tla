--------------------------- MODULE EncodeFileProofs ----------------------------
(***************************************************************************)
(* Proofs about EncodeFile, for any number of requests and files and any   *)
(* length of the encodings, with every failure and the end of the server.  *)
(***************************************************************************)
EXTENDS EncodeFile, TLAPS

\* The variables keep their types.
LEMMA TypeStep == TypeOK /\ [Next]_vars => TypeOK'
<1> SUFFICES ASSUME TypeOK, [Next]_vars PROVE TypeOK'
  OBVIOUS
<1> USE FileAssumption, SizeAssumption DEF TypeOK, Over, Chunk, disk, serving
<1>1. ASSUME NEW q \in Requests, LookPath(q) PROVE TypeOK'
  BY <1>1 DEF LookPath
<1>2. ASSUME NEW q \in Requests, Fatal(q) PROVE TypeOK'
  BY <1>2 DEF Fatal
<1>3. ASSUME NEW q \in Requests, StartFfmpeg(q) PROVE TypeOK'
  BY <1>3 DEF StartFfmpeg
<1>4. ASSUME NEW q \in Requests, RunSox(q) PROVE TypeOK'
  BY <1>4 DEF RunSox
<1>5. ASSUME NEW q \in Requests, SoxEnds(q) PROVE TypeOK'
  BY <1>5 DEF SoxEnds
<1>6. ASSUME NEW q \in Requests, WaitFfmpeg(q) PROVE TypeOK'
  BY <1>6 DEF WaitFfmpeg
<1>7. ASSUME NEW q \in Requests, Open(q) PROVE TypeOK'
  BY <1>7 DEF Open
<1>8. ASSUME NEW q \in Requests, SendChunk(q) PROVE TypeOK'
  BY <1>8 DEF SendChunk
<1>9. ASSUME NEW q \in Requests, EndResponse(q) PROVE TypeOK'
  BY <1>9 DEF EndResponse
<1>10. ASSUME NEW q \in Requests, FfOpen(q) PROVE TypeOK'
  BY <1>10 DEF FfOpen
<1>11. ASSUME NEW q \in Requests, FfWrite(q) PROVE TypeOK'
  BY <1>11 DEF FfWrite
<1>12. ASSUME NEW q \in Requests, FfExit(q) PROVE TypeOK'
  BY <1>12 DEF FfExit
<1>13. ASSUME NEW q \in Requests, FfFail(q) PROVE TypeOK'
  BY <1>13 DEF FfFail
<1>14. CASE UNCHANGED vars
  BY <1>14 DEF vars
<1> QED
  BY <1>1, <1>2, <1>3, <1>4, <1>5, <1>6, <1>7, <1>8, <1>9, <1>10,
     <1>11, <1>12, <1>13, <1>14 DEF Next

\* The processes of a request follow its handler, and what they have done is
\* accounted for.
LEMMA ProcessesStep ==
  IInv /\ [Next]_vars => \A r \in Requests : ProcessesOf(r)'
<1> SUFFICES ASSUME IInv, [Next]_vars, NEW r \in Requests PROVE ProcessesOf(r)'
  OBVIOUS
<1> TypeOK /\ ProcessesOf(r)
  BY DEF IInv
<1> USE FileAssumption, SizeAssumption DEF TypeOK, ProcessesOf, Over, disk, serving
<1>1. ASSUME NEW q \in Requests, LookPath(q) PROVE ProcessesOf(r)'
  BY <1>1 DEF LookPath
<1>2. ASSUME NEW q \in Requests, Fatal(q) PROVE ProcessesOf(r)'
  BY <1>2 DEF Fatal
<1>3. ASSUME NEW q \in Requests, StartFfmpeg(q) PROVE ProcessesOf(r)'
  BY <1>3 DEF StartFfmpeg
<1>4. ASSUME NEW q \in Requests, RunSox(q) PROVE ProcessesOf(r)'
  BY <1>4 DEF RunSox
<1>5. ASSUME NEW q \in Requests, SoxEnds(q) PROVE ProcessesOf(r)'
  BY <1>5 DEF SoxEnds
<1>6. ASSUME NEW q \in Requests, WaitFfmpeg(q) PROVE ProcessesOf(r)'
  BY <1>6 DEF WaitFfmpeg
<1>7. ASSUME NEW q \in Requests, Open(q) PROVE ProcessesOf(r)'
  BY <1>7 DEF Open
<1>8. ASSUME NEW q \in Requests, SendChunk(q) PROVE ProcessesOf(r)'
  BY <1>8 DEF SendChunk
<1>9. ASSUME NEW q \in Requests, EndResponse(q) PROVE ProcessesOf(r)'
  BY <1>9 DEF EndResponse
<1>10. ASSUME NEW q \in Requests, FfOpen(q) PROVE ProcessesOf(r)'
  BY <1>10 DEF FfOpen
<1>11. ASSUME NEW q \in Requests, FfWrite(q) PROVE ProcessesOf(r)'
  BY <1>11 DEF FfWrite
<1>12. ASSUME NEW q \in Requests, FfExit(q) PROVE ProcessesOf(r)'
  BY <1>12 DEF FfExit
<1>13. ASSUME NEW q \in Requests, FfFail(q) PROVE ProcessesOf(r)'
  BY <1>13 DEF FfFail
<1>14. CASE UNCHANGED vars
  BY <1>14 DEF vars
<1> QED
  BY <1>1, <1>2, <1>3, <1>4, <1>5, <1>6, <1>7, <1>8, <1>9, <1>10,
     <1>11, <1>12, <1>13, <1>14 DEF Next

\* A request that has its file to itself finds there what its own ffmpeg wrote.
LEMMA FileStep ==
  IInv /\ [Next]_vars => \A r \in Requests : Alone(r)' => FileOf(r)'
<1> SUFFICES ASSUME IInv, [Next]_vars, NEW r \in Requests, Alone(r)' PROVE FileOf(r)'
  OBVIOUS
<1> TypeOK /\ ProcessesOf(r) /\ (Alone(r) => FileOf(r))
  BY DEF IInv
<1> USE FileAssumption, SizeAssumption DEF TypeOK, ProcessesOf, Alone, FileOf, Over, Chunk, disk, serving
<1>1. ASSUME NEW q \in Requests, LookPath(q) PROVE FileOf(r)'
  BY <1>1 DEF LookPath
<1>2. ASSUME NEW q \in Requests, Fatal(q) PROVE FileOf(r)'
  BY <1>2 DEF Fatal
<1>3. ASSUME NEW q \in Requests, StartFfmpeg(q) PROVE FileOf(r)'
  BY <1>3 DEF StartFfmpeg
<1>4. ASSUME NEW q \in Requests, RunSox(q) PROVE FileOf(r)'
  BY <1>4 DEF RunSox
<1>5. ASSUME NEW q \in Requests, SoxEnds(q) PROVE FileOf(r)'
  BY <1>5 DEF SoxEnds
<1>6. ASSUME NEW q \in Requests, WaitFfmpeg(q) PROVE FileOf(r)'
  BY <1>6 DEF WaitFfmpeg
<1>7. ASSUME NEW q \in Requests, Open(q) PROVE FileOf(r)'
  BY <1>7 DEF Open
<1>8. ASSUME NEW q \in Requests, SendChunk(q) PROVE FileOf(r)'
  BY <1>8 DEF SendChunk
<1>9. ASSUME NEW q \in Requests, EndResponse(q) PROVE FileOf(r)'
  BY <1>9 DEF EndResponse
<1>10. ASSUME NEW q \in Requests, FfOpen(q) PROVE FileOf(r)'
  BY <1>10 DEF FfOpen
<1>11. ASSUME NEW q \in Requests, FfWrite(q) PROVE FileOf(r)'
  BY <1>11 DEF FfWrite
<1>12. ASSUME NEW q \in Requests, FfExit(q) PROVE FileOf(r)'
  BY <1>12 DEF FfExit
<1>13. ASSUME NEW q \in Requests, FfFail(q) PROVE FileOf(r)'
  BY <1>13 DEF FfFail
<1>14. CASE UNCHANGED vars
  BY <1>14 DEF vars
<1> QED
  BY <1>1, <1>2, <1>3, <1>4, <1>5, <1>6, <1>7, <1>8, <1>9, <1>10,
     <1>11, <1>12, <1>13, <1>14 DEF Next

\* The response of a request that has its file to itself is as long as the file.
LEMMA ServedStep ==
  IInv /\ [Next]_vars => \A r \in Requests : ServedOf(r)'
<1> SUFFICES ASSUME IInv, [Next]_vars, NEW r \in Requests PROVE ServedOf(r)'
  OBVIOUS
<1> TypeOK /\ ProcessesOf(r) /\ (Alone(r) => FileOf(r)) /\ ServedOf(r)
  BY DEF IInv
<1> USE FileAssumption, SizeAssumption DEF TypeOK, ProcessesOf, Alone, FileOf, ServedOf, Over, Chunk, disk, serving
<1>1. ASSUME NEW q \in Requests, LookPath(q) PROVE ServedOf(r)'
  BY <1>1 DEF LookPath
<1>2. ASSUME NEW q \in Requests, Fatal(q) PROVE ServedOf(r)'
  BY <1>2 DEF Fatal
<1>3. ASSUME NEW q \in Requests, StartFfmpeg(q) PROVE ServedOf(r)'
  BY <1>3 DEF StartFfmpeg
<1>4. ASSUME NEW q \in Requests, RunSox(q) PROVE ServedOf(r)'
  BY <1>4 DEF RunSox
<1>5. ASSUME NEW q \in Requests, SoxEnds(q) PROVE ServedOf(r)'
  BY <1>5 DEF SoxEnds
<1>6. ASSUME NEW q \in Requests, WaitFfmpeg(q) PROVE ServedOf(r)'
  BY <1>6 DEF WaitFfmpeg
<1>7. ASSUME NEW q \in Requests, Open(q) PROVE ServedOf(r)'
  BY <1>7 DEF Open
<1>8. ASSUME NEW q \in Requests, SendChunk(q) PROVE ServedOf(r)'
  <2>1. CASE q = r /\ Alone(r)
    <3>1. pos[r] + 1 \in 1..off[r] /\ holes[r] = FALSE
      BY <1>8, <2>1 DEF SendChunk
    <3>2. content[OutFile[r]][pos[r] + 1] = "written"
      BY <2>1, <3>1
    <3>3. holes'[r] = FALSE
      BY <1>8, <2>1, <3>1, <3>2 DEF SendChunk
    <3> QED
      BY <1>8, <2>1, <3>3 DEF SendChunk
  <2>2. CASE ~(q = r /\ Alone(r))
    BY <1>8, <2>2 DEF SendChunk
  <2> QED
    BY <2>1, <2>2
<1>9. ASSUME NEW q \in Requests, EndResponse(q) PROVE ServedOf(r)'
  BY <1>9 DEF EndResponse
<1>10. ASSUME NEW q \in Requests, FfOpen(q) PROVE ServedOf(r)'
  BY <1>10 DEF FfOpen
<1>11. ASSUME NEW q \in Requests, FfWrite(q) PROVE ServedOf(r)'
  BY <1>11 DEF FfWrite
<1>12. ASSUME NEW q \in Requests, FfExit(q) PROVE ServedOf(r)'
  BY <1>12 DEF FfExit
<1>13. ASSUME NEW q \in Requests, FfFail(q) PROVE ServedOf(r)'
  BY <1>13 DEF FfFail
<1>14. CASE UNCHANGED vars
  BY <1>14 DEF vars
<1> QED
  BY <1>1, <1>2, <1>3, <1>4, <1>5, <1>6, <1>7, <1>8, <1>9, <1>10,
     <1>11, <1>12, <1>13, <1>14 DEF Next

\* Whoever truncates a file also writes all of it, or fails.
LEMMA ChunksStep ==
  IInv /\ [Next]_vars => \A f \in present' : ChunksOf(f)'
<1> SUFFICES ASSUME IInv, [Next]_vars, NEW f \in present' PROVE ChunksOf(f)'
  OBVIOUS
<1> TypeOK /\ (\A r \in Requests : ProcessesOf(r)) /\ (f \in present => ChunksOf(f))
  BY DEF IInv
<1> USE FileAssumption, SizeAssumption DEF TypeOK, ChunksOf, Over, Chunk, disk, serving
<1>1. ASSUME NEW q \in Requests, LookPath(q) PROVE ChunksOf(f)'
  BY <1>1 DEF LookPath
<1>2. ASSUME NEW q \in Requests, Fatal(q) PROVE ChunksOf(f)'
  BY <1>2 DEF Fatal
<1>3. ASSUME NEW q \in Requests, StartFfmpeg(q) PROVE ChunksOf(f)'
  <2>1. CASE \E s \in failed : OutFile[s] = f
    BY <1>3, <2>1 DEF StartFfmpeg
  <2>2. CASE ~\E s \in failed : OutFile[s] = f
    <3>1. f \in present /\ content' = content /\ off' = off /\ ff[q] = "none"
      BY <1>3 DEF StartFfmpeg, ProcessesOf
    <3>2. \A s \in Requests : ff[s] = "open" => ff'[s] = "open"
      BY <1>3, <3>1 DEF StartFfmpeg
    <3> QED
      BY <2>2, <3>1, <3>2
  <2> QED
    BY <2>1, <2>2
<1>4. ASSUME NEW q \in Requests, RunSox(q) PROVE ChunksOf(f)'
  BY <1>4 DEF RunSox
<1>5. ASSUME NEW q \in Requests, SoxEnds(q) PROVE ChunksOf(f)'
  BY <1>5 DEF SoxEnds
<1>6. ASSUME NEW q \in Requests, WaitFfmpeg(q) PROVE ChunksOf(f)'
  BY <1>6 DEF WaitFfmpeg
<1>7. ASSUME NEW q \in Requests, Open(q) PROVE ChunksOf(f)'
  BY <1>7 DEF Open
<1>8. ASSUME NEW q \in Requests, SendChunk(q) PROVE ChunksOf(f)'
  BY <1>8 DEF SendChunk
<1>9. ASSUME NEW q \in Requests, EndResponse(q) PROVE ChunksOf(f)'
  BY <1>9 DEF EndResponse
<1>10. ASSUME NEW q \in Requests, FfOpen(q) PROVE ChunksOf(f)'
  <2>1. CASE f = OutFile[q]
    <3>1. ff'[q] = "open" /\ off'[q] = 0
      BY <1>10 DEF FfOpen, ProcessesOf
    <3> QED
      BY <2>1, <3>1
  <2>2. CASE f # OutFile[q]
    <3>1. f \in present /\ f \in Files /\ content'[f] = content[f] /\ off' = off /\ failed' = failed
      BY <1>10, <2>2 DEF FfOpen
    <3>2. \A s \in Requests : ff[s] = "open" => ff'[s] = "open"
      BY <1>10 DEF FfOpen
    <3> QED
      BY <3>1, <3>2
  <2> QED
    BY <2>1, <2>2
<1>11. ASSUME NEW q \in Requests, FfWrite(q) PROVE ChunksOf(f)'
  BY <1>11 DEF FfWrite
<1>12. ASSUME NEW q \in Requests, FfExit(q) PROVE ChunksOf(f)'
  <2>1. CASE \E s \in failed : OutFile[s] = f
    BY <1>12, <2>1 DEF FfExit
  <2>2. CASE ~\E s \in failed : OutFile[s] = f
    <3>1. f \in present /\ content' = content /\ off' = off
      BY <1>12 DEF FfExit
    <3>2. \A s \in Requests \ {q} : ff'[s] = ff[s]
      BY <1>12 DEF FfExit
    <3>3. ff[q] = "open" /\ OutFile[q] = f => off[q] = NChunks
      BY <1>12, <2>2 DEF FfExit, ProcessesOf
    <3>4. ASSUME NEW k \in Chunk, content[f][k] # "written"
          PROVE \E s \in Requests : OutFile[s] = f /\ ff'[s] = "open" /\ off[s] < k
      <4>1. PICK s \in Requests : OutFile[s] = f /\ ff[s] = "open" /\ off[s] < k
        BY <2>2, <3>1, <3>4
      <4>2. s # q
        BY <3>3, <4>1
      <4> QED
        BY <3>2, <4>1, <4>2
    <3> QED
      BY <3>1, <3>4
  <2> QED
    BY <2>1, <2>2
<1>13. ASSUME NEW q \in Requests, FfFail(q) PROVE ChunksOf(f)'
  BY <1>13 DEF FfFail
<1>14. CASE UNCHANGED vars
  BY <1>14 DEF vars
<1> QED
  BY <1>1, <1>2, <1>3, <1>4, <1>5, <1>6, <1>7, <1>8, <1>9, <1>10,
     <1>11, <1>12, <1>13, <1>14 DEF Next

\* Such a response ends with the whole encoding.
LEMMA DeliveredStep == IInv /\ [Next]_vars => ServedWholeUnlessDisturbed'
<1> DEFINE Delivered(r) ==
      r \notin failed \cup disturbed /\ pc[r] \in {"done", "aborted", "notfound"} =>
        pc[r] = "done" /\ pos[r] = NChunks /\ ~holes[r]
<1> SUFFICES ASSUME IInv, [Next]_vars, NEW r \in Requests PROVE Delivered(r)'
  BY DEF ServedWholeUnlessDisturbed
<1> TypeOK /\ ProcessesOf(r) /\ (Alone(r) => FileOf(r)) /\ ServedOf(r) /\ Delivered(r)
  BY DEF IInv, ServedWholeUnlessDisturbed
<1> USE FileAssumption, SizeAssumption DEF TypeOK, ProcessesOf, Alone, FileOf, ServedOf, Over, Chunk, disk, serving
<1>1. ASSUME NEW q \in Requests, LookPath(q) PROVE Delivered(r)'
  BY <1>1 DEF LookPath
<1>2. ASSUME NEW q \in Requests, Fatal(q) PROVE Delivered(r)'
  BY <1>2 DEF Fatal
<1>3. ASSUME NEW q \in Requests, StartFfmpeg(q) PROVE Delivered(r)'
  BY <1>3 DEF StartFfmpeg
<1>4. ASSUME NEW q \in Requests, RunSox(q) PROVE Delivered(r)'
  BY <1>4 DEF RunSox
<1>5. ASSUME NEW q \in Requests, SoxEnds(q) PROVE Delivered(r)'
  BY <1>5 DEF SoxEnds
<1>6. ASSUME NEW q \in Requests, WaitFfmpeg(q) PROVE Delivered(r)'
  BY <1>6 DEF WaitFfmpeg
<1>7. ASSUME NEW q \in Requests, Open(q) PROVE Delivered(r)'
  BY <1>7 DEF Open
<1>8. ASSUME NEW q \in Requests, SendChunk(q) PROVE Delivered(r)'
  BY <1>8 DEF SendChunk
<1>9. ASSUME NEW q \in Requests, EndResponse(q) PROVE Delivered(r)'
  BY <1>9 DEF EndResponse
<1>10. ASSUME NEW q \in Requests, FfOpen(q) PROVE Delivered(r)'
  BY <1>10 DEF FfOpen
<1>11. ASSUME NEW q \in Requests, FfWrite(q) PROVE Delivered(r)'
  BY <1>11 DEF FfWrite
<1>12. ASSUME NEW q \in Requests, FfExit(q) PROVE Delivered(r)'
  BY <1>12 DEF FfExit
<1>13. ASSUME NEW q \in Requests, FfFail(q) PROVE Delivered(r)'
  BY <1>13 DEF FfFail
<1>14. CASE UNCHANGED vars
  BY <1>14 DEF vars
<1> QED
  BY <1>1, <1>2, <1>3, <1>4, <1>5, <1>6, <1>7, <1>8, <1>9, <1>10,
     <1>11, <1>12, <1>13, <1>14 DEF Next

\* The inductive invariant holds at the start and every step keeps it.
LEMMA InvInit == Init => IInv
<1> SUFFICES ASSUME Init PROVE IInv
  OBVIOUS
<1> USE FileAssumption, SizeAssumption DEF Init, Over, Chunk
<1>1. TypeOK
  BY DEF TypeOK
<1>2. \A r \in Requests : ProcessesOf(r) /\ ~Alone(r) /\ ServedOf(r)
  <2> TAKE r \in Requests
  <2>1. pc[r] = "idle" /\ ff[r] = "none" /\ audio[r] = 0 /\ off[r] = 0 /\ pos[r] = 0
    OBVIOUS
  <2>2. ~holes[r]
    BY Zenon
  <2> QED
    BY <2>1, <2>2 DEF ProcessesOf, Alone, ServedOf
<1>3. ServedWholeUnlessDisturbed
  BY DEF ServedWholeUnlessDisturbed
<1> QED
  BY <1>1, <1>2, <1>3 DEF IInv

\* The invariant is inductive.
LEMMA InvStep == IInv /\ [Next]_vars => IInv'
  BY TypeStep, ProcessesStep, FileStep, ServedStep, ChunksStep, DeliveredStep DEF IInv

\* In every reachable state: the processes of a request follow its handler, a
\* request that has its file to itself finds there what its own ffmpeg wrote, and
\* what a file lacks some ffmpeg has yet to write.
THEOREM Inductive == Spec => []IInv
  BY InvInit, InvStep, PTL DEF Spec

\* The handlers, the processes and the files are always in a state of their types.
THEOREM TypeCorrect == Spec => []TypeOK
<1>1. IInv => TypeOK
  BY DEF IInv
<1> QED
  BY <1>1, Inductive, PTL

\* DownloadAndEncode by any number of requests for the same audio at once: with
\* no failed process, a file of the clip directory that nobody has open is whole.
THEOREM FilesWhole == Spec => []SettledFilesWhole
<1>1. IInv => SettledFilesWhole
  <2> SUFFICES ASSUME IInv, NEW f \in present, NEW k \in Chunk, content[f][k] # "written"
               PROVE \E r \in Requests : OutFile[r] = f /\ (ff[r] = "open" \/ r \in failed)
    BY DEF SettledFilesWhole, Whole
  <2>1. failed \subseteq Requests
    BY DEF IInv, TypeOK
  <2> QED
    BY <2>1 DEF IInv, ChunksOf
<1> QED
  BY <1>1, Inductive, PTL

\* fullAudioHandler serves the whole audio, of the length it announces, to every
\* request without a failed process whose file no other one opened meanwhile,
\* whatever earlier requests, failed ones too, left under that name.
THEOREM ServedWhole == Spec => []ServedWholeUnlessDisturbed
<1>1. IInv => ServedWholeUnlessDisturbed
  BY DEF IInv
<1> QED
  BY <1>1, Inductive, PTL
================================================================================
