-------------------------- MODULE ClipDownloadProofs ---------------------------
(***************************************************************************)
(* Proofs about ClipDownload, for any number of requests, workers, clips   *)
(* and chunks, and with any number of crashes.  IInv is inductive; it is   *)
(* taken one conjunct at a time, each with the conjuncts it needs.         *)
(***************************************************************************)
EXTENDS ClipDownload, FiniteSetTheorems, TLAPS

USE ThreadAssumption, ClipAssumption, BoundAssumption

\* The pools are finite, so that their workers can be counted.
LEMMA PoolFinite ==
  ASSUME NEW r
  PROVE  IsFiniteSet(Pool(r)) /\ IsFiniteSet(Active(r))
<1>1. Pool(r) \subseteq Thread /\ Active(r) \subseteq Thread
  BY DEF Pool, Active
<1> QED
  BY <1>1, FS_Subset

\* One worker less leaves one less to count.
LEMMA OneLess ==
  ASSUME NEW S, IsFiniteSet(S), NEW x \in S
  PROVE  Cardinality(S \ {x}) = Cardinality(S) - 1
  BY FS_RemoveElement

\* A worker inside downloadUrlAndSave works on one of the clips.
LEMMA HoldsClip ==
  ASSUME TypeOK, ItemInv, NEW t \in Thread, wpc[t] \in {"stat", "create", "get", "copy"}
  PROVE  item[t] \in Clips /\ item[t] \in Need[Owner[t]] /\ Owner[t] \in Requests
  BY DEF ItemInv

\* Dropping the segment keeps the types of what a worker holds.
LEMMA NextItemTypes ==
  ASSUME TypeOK, NEW t \in Thread, NextItem(t)
  PROVE  /\ wpc' \in [Thread -> {"none", "recv", "stat", "create", "get", "copy", "exited"}]
         /\ item' \in [Thread -> Clips \cup {NoClip}]
         /\ body' \in [Thread -> {"clip", "junk"}]
         /\ off' \in [Thread -> 0..NChunks]
<1>1. 0 \in 0..NChunks
  OBVIOUS
<1> QED
  BY <1>1 DEF NextItem, TypeOK

\* Types are kept; that the WaitGroup counter never goes below zero needs PoolInv,
\* and that a worker creates and writes a clip needs ItemInv.
LEMMA TypeStep == TypeOK /\ PoolInv /\ ItemInv /\ [Next]_vars => TypeOK'
<1> SUFFICES ASSUME TypeOK, PoolInv, ItemInv, [Next]_vars PROVE TypeOK'
  OBVIOUS
<1> USE DEF TypeOK, disk
<1>1. ASSUME NEW r \in Requests, Start(r) PROVE TypeOK'
  <2>1. Cardinality(Pool(r)) \in Nat
    BY PoolFinite, FS_CardinalityType
  <2> QED
    BY <1>1, <2>1 DEF Start
<1>2. ASSUME NEW r \in Requests, Close(r) PROVE TypeOK'
  BY <1>2 DEF Close, AllSent
<1>3. ASSUME NEW r \in Requests, Return(r) PROVE TypeOK'
  BY <1>3 DEF Return, AllDone
<1>4. ASSUME NEW t \in Thread, NEW c \in Clips, Send(t, c) PROVE TypeOK'
  BY <1>4 DEF Send, CanSend
<1>5. ASSUME NEW t \in Thread, Exit(t) PROVE TypeOK'
  <2>1. t \in Active(Owner[t])
    BY <1>5 DEF Exit, NothingToReceive, Active, Pool
  <2>2. Owner[t] \in Requests /\ wg[Owner[t]] # 0
    BY <2>1, PoolFinite, FS_EmptySet DEF PoolInv, StageOf
  <2>3. wg[Owner[t]] - 1 \in Nat
    BY <2>2
  <2>4. wg' \in [Requests -> Nat]
    BY <1>5, <2>3 DEF Exit, NothingToReceive
  <2> QED
    BY <1>5, <2>4 DEF Exit, NothingToReceive
<1>6. ASSUME NEW t \in Thread, Stat(t) PROVE TypeOK'
  <2>1. CASE item[t] \in present
    BY <1>6, <2>1, NextItemTypes DEF Stat
  <2>2. CASE item[t] \notin present
    BY <1>6, <2>2 DEF Stat
  <2> QED
    BY <2>1, <2>2
<1>7. ASSUME NEW t \in Thread, Create(t) PROVE TypeOK'
  <2>1. item[t] \in Clips
    BY <1>7, HoldsClip DEF Create
  <2>2. content' \in [Clips -> [Chunk -> {"none", "clip", "junk"}]]
    BY <1>7, <2>1 DEF Create
  <2> QED
    BY <1>7, <2>1, <2>2 DEF Create
<1>8. ASSUME NEW t \in Thread, Get(t) PROVE TypeOK'
  <2>1. item[t] \in Clips
    BY <1>8, HoldsClip DEF Get
  <2>2. body' \in [Thread -> {"clip", "junk"}] /\ suspect' \in SUBSET Clips
    BY <1>8, <2>1 DEF Get
  <2> QED
    BY <1>8, <2>2 DEF Get
<1>9. ASSUME NEW t \in Thread, CopyChunk(t) PROVE TypeOK'
  <2>1. item[t] \in Clips /\ off[t] + 1 \in 0..NChunks
    BY <1>9, HoldsClip DEF CopyChunk
  <2>2. off' \in [Thread -> 0..NChunks]
    BY <1>9, <2>1 DEF CopyChunk
  <2>3. [content[item[t]] EXCEPT ![off[t] + 1] = body[t]]
        \in [Chunk -> {"none", "clip", "junk"}]
    BY <2>1
  <2>4. content' \in [Clips -> [Chunk -> {"none", "clip", "junk"}]]
    BY <1>9, <2>1, <2>3 DEF CopyChunk
  <2> QED
    BY <1>9, <2>2, <2>4 DEF CopyChunk
<1>10. ASSUME NEW t \in Thread, CopyEnd(t) PROVE TypeOK'
  BY <1>10, NextItemTypes DEF CopyEnd
<1>11. CASE Die
  <2>1. crashes' \in 0..MaxCrashes /\ suspect' \in SUBSET Clips
    BY <1>11 DEF Die
  <2>2. off' \in [Thread -> 0..NChunks]
    BY <1>11 DEF Die, LoseMemory
  <2> QED
    BY <1>11, <2>1, <2>2 DEF Die, LoseMemory
<1>12. CASE Restart
  BY <1>12 DEF Restart, WipeDisk
<1>13. CASE UNCHANGED vars
  BY <1>13 DEF vars, memory, disk
<1> QED
  BY <1>1, <1>2, <1>3, <1>4, <1>5, <1>6, <1>7, <1>8, <1>9, <1>10, <1>11, <1>12, <1>13 DEF Next, Panic, Kill

--------------------------------------------------------------------------------
(* The channel, the WaitGroup and the workers of a call *)

\* PoolInv sees of a worker only whether it was started and whether it exited.
LEMMA PoolKept ==
  ASSUME PoolInv, UNCHANGED <<up, call, unsent, closed, wg>>,
         \A t \in Thread : (wpc'[t] = "none") <=> (wpc[t] = "none"),
         \A t \in Thread : (wpc'[t] = "exited") <=> (wpc[t] = "exited")
  PROVE  PoolInv'
<1> SUFFICES ASSUME NEW r \in Requests PROVE StageOf(r)'
  BY DEF PoolInv
<1>1. Active(r)' = Active(r)
  BY DEF Active, Pool
<1>2. wg'[r] = Cardinality(Active(r)')
  BY <1>1 DEF PoolInv, StageOf
<1> QED
  BY <1>2 DEF PoolInv, StageOf, Pool

\* The counter of the WaitGroup, the channel and the workers stay in step.
LEMMA PoolStep == TypeOK /\ PoolInv /\ [Next]_vars => PoolInv'
<1> SUFFICES ASSUME TypeOK, PoolInv, [Next]_vars PROVE PoolInv'
  OBVIOUS
<1> USE DEF TypeOK, disk
<1>1. ASSUME NEW r \in Requests, Start(r) PROVE PoolInv'
  <2> SUFFICES ASSUME NEW q \in Requests PROVE StageOf(q)'
    BY DEF PoolInv, StageOf
  <2>1. CASE q = r
    <3>1. Active(r)' = Pool(r)
      BY <1>1 DEF Start, Active, Pool
    <3> QED
      BY <1>1, <2>1, <3>1 DEF Start, PoolInv, StageOf, Pool
  <2>2. CASE q # r
    <3>1. \A t \in Pool(q) : wpc'[t] = wpc[t]
      BY <1>1, <2>2 DEF Start, Pool
    <3>2. Active(q)' = Active(q)
      BY <3>1 DEF Active, Pool
    <3> QED
      BY <1>1, <2>2, <3>1, <3>2 DEF Start, PoolInv, StageOf, Pool
  <2> QED
    BY <2>1, <2>2
<1>2. ASSUME NEW r \in Requests, Close(r) PROVE PoolInv'
  <2>1. \A q \in Requests : Active(q)' = Active(q)
    BY <1>2 DEF Close, AllSent, Active, Pool
  <2> QED
    BY <1>2, <2>1 DEF Close, AllSent, PoolInv, StageOf, Pool
<1>3. ASSUME NEW r \in Requests, Return(r) PROVE PoolInv'
  <2>1. \A q \in Requests : Active(q)' = Active(q)
    BY <1>3 DEF Return, AllDone, Active, Pool
  <2>2. Active(r) = {}
    BY <1>3, PoolFinite, FS_EmptySet DEF Return, AllDone, PoolInv, StageOf
  <2>3. \A t \in Pool(r) : wpc[t] = "exited"
    BY <1>3, <2>2 DEF Return, AllDone, PoolInv, StageOf, Active, Pool
  <2> QED
    BY <1>3, <2>1, <2>3 DEF Return, AllDone, PoolInv, StageOf, Pool
<1>4. ASSUME NEW t \in Thread, NEW c \in Clips, Send(t, c) PROVE PoolInv'
  <2>1. \A q \in Requests : Active(q)' = Active(q)
    BY <1>4 DEF Send, CanSend, Active, Pool
  <2> QED
    BY <1>4, <2>1 DEF Send, CanSend, PoolInv, StageOf, Pool
<1>5. ASSUME NEW t \in Thread, Exit(t) PROVE PoolInv'
  <2> DEFINE r == Owner[t]
  <2>1. r \in Requests /\ t \in Active(r)
    BY <1>5 DEF Exit, NothingToReceive, Active, Pool
  <2>2. Active(r)' = Active(r) \ {t}
    BY <1>5 DEF Exit, NothingToReceive, Active, Pool
  <2>3. Cardinality(Active(r)') = wg[r] - 1
    <3>1. wg[r] = Cardinality(Active(r)) /\ IsFiniteSet(Active(r))
      BY <2>1, PoolFinite DEF PoolInv, StageOf
    <3>2. Cardinality(Active(r) \ {t}) = Cardinality(Active(r)) - 1
      BY <2>1, <3>1, OneLess
    <3> QED
      BY <2>2, <3>1, <3>2
  <2>4. call[r] = "waiting"
    BY <1>5, <2>1 DEF Exit, NothingToReceive, PoolInv, StageOf, Active, Pool
  <2>5. \A q \in Requests : q # r => Active(q)' = Active(q)
    BY <1>5 DEF Exit, NothingToReceive, Active, Pool
  <2> QED
    BY <1>5, <2>1, <2>3, <2>4, <2>5 DEF Exit, NothingToReceive, PoolInv, StageOf, Pool
<1>6. ASSUME NEW t \in Thread, Stat(t) PROVE PoolInv'
  BY <1>6, PoolKept DEF Stat, NextItem
<1>7. ASSUME NEW t \in Thread, Create(t) PROVE PoolInv'
  BY <1>7, PoolKept DEF Create
<1>8. ASSUME NEW t \in Thread, Get(t) PROVE PoolInv'
  BY <1>8, PoolKept DEF Get
<1>9. ASSUME NEW t \in Thread, CopyChunk(t) PROVE PoolInv'
  BY <1>9, PoolKept DEF CopyChunk
<1>10. ASSUME NEW t \in Thread, CopyEnd(t) PROVE PoolInv'
  BY <1>10, PoolKept DEF CopyEnd, NextItem
<1>11. CASE Die
  <2>1. \A q \in Requests : Active(q)' = {}
    BY <1>11 DEF Die, LoseMemory, Active, Pool
  <2> QED
    BY <1>11, <2>1, FS_EmptySet DEF Die, LoseMemory, PoolInv, StageOf, Pool
<1>12. CASE Restart
  <2>1. \A q \in Requests : Active(q)' = Active(q)
    BY <1>12 DEF Restart, Active, Pool
  <2> QED
    BY <1>12, <2>1 DEF Restart, PoolInv, StageOf, Pool
<1>13. CASE UNCHANGED vars
  BY <1>13, PoolKept DEF vars, memory
<1> QED
  BY <1>1, <1>2, <1>3, <1>4, <1>5, <1>6, <1>7, <1>8, <1>9, <1>10, <1>11, <1>12, <1>13
     DEF Next, Panic, Kill

--------------------------------------------------------------------------------
(* What the workers hold *)

\* A worker keeps the segment it was handed until downloadUrlAndSave returns.
LEMMA ItemStep == TypeOK /\ PoolInv /\ ItemInv /\ [Next]_vars => ItemInv'
<1> SUFFICES ASSUME TypeOK, PoolInv, ItemInv, [Next]_vars PROVE ItemInv'
  OBVIOUS
<1> USE DEF TypeOK, ItemInv, disk
<1>1. ASSUME NEW r \in Requests, Start(r) PROVE ItemInv'
  <2>1. \A t \in Thread : Owner[t] = r => wpc[t] = "none"
    BY <1>1 DEF Start, PoolInv, StageOf, Pool
  <2> QED
    BY <1>1, <2>1 DEF Start
<1>2. ASSUME NEW r \in Requests, Close(r) PROVE ItemInv'
  BY <1>2 DEF Close, AllSent
<1>3. ASSUME NEW r \in Requests, Return(r) PROVE ItemInv'
  BY <1>3 DEF Return, AllDone
<1>4. ASSUME NEW t \in Thread, NEW c \in Clips, Send(t, c) PROVE ItemInv'
  BY <1>4 DEF Send, CanSend
<1>5. ASSUME NEW t \in Thread, Exit(t) PROVE ItemInv'
  BY <1>5 DEF Exit, NothingToReceive
<1>6. ASSUME NEW t \in Thread, Stat(t) PROVE ItemInv'
  BY <1>6 DEF Stat, NextItem
<1>7. ASSUME NEW t \in Thread, Create(t) PROVE ItemInv'
  BY <1>7 DEF Create
<1>8. ASSUME NEW t \in Thread, Get(t) PROVE ItemInv'
  BY <1>8 DEF Get
<1>9. ASSUME NEW t \in Thread, CopyChunk(t) PROVE ItemInv'
  BY <1>9 DEF CopyChunk
<1>10. ASSUME NEW t \in Thread, CopyEnd(t) PROVE ItemInv'
  BY <1>10 DEF CopyEnd, NextItem
<1>11. CASE Die
  BY <1>11 DEF Die, LoseMemory
<1>12. CASE Restart
  <2>1. \A t \in Thread : wpc[t] = "none"
    BY <1>12 DEF Restart, PoolInv, StageOf, Pool
  <2> QED
    BY <1>12, <2>1 DEF Restart
<1>13. CASE UNCHANGED vars
  BY <1>13 DEF vars, memory
<1> QED
  BY <1>1, <1>2, <1>3, <1>4, <1>5, <1>6, <1>7, <1>8, <1>9, <1>10, <1>11, <1>12, <1>13
     DEF Next, Panic, Kill

\* A segment is sent to one worker, and dropped only when its file exists.
LEMMA NoItemLostStep ==
  TypeOK /\ PoolInv /\ ItemInv /\ NoItemLost /\ [Next]_vars => NoItemLost'
<1> SUFFICES ASSUME TypeOK, PoolInv, ItemInv, NoItemLost, [Next]_vars PROVE NoItemLost'
  OBVIOUS
<1> USE DEF TypeOK, NoItemLost, Running, Pool, disk
<1>1. ASSUME NEW r \in Requests, Start(r) PROVE NoItemLost'
  <2>1. \A t \in Pool(r) : item[t] = NoClip
    BY <1>1 DEF Start, PoolInv, StageOf, ItemInv
  <2> QED
    BY <1>1, <2>1 DEF Start
<1>2. ASSUME NEW r \in Requests, Close(r) PROVE NoItemLost'
  BY <1>2 DEF Close, AllSent
<1>3. ASSUME NEW r \in Requests, Return(r) PROVE NoItemLost'
  BY <1>3 DEF Return, AllDone
<1>4. ASSUME NEW t \in Thread, NEW c \in Clips, Send(t, c) PROVE NoItemLost'
  <2>1. item[t] = NoClip
    BY <1>4 DEF Send, CanSend, ItemInv
  <2> QED
    BY <1>4, <2>1 DEF Send, CanSend
<1>5. ASSUME NEW t \in Thread, Exit(t) PROVE NoItemLost'
  BY <1>5 DEF Exit, NothingToReceive
<1>6. ASSUME NEW t \in Thread, Stat(t) PROVE NoItemLost'
  BY <1>6 DEF Stat, NextItem
<1>7. ASSUME NEW t \in Thread, Create(t) PROVE NoItemLost'
  BY <1>7 DEF Create
<1>8. ASSUME NEW t \in Thread, Get(t) PROVE NoItemLost'
  BY <1>8 DEF Get
<1>9. ASSUME NEW t \in Thread, CopyChunk(t) PROVE NoItemLost'
  BY <1>9 DEF CopyChunk
<1>10. ASSUME NEW t \in Thread, CopyEnd(t) PROVE NoItemLost'
  <2>1. item[t] \in present
    BY <1>10 DEF CopyEnd, ItemInv
  <2> QED
    BY <1>10, <2>1 DEF CopyEnd, NextItem
<1>11. CASE Die
  BY <1>11 DEF Die, LoseMemory
<1>12. CASE Restart
  <2>1. \A r \in Requests : call[r] = "none" /\ unsent[r] = {}
    BY <1>12 DEF Restart, PoolInv, StageOf
  <2> QED
    BY <1>12, <2>1 DEF Restart
<1>13. CASE UNCHANGED vars
  BY <1>13 DEF vars, memory
<1> QED
  BY <1>1, <1>2, <1>3, <1>4, <1>5, <1>6, <1>7, <1>8, <1>9, <1>10, <1>11, <1>12, <1>13
     DEF Next, Panic, Kill

\* The last worker to exit leaves no segment behind, and files are not removed
\* while a process runs.
LEMMA ReturnedStep ==
  TypeOK /\ PoolInv /\ ItemInv /\ NoItemLost /\ ReturnedClipsExist /\ [Next]_vars
    => ReturnedClipsExist'
<1> SUFFICES ASSUME TypeOK, PoolInv, ItemInv, NoItemLost, ReturnedClipsExist, [Next]_vars
             PROVE  ReturnedClipsExist'
  OBVIOUS
<1> USE DEF TypeOK, ReturnedClipsExist, disk
<1>1. ASSUME NEW r \in Requests, Start(r) PROVE ReturnedClipsExist'
  BY <1>1 DEF Start
<1>2. ASSUME NEW r \in Requests, Close(r) PROVE ReturnedClipsExist'
  BY <1>2 DEF Close, AllSent
<1>3. ASSUME NEW r \in Requests, Return(r) PROVE ReturnedClipsExist'
  <2>1. Active(r) = {} /\ call[r] = "waiting" /\ unsent[r] = {}
    BY <1>3, PoolFinite, FS_EmptySet DEF Return, AllDone, PoolInv, StageOf
  <2>2. \A t \in Pool(r) : item[t] = NoClip
    BY <2>1 DEF Active, ItemInv, Pool
  <2>3. Need[r] \subseteq present
    BY <2>1, <2>2 DEF NoItemLost, Running
  <2> QED
    BY <1>3, <2>3 DEF Return, AllDone
<1>4. ASSUME NEW t \in Thread, NEW c \in Clips, Send(t, c) PROVE ReturnedClipsExist'
  BY <1>4 DEF Send, CanSend
<1>5. ASSUME NEW t \in Thread, Exit(t) PROVE ReturnedClipsExist'
  BY <1>5 DEF Exit, NothingToReceive
<1>6. ASSUME NEW t \in Thread, Stat(t) PROVE ReturnedClipsExist'
  BY <1>6 DEF Stat
<1>7. ASSUME NEW t \in Thread, Create(t) PROVE ReturnedClipsExist'
  BY <1>7 DEF Create
<1>8. ASSUME NEW t \in Thread, Get(t) PROVE ReturnedClipsExist'
  BY <1>8 DEF Get
<1>9. ASSUME NEW t \in Thread, CopyChunk(t) PROVE ReturnedClipsExist'
  BY <1>9 DEF CopyChunk
<1>10. ASSUME NEW t \in Thread, CopyEnd(t) PROVE ReturnedClipsExist'
  BY <1>10 DEF CopyEnd
<1>11. CASE Die
  BY <1>11 DEF Die, LoseMemory
<1>12. CASE Restart
  BY <1>12 DEF Restart, PoolInv, StageOf
<1>13. CASE UNCHANGED vars
  BY <1>13 DEF vars, memory
<1> QED
  BY <1>1, <1>2, <1>3, <1>4, <1>5, <1>6, <1>7, <1>8, <1>9, <1>10, <1>11, <1>12, <1>13
     DEF Next, Panic, Kill

--------------------------------------------------------------------------------
(* What the files hold *)

\* A chunk that is missing from a file is one that some worker has yet to write.
LEMMA ChunkStep ==
  TypeOK /\ PoolInv /\ ItemInv /\ ChunkInv /\ [Next]_vars => ChunkInv'
<1> SUFFICES ASSUME TypeOK, PoolInv, ItemInv, ChunkInv, [Next]_vars PROVE ChunkInv'
  OBVIOUS
<1> USE DEF TypeOK, ChunkInv, disk
<1>1. ASSUME NEW r \in Requests, Start(r) PROVE ChunkInv'
  <2>1. \A t \in Thread : Owner[t] = r => wpc[t] = "none"
    BY <1>1 DEF Start, PoolInv, StageOf, Pool
  <2> QED
    BY <1>1, <2>1 DEF Start
<1>2. ASSUME NEW r \in Requests, Close(r) PROVE ChunkInv'
  BY <1>2 DEF Close, AllSent
<1>3. ASSUME NEW r \in Requests, Return(r) PROVE ChunkInv'
  BY <1>3 DEF Return, AllDone
<1>4. ASSUME NEW t \in Thread, NEW c \in Clips, Send(t, c) PROVE ChunkInv'
  BY <1>4 DEF Send, CanSend
<1>5. ASSUME NEW t \in Thread, Exit(t) PROVE ChunkInv'
  BY <1>5 DEF Exit, NothingToReceive
<1>6. ASSUME NEW t \in Thread, Stat(t) PROVE ChunkInv'
  BY <1>6 DEF Stat, NextItem
<1>7. ASSUME NEW t \in Thread, Create(t) PROVE ChunkInv'
  \* The creator of c has all of it to write; the other files are as before.
  <2>1. item[t] \in Clips /\ item' = item /\ wpc'[t] = "get"
    BY <1>7, HoldsClip DEF Create
  <2> SUFFICES ASSUME NEW c \in (present \ suspect)', NEW k \in Chunk
               PROVE  \/ content'[c][k] = "clip"
                      \/ \E u \in Thread :
                           /\ item'[u] = c
                           /\ \/ wpc'[u] = "get"
                              \/ wpc'[u] = "copy" /\ body'[u] = "clip" /\ off'[u] < k
    OBVIOUS
  <2>2. CASE c = item[t]
    BY <2>1, <2>2
  <2>3. CASE c # item[t]
    <3>1. c \in present \ suspect /\ content'[c] = content[c]
      BY <1>7, <2>1, <2>3 DEF Create
    <3> QED
      BY <1>7, <3>1 DEF Create
  <2> QED
    BY <2>2, <2>3
<1>8. ASSUME NEW t \in Thread, Get(t) PROVE ChunkInv'
  <2>1. off[t] = 0 /\ \A k \in Chunk : off[t] < k
    BY <1>8 DEF Get, ItemInv, Chunk
  <2>2. CASE body' = [body EXCEPT ![t] = "clip"] /\ UNCHANGED suspect
    BY <1>8, <2>1, <2>2 DEF Get
  <2>3. CASE suspect' = suspect \cup {item[t]} /\ body' = [body EXCEPT ![t] = "junk"]
    BY <1>8, <2>3 DEF Get
  <2> QED
    BY <1>8, <2>2, <2>3 DEF Get
<1>9. ASSUME NEW t \in Thread, CopyChunk(t) PROVE ChunkInv'
  <2>1. /\ item[t] \in Clips /\ off[t] + 1 \in Chunk
        /\ body[t] = "junk" => item[t] \in suspect
    BY <1>9, HoldsClip DEF CopyChunk, ItemInv, Chunk
  <2> SUFFICES ASSUME NEW c \in present \ suspect, NEW k \in Chunk
               PROVE  \/ content'[c][k] = "clip"
                      \/ \E u \in Thread :
                           /\ item'[u] = c
                           /\ \/ wpc'[u] = "get"
                              \/ wpc'[u] = "copy" /\ body'[u] = "clip" /\ off'[u] < k
    BY <1>9 DEF CopyChunk
  <2>2. CASE c = item[t] /\ k = off[t] + 1
    BY <1>9, <2>1, <2>2 DEF CopyChunk
  <2>3. CASE c # item[t] \/ k # off[t] + 1
    <3>1. content'[c][k] = content[c][k]
      BY <1>9, <2>1, <2>3 DEF CopyChunk
    <3>2. item[t] = c => (off[t] < k => off'[t] < k)
      BY <1>9, <2>3 DEF CopyChunk, Chunk
    <3> QED
      BY <1>9, <3>1, <3>2 DEF CopyChunk
  <2> QED
    BY <2>2, <2>3
<1>10. ASSUME NEW t \in Thread, CopyEnd(t) PROVE ChunkInv'
  <2>1. body[t] = "junk" \/ \A k \in Chunk : ~(off[t] < k)
    BY <1>10 DEF CopyEnd, Chunk
  <2> QED
    BY <1>10, <2>1 DEF CopyEnd, NextItem
<1>11. CASE Die
  <2> SUFFICES ASSUME NEW c \in (present \ suspect)', NEW k \in Chunk
               PROVE  content[c][k] = "clip"
    BY <1>11 DEF Die
  <2>1. c \in present \ suspect /\ (Whole(c) \/ \A t \in Thread : ~Writing(t, c))
    BY <1>11 DEF Die
  <2> QED
    BY <2>1 DEF Whole, Writing
<1>12. CASE Restart
  BY <1>12 DEF Restart, WipeDisk
<1>13. CASE UNCHANGED vars
  BY <1>13 DEF vars, memory
<1> QED
  BY <1>1, <1>2, <1>3, <1>4, <1>5, <1>6, <1>7, <1>8, <1>9, <1>10, <1>11, <1>12, <1>13
     DEF Next, Panic, Kill

--------------------------------------------------------------------------------
(* The invariants *)

\* The invariant holds when the process starts on an empty disk.
LEMMA InvInit == Init => IInv
<1> SUFFICES ASSUME Init PROVE IInv
  OBVIOUS
<1> USE DEF Init, NoCalls, EmptyDisk
<1>1. TypeOK
  BY DEF TypeOK
<1>2. PoolInv
  <2>1. \A r \in Requests : Active(r) = {}
    BY DEF Active, Pool
  <2> QED
    BY <2>1, FS_EmptySet DEF PoolInv, StageOf, Pool
<1>3. ItemInv
  BY DEF ItemInv
<1>4. NoItemLost /\ ReturnedClipsExist /\ ChunkInv
  BY DEF NoItemLost, ReturnedClipsExist, ChunkInv, Running, Pool
<1> QED
  BY <1>1, <1>2, <1>3, <1>4 DEF IInv

\* The invariant is inductive.
LEMMA InvStep == IInv /\ [Next]_vars => IInv'
  BY TypeStep, PoolStep, ItemStep, NoItemLostStep, ReturnedStep, ChunkStep DEF IInv

\* Whatever the requests, workers, clips, chunks and crashes, the calls, the
\* channel, the counter, the workers and the files stay in step (util.go:37-80).
THEOREM Inductive == Spec => []IInv
  BY InvInit, InvStep, PTL DEF Spec

\* The types are right: in particular wg.Done() never takes the counter of the
\* WaitGroup below zero, which would panic (util.go:45).
THEOREM TypeCorrect == Spec => []TypeOK
<1>1. IInv => TypeOK
  BY DEF IInv
<1> QED
  BY <1>1, Inductive, PTL

\* No segment is lost or handed out twice (util.go:46-48 and 52-57).
THEOREM ItemsAccountedFor == Spec => []NoItemLost
<1>1. IInv => NoItemLost
  BY DEF IInv
<1> QED
  BY <1>1, Inductive, PTL

\* When DownloadAllAudio returns, the files of all its segments exist
\* (util.go:58-59).
THEOREM ClipsExist == Spec => []ReturnedClipsExist
<1>1. IInv => ReturnedClipsExist
  BY DEF IInv
<1> QED
  BY <1>1, Inductive, PTL

\* A file nobody writes is the whole clip, however many workers wrote it at once,
\* unless a response or a crash spoiled it (util.go:70-77).
THEOREM SettledWhole == Spec => []SettledClipsWhole
<1>1. IInv => SettledClipsWhole
  BY DEF IInv, ChunkInv, SettledClipsWhole, Whole, Writing
<1> QED
  BY <1>1, Inductive, PTL

\* A call that returned has whole clips, but for those another call is writing
\* at this moment (util.go:65-66).
THEOREM ReturnedWhole == Spec => []ReturnedClipsWholeOrShared
<1>1. IInv => ReturnedClipsWholeOrShared
  <2> SUFFICES ASSUME IInv, NEW r \in Requests, call[r] = "returned",
                      NEW c \in Need[r] \ suspect, ~Whole(c)
               PROVE  \E t \in Thread \ Pool(r) : Writing(t, c)
    BY DEF ReturnedClipsWholeOrShared
  <2>1. c \in present
    BY DEF IInv, ReturnedClipsExist
  <2>2. PICK t \in Thread : Writing(t, c)
    BY <2>1 DEF IInv, ChunkInv, Whole, Writing
  <2>3. t \notin Pool(r)
    BY <2>2 DEF IInv, PoolInv, StageOf, Writing
  <2> QED
    BY <2>2, <2>3
<1> QED
  BY <1>1, Inductive, PTL

\* A file that no worker is about to write never changes again: nothing repairs a
\* clip that a crash or a wrong response left damaged (util.go:65-68).
THEOREM SettledFinal == Spec => SettledClipsFinal
<1>1. ASSUME TypeOK, ItemInv, [Next]_vars, NEW c \in Clips, Settled(c), ~WipeDisk
      PROVE  Settled(c)' /\ content'[c] = content[c]
  <2> DEFINE Final == Settled(c)' /\ content'[c] = content[c]
  <2> USE DEF TypeOK, disk, Settled
  <2>1. ASSUME NEW r \in Requests, Start(r) \/ Close(r) \/ Return(r) PROVE Final
    <3>1. UNCHANGED <<disk, item>>
      BY <2>1 DEF Start, Close, AllSent, Return, AllDone
    <3>2. \A t \in Thread : wpc'[t] = wpc[t] \/ wpc'[t] = "recv"
      BY <2>1 DEF Start, Close, AllSent, Return, AllDone
    <3> QED
      BY <1>1, <3>1, <3>2
  <2>2. ASSUME NEW t \in Thread, NEW d \in Clips, Send(t, d) PROVE Final
    BY <1>1, <2>2 DEF Send, CanSend
  <2>3. ASSUME NEW t \in Thread, Exit(t) PROVE Final
    BY <1>1, <2>3 DEF Exit, NothingToReceive
  <2>4. ASSUME NEW t \in Thread, Stat(t) PROVE Final
    BY <1>1, <2>4 DEF Stat, NextItem
  <2>5. ASSUME NEW t \in Thread, Create(t) PROVE Final
    BY <1>1, <2>5 DEF Create
  <2>6. ASSUME NEW t \in Thread, Get(t) PROVE Final
    BY <1>1, <2>6 DEF Get
  <2>7. ASSUME NEW t \in Thread, CopyChunk(t) PROVE Final
    BY <1>1, <2>7 DEF CopyChunk
  <2>8. ASSUME NEW t \in Thread, CopyEnd(t) PROVE Final
    BY <1>1, <2>8 DEF CopyEnd, NextItem
  <2>9. CASE Die
    BY <1>1, <2>9 DEF Die, LoseMemory
  <2>10. CASE Restart
    BY <1>1, <2>10 DEF Restart
  <2>11. CASE UNCHANGED vars
    BY <1>1, <2>11 DEF vars, memory
  <2> QED
    BY <1>1, <2>1, <2>2, <2>3, <2>4, <2>5, <2>6, <2>7, <2>8, <2>9, <2>10, <2>11
       DEF Next, Panic, Kill
<1>2. IInv /\ [Next]_vars =>
        [\A c \in Clips : Settled(c) /\ ~WipeDisk
           => Settled(c)' /\ content'[c] = content[c]]_vars
  BY <1>1 DEF IInv
<1> QED
  BY <1>2, Inductive, PTL DEF Spec, SettledClipsFinal

--------------------------------------------------------------------------------
(* ClipDownload implements ParallelFor *)

\* A step that moves no call and leaves what is still to do alone is invisible.
LEMMA Stutter ==
  ASSUME UNCHANGED call, \A r \in Requests : TodoOf(r)' = TodoOf(r)
  PROVE  UNCHANGED Abstract!vars
  BY DEF Abstract!vars, PhaseOf, Running

\* Dropping a segment whose file exists is the abstract Handle.
LEMMA DropHandles ==
  ASSUME IInv, NEW t \in Thread, NextItem(t), UNCHANGED <<call, unsent>>,
         wpc[t] \in {"stat", "copy"}
  PROVE  Abstract!Handle(Owner[t], item[t])
<1> DEFINE r == Owner[t]
           c == item[t]
<1> USE DEF IInv, TypeOK
<1>1. r \in Requests /\ c \in Clips /\ c \in Need[r]
  BY HoldsClip
<1>2. Running(r)
  BY <1>1 DEF PoolInv, StageOf, Pool, Running
<1>3. c \notin unsent[r] /\ \A u \in Pool(r) : item[u] = c => u = t
  BY <1>1 DEF NoItemLost, Pool
<1>4. \A u \in Thread : item'[u] = IF u = t THEN NoClip ELSE item[u]
  BY DEF NextItem
<1>5. TodoOf(r)' = TodoOf(r) \ {c} /\ c \in TodoOf(r)
  BY <1>1, <1>3, <1>4 DEF TodoOf, Pool
<1>6. \A q \in Requests : q # r => TodoOf(q)' = TodoOf(q)
  BY <1>4 DEF TodoOf, Pool
<1>7. \A q \in Requests : PhaseOf(q)' = PhaseOf(q)
  BY DEF PhaseOf, Running
<1> HIDE DEF r, c, IInv, TypeOK
<1>8. PhaseOf(r) = "running"
  BY <1>2 DEF PhaseOf, Running
<1>9. Abstract!Handle(r, c)
  BY <1>1, <1>5, <1>6, <1>7, <1>8 DEF Abstract!Handle
<1> QED
  BY <1>9 DEF r, c

\* Every step of the workers is a step of ParallelFor or leaves it alone.
LEMMA StepRefines == IInv /\ [Next]_vars => [Abstract!Next]_(Abstract!vars)
<1> SUFFICES ASSUME IInv, [Next]_vars PROVE [Abstract!Next]_(Abstract!vars)
  OBVIOUS
<1> USE DEF IInv, TypeOK
<1>1. ASSUME NEW r \in Requests, Start(r) PROVE Abstract!Begin(r)
  <2>1. \A t \in Pool(r) : item[t] = NoClip
    BY <1>1 DEF Start, PoolInv, StageOf, ItemInv, Pool
  <2>2. \A q \in Requests : TodoOf(q)' = IF q = r THEN Need[r] ELSE TodoOf(q)
    BY <1>1, <2>1 DEF Start, TodoOf
  <2>3. \A q \in Requests : PhaseOf(q)' = IF q = r THEN "running" ELSE PhaseOf(q)
    BY <1>1 DEF Start, PhaseOf, Running
  <2>4. PhaseOf(r) = "idle"
    BY <1>1 DEF Start, PhaseOf, Running
  <2> QED
    BY <2>2, <2>3, <2>4 DEF Abstract!Begin
<1>2. ASSUME NEW r \in Requests, Close(r) PROVE UNCHANGED Abstract!vars
  <2>1. \A q \in Requests : TodoOf(q)' = TodoOf(q)
    BY <1>2 DEF Close, AllSent, TodoOf
  <2>2. \A q \in Requests : PhaseOf(q)' = PhaseOf(q)
    BY <1>2 DEF Close, AllSent, PhaseOf, Running
  <2> QED
    BY <2>1, <2>2 DEF Abstract!vars
<1>3. ASSUME NEW r \in Requests, Return(r) PROVE Abstract!Return(r)
  <2>1. Active(r) = {} /\ unsent[r] = {}
    BY <1>3, PoolFinite, FS_EmptySet DEF Return, AllDone, PoolInv, StageOf
  <2>2. TodoOf(r) = {}
    BY <2>1 DEF TodoOf, Active, ItemInv, Pool
  <2>3. \A q \in Requests : TodoOf(q)' = TodoOf(q)
    BY <1>3 DEF Return, AllDone, TodoOf
  <2>4. \A q \in Requests : PhaseOf(q)' = IF q = r THEN "returned" ELSE PhaseOf(q)
    BY <1>3 DEF Return, AllDone, PhaseOf, Running
  <2>5. PhaseOf(r) = "running"
    BY <1>3 DEF Return, AllDone, PhaseOf, Running
  <2> QED
    BY <2>2, <2>3, <2>4, <2>5 DEF Abstract!Return
<1>4. ASSUME NEW t \in Thread, NEW c \in Clips, Send(t, c) PROVE UNCHANGED Abstract!vars
  <2>1. item[t] = NoClip
    BY <1>4 DEF Send, CanSend, ItemInv
  <2>2. \A u \in Thread : item'[u] = IF u = t THEN c ELSE item[u]
    BY <1>4 DEF Send, CanSend
  <2>3. ASSUME NEW q \in Requests PROVE TodoOf(q)' = TodoOf(q)
    <3>1. CASE q = Owner[t]
      BY <1>4, <2>1, <2>2, <3>1 DEF Send, CanSend, TodoOf, Pool
    <3>2. CASE q # Owner[t]
      BY <1>4, <2>2, <3>2 DEF Send, CanSend, TodoOf, Pool
    <3> QED
      BY <3>1, <3>2
  <2> QED
    BY <1>4, <2>3, Stutter DEF Send, CanSend
<1>5. ASSUME NEW t \in Thread, Exit(t) \/ Create(t) \/ Get(t) \/ CopyChunk(t)
      PROVE  UNCHANGED Abstract!vars
  <2>1. UNCHANGED <<call, unsent, item>>
    BY <1>5 DEF Exit, NothingToReceive, Create, Get, CopyChunk
  <2> QED
    BY <2>1, Stutter DEF TodoOf
<1>6. ASSUME NEW t \in Thread, Stat(t)
      PROVE  UNCHANGED Abstract!vars \/ Abstract!Handle(Owner[t], item[t])
  <2>1. CASE item[t] \in present
    BY <1>6, <2>1, DropHandles DEF Stat
  <2>2. CASE item[t] \notin present
    <3>1. UNCHANGED <<call, unsent, item>>
      BY <1>6, <2>2 DEF Stat
    <3> QED
      BY <3>1, Stutter DEF TodoOf
  <2> QED
    BY <2>1, <2>2
<1>7. ASSUME NEW t \in Thread, CopyEnd(t) PROVE Abstract!Handle(Owner[t], item[t])
  BY <1>7, DropHandles DEF CopyEnd
<1>8. CASE Die
  <2>1. \A r \in Requests : TodoOf(r)' = {}
    <3>1. \A t \in Thread : item'[t] = NoClip
      BY <1>8 DEF Die, LoseMemory
    <3> QED
      BY <1>8, <3>1 DEF Die, LoseMemory, TodoOf, Pool
  <2>2. \A r \in Requests : PhaseOf(r)' = "idle"
    BY <1>8 DEF Die, LoseMemory, PhaseOf, Running
  <2> QED
    BY <2>1, <2>2 DEF Abstract!Die, Abstract!Next
<1>9. CASE Restart
  BY <1>9, Stutter DEF Restart, TodoOf
<1>10. CASE UNCHANGED vars
  BY <1>10, Stutter DEF vars, memory, TodoOf
<1>11. ASSUME NEW t \in Thread, Stat(t) \/ CopyEnd(t)
      PROVE  item[t] \in Clips /\ Owner[t] \in Requests
  BY <1>11, HoldsClip DEF Stat, CopyEnd
<1> QED
  BY <1>1, <1>2, <1>3, <1>4, <1>5, <1>6, <1>7, <1>8, <1>9, <1>10, <1>11
     DEF Next, Panic, Kill, Abstract!Next

\* DownloadAllAudio is a parallel loop: whatever the channel, the WaitGroup and
\* the workers do, it deals with every segment and returns only then
\* (util.go:37-60).
THEOREM Implements == Spec => ImplementsParallelFor
<1>1. Init => Abstract!Init
  BY DEF Init, NoCalls, Abstract!Init, PhaseOf, TodoOf, Running, Pool
<1> QED
  BY <1>1, StepRefines, Inductive, PTL DEF Spec, ImplementsParallelFor, Abstract!Spec

\* A call with work left that no goroutine of its own can do waits for a download:
\* the channel, close and the WaitGroup of util.go:37-60 never hold everybody up,
\* whatever the number of workers.
THEOREM BlockedByNetwork == Spec => []OnlyNetworkBlocks
<1>1. IInv => OnlyNetworkBlocks
  <2> SUFFICES ASSUME IInv, NEW r \in Requests, Running(r), ~GoesOn(r)
               PROVE  /\ \E t \in Pool(r) : Hung(t)
                      /\ Need[r] \subseteq present \/ \A t \in Pool(r) : Hung(t)
    BY DEF OnlyNetworkBlocks
  <2> TypeOK /\ StageOf(r) /\ ItemInv /\ NoItemLost
    BY DEF IInv, PoolInv
  <2>1. /\ ~AllSent(r) /\ ~AllDone(r)
        /\ \A t \in Pool(r) : /\ \A c \in Clips : ~CanSend(t, c)
                              /\ ~NothingToReceive(t)
                              /\ wpc[t] \notin {"stat", "create"}
    BY DEF GoesOn
  <2>2. \A t \in Pool(r) : t \in Thread /\ Owner[t] = r
    BY DEF Pool
  <2>3. \E t \in Pool(r) : TRUE
    BY PoolAssumption DEF Pool
  <2>4. CASE call[r] = "feeding"
    <3>1. PICK c \in Clips : c \in unsent[r]
      BY <2>1, <2>4 DEF AllSent, TypeOK
    <3>2. \A t \in Pool(r) : wpc[t] # "recv"
      BY <2>1, <2>2, <2>4, <3>1 DEF CanSend
    <3>3. \A t \in Pool(r) : Hung(t)
      BY <2>1, <2>2, <2>4, <3>2 DEF StageOf, TypeOK, Hung
    <3> QED
      BY <2>3, <3>3
  <2>5. CASE call[r] = "waiting"
    <3>1. Active(r) # {}
      BY <2>1, <2>5, FS_EmptySet DEF AllDone, StageOf
    <3>2. \A t \in Pool(r) : wpc[t] \in {"get", "copy", "exited"}
      BY <2>1, <2>2, <2>5 DEF NothingToReceive, StageOf, TypeOK
    <3>3. \E t \in Pool(r) : Hung(t)
      BY <3>1, <3>2 DEF Active, Hung
    <3>4. ASSUME NEW c \in Need[r], c \notin present PROVE FALSE
      <4>1. PICK t \in Pool(r) : item[t] = c
        BY <2>5, <3>4 DEF StageOf, NoItemLost
      <4>2. wpc[t] \in {"get", "copy"}
        BY <2>2, <3>2, <3>4, <4>1 DEF ItemInv
      <4> QED
        BY <2>2, <3>4, <4>1, <4>2 DEF ItemInv
    <3> QED
      BY <3>3, <3>4
  <2> QED
    BY <2>4, <2>5 DEF Running
<1> QED
  BY <1>1, Inductive, PTL
================================================================================
