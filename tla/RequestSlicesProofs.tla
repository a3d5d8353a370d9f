-------------------------- MODULE RequestSlicesProofs --------------------------
(***************************************************************************)
(* Proofs about RequestSlices and SliceTrims, for any table, any request   *)
(* and any order of the rows with one start.                               *)
(***************************************************************************)
EXTENDS SliceTrims, WellFoundedInduction, TLAPS

Ordered(ss) ==
  /\ \A i \in DOMAIN ss : ss[i].start >= 0
  /\ \A i, j \in DOMAIN ss : i < j => ss[i].start < ss[j].start

\* The sum of two ints is an int.
LEMMA PlusType ==
  ASSUME NEW a \in IntRange, NEW b \in IntRange
  PROVE  Plus(a, b) \in IntRange
  BY RowAssumption DEF Plus, IntRange

\* The fields of a row and of the slices of a sequence.
LEMMA RowFields ==
  ASSUME NEW r \in Row
  PROVE  r.start \in Int /\ r.end \in Int
  BY RowAssumption DEF Row, IntRange

\* The fields of a slice have their types.
LEMMA SliceFields ==
  ASSUME NEW ss \in Seq(Slice)
  PROVE  /\ DOMAIN ss = 1..Len(ss) /\ Len(ss) \in Nat
         /\ \A i \in DOMAIN ss :
              /\ ss[i] \in Slice
              /\ ss[i].start \in Int /\ ss[i].end \in Int
              /\ ss[i].segments \subseteq Row
<1>1. \A x \in Slice : x.start \in Int /\ x.end \in Int /\ x.segments \subseteq Row
  BY RowAssumption DEF Slice, IntRange
<1>2. \A i \in DOMAIN ss : ss[i] \in Slice
  OBVIOUS
<1> QED
  BY <1>1, <1>2

\* Putting a row into a slice changes its segments only.
LEMMA PutType ==
  ASSUME NEW slice \in Slice, NEW r \in Row
  PROVE  /\ Put(slice, r) \in Slice
         /\ Put(slice, r).start = slice.start
         /\ Put(slice, r).end = slice.end
         /\ Put(slice, r).segments = {s \in slice.segments : s.channel # r.channel} \cup {r}
  BY DEF Put, Slice

\* In slices with different starts the first one that fits is the only one.
LEMMA AddToFirstIs ==
  ASSUME NEW ss \in Seq(Slice), Ordered(ss), NEW r \in Row
  PROVE  /\ AddToFirst(ss, r) \in Seq(Slice)
         /\ DOMAIN AddToFirst(ss, r) = DOMAIN ss
         /\ Len(AddToFirst(ss, r)) = Len(ss)
         /\ \A i \in DOMAIN ss :
              AddToFirst(ss, r)[i] = IF Fits(ss[i], r) THEN Put(ss[i], r) ELSE ss[i]
<1>1. CASE \E i \in DOMAIN ss : Fits(ss[i], r)
  <2> DEFINE IsFirst(i) == Fits(ss[i], r) /\ \A j \in 1..(i - 1) : ~Fits(ss[j], r)
             first == CHOOSE i \in DOMAIN ss : IsFirst(i)
  <2>1. PICK k \in DOMAIN ss : Fits(ss[k], r)
    BY <1>1
  <2>2. \A j \in DOMAIN ss : Fits(ss[j], r) => j = k
    BY <2>1, SliceFields DEF Fits, Ordered
  <2>3. IsFirst(k)
    BY <2>1, <2>2
  <2>4. first \in DOMAIN ss /\ IsFirst(first)
    BY <2>3
  <2>5. AddToFirst(ss, r) = [ss EXCEPT ![first] = Put(@, r)]
    BY <1>1 DEF AddToFirst
  <2> HIDE DEF first
  <2>6. first = k
    BY <2>2, <2>4
  <2>7. Put(ss[k], r) \in Slice
    BY <2>1, PutType
  <2>8. AddToFirst(ss, r) = [ss EXCEPT ![k] = Put(ss[k], r)]
    BY <2>5, <2>6
  <2> QED
    BY <2>1, <2>2, <2>7, <2>8
<1>2. CASE ~\E i \in DOMAIN ss : Fits(ss[i], r)
  BY <1>2 DEF AddToFirst
<1> QED
  BY <1>1, <1>2

\* The slices with room for a row: the old ones first, in order, and the last
\* one starts where lastStart says.
LEMMA WithSliceForIs ==
  ASSUME TypeOK, CursorInv, SlicesInOrder, NEW r \in Row
  PROVE  LET ss == WithSliceFor(r)
             last == IF r.start > lastStart THEN r.start ELSE lastStart
         IN  /\ ss \in Seq(Slice)
             /\ Ordered(ss)
             /\ DOMAIN slices \subseteq DOMAIN ss
             /\ \A i \in DOMAIN slices : ss[i] = slices[i]
             /\ \A i \in DOMAIN ss \ DOMAIN slices :
                  ss[i] = [start |-> r.start, end |-> r.end, segments |-> {}]
             /\ r.start > lastStart => Len(ss) = Len(slices) + 1
             /\ ~(r.start > lastStart) => ss = slices
             /\ last = IF ss = <<>> THEN -1 ELSE ss[Len(ss)].start
<1> DEFINE new == [start |-> r.start, end |-> r.end, segments |-> {}]
<1> USE DEF TypeOK
<1>1. CASE r.start > lastStart
  <2>1. WithSliceFor(r) = Append(slices, new)
    BY <1>1 DEF WithSliceFor
  <2>2. new \in Slice
    BY DEF Slice, Row
  <2>3. \A i \in DOMAIN slices : slices[i].start < r.start
    BY <1>1, SliceFields, RowFields DEF CursorInv, SlicesInOrder
  <2>4. r.start >= 0
    <3>1. CASE slices = <<>>
      BY <1>1, <3>1, RowFields DEF CursorInv
    <3>2. CASE slices # <<>>
      <4>1. Len(slices) \in DOMAIN slices
        BY <3>2
      <4> QED
        BY <2>3, <4>1, SliceFields, RowFields DEF SlicesInOrder
    <3> QED
      BY <3>1, <3>2
  <2>5. Ordered(Append(slices, new))
    BY <2>2, <2>3, <2>4 DEF Ordered, SlicesInOrder
  <2> DEFINE ss == Append(slices, new)
  <2>6. /\ ss \in Seq(Slice) /\ Len(ss) = Len(slices) + 1 /\ ss[Len(ss)] = new
        /\ \A i \in DOMAIN slices : i \in DOMAIN ss /\ ss[i] = slices[i]
    BY <2>2
  <2>7. \A i \in DOMAIN ss \ DOMAIN slices : i = Len(ss)
    BY <2>6
  <2>8. ss # <<>>
    <3>1. Len(ss) # 0
      BY <2>6
    <3> HIDE DEF ss
    <3> QED
      BY <3>1
  <2> HIDE DEF new
  <2>9. WithSliceFor(r) = ss /\ Ordered(ss)
    BY <2>1, <2>5
  <2> HIDE DEF ss
  <2>10. new = [start |-> r.start, end |-> r.end, segments |-> {}]
    BY DEF new
  <2> QED
    BY <1>1, <2>6, <2>7, <2>8, <2>9, <2>10
<1>2. CASE ~(r.start > lastStart)
  BY <1>2 DEF WithSliceFor, CursorInv, SlicesInOrder, Ordered
<1> QED
  BY <1>1, <1>2

\* Only the empty sequence has the length 0.
LEMMA EmptyIsLenZero ==
  ASSUME NEW ss \in Seq(Slice)
  PROVE  Len(ss) = 0 <=> ss = <<>>
  OBVIOUS

\* What reading a row does to the slices: it joins those that fit, and a new
\* slice has it alone.
Joined(slice, r) == {s \in slice.segments : s.channel # r.channel} \cup {r}

\* What ScanRow does to the slices, in the terms of the lemmas on its two parts.
LEMMA ScanIs ==
  ASSUME TypeOK, CursorInv, SlicesInOrder, NEW r \in left, ScanRow(r)
  PROVE  /\ slices' \in Seq(Slice)
         /\ Ordered(slices')
         /\ \A i \in DOMAIN slices :
              /\ i \in DOMAIN slices'
              /\ slices'[i].start = slices[i].start
              /\ slices'[i].end = slices[i].end
              /\ slices'[i].segments =
                   IF Fits(slices[i], r) THEN Joined(slices[i], r) ELSE slices[i].segments
         /\ \A i \in DOMAIN slices' \ DOMAIN slices :
              /\ slices'[i].start = r.start
              /\ slices'[i].end = r.end
              /\ slices'[i].segments = {r}
         /\ r.start > lastStart => Len(slices') = Len(slices) + 1
         /\ ~(r.start > lastStart) => DOMAIN slices' = DOMAIN slices
         /\ lastStart' = IF slices' = <<>> THEN -1 ELSE slices'[Len(slices')].start
<1> DEFINE ss == WithSliceFor(r)
<1>1. r \in Row
  BY DEF TypeOK
<1>2. /\ ss \in Seq(Slice)
      /\ Ordered(ss)
      /\ DOMAIN slices \subseteq DOMAIN ss
      /\ \A i \in DOMAIN slices : ss[i] = slices[i]
      /\ \A i \in DOMAIN ss \ DOMAIN slices :
           ss[i] = [start |-> r.start, end |-> r.end, segments |-> {}]
      /\ r.start > lastStart => Len(ss) = Len(slices) + 1
      /\ ~(r.start > lastStart) => ss = slices
      /\ lastStart' = IF ss = <<>> THEN -1 ELSE ss[Len(ss)].start
  BY <1>1, WithSliceForIs DEF ScanRow
<1>3. slices' = AddToFirst(ss, r)
  BY DEF ScanRow
<1> HIDE DEF ss
<1>4. /\ slices' \in Seq(Slice)
      /\ DOMAIN slices' = DOMAIN ss
      /\ Len(slices') = Len(ss)
      /\ \A i \in DOMAIN ss :
           slices'[i] = IF Fits(ss[i], r) THEN Put(ss[i], r) ELSE ss[i]
  BY <1>1, <1>2, <1>3, AddToFirstIs
<1>5. \A i \in DOMAIN ss :
        /\ slices'[i].start = ss[i].start
        /\ slices'[i].end = ss[i].end
        /\ slices'[i].segments =
             IF Fits(ss[i], r) THEN Joined(ss[i], r) ELSE ss[i].segments
  <2> SUFFICES ASSUME NEW i \in DOMAIN ss
               PROVE  /\ slices'[i].start = ss[i].start
                      /\ slices'[i].end = ss[i].end
                      /\ slices'[i].segments =
                           IF Fits(ss[i], r) THEN Joined(ss[i], r) ELSE ss[i].segments
    OBVIOUS
  <2>1. ss[i] \in Slice
    BY <1>2, SliceFields
  <2>2. slices'[i] = IF Fits(ss[i], r) THEN Put(ss[i], r) ELSE ss[i]
    BY <1>4
  <2>3. /\ Put(ss[i], r).start = ss[i].start
        /\ Put(ss[i], r).end = ss[i].end
        /\ Put(ss[i], r).segments = Joined(ss[i], r)
    BY <1>1, <2>1, PutType DEF Joined
  <2> QED
    BY <2>2, <2>3
<1>6. Ordered(slices')
  BY <1>2, <1>4, <1>5 DEF Ordered
<1>7. \A i \in DOMAIN slices' \ DOMAIN slices :
        /\ slices'[i].start = r.start
        /\ slices'[i].end = r.end
        /\ slices'[i].segments = {r}
  <2> SUFFICES ASSUME NEW i \in DOMAIN ss \ DOMAIN slices
               PROVE  /\ slices'[i].start = r.start
                      /\ slices'[i].end = r.end
                      /\ slices'[i].segments = {r}
    BY <1>4
  <2>1. ss[i] = [start |-> r.start, end |-> r.end, segments |-> {}]
    BY <1>2
  <2>2. ss[i].start = r.start /\ ss[i].end = r.end /\ ss[i].segments = {}
    BY <2>1
  <2>3. Fits(ss[i], r) /\ Joined(ss[i], r) = {r}
    BY <2>2 DEF Fits, Joined
  <2> QED
    BY <1>5, <2>2, <2>3
<1>8. slices' = <<>> <=> ss = <<>>
  <2>1. (Len(slices') = 0 <=> slices' = <<>>) /\ (Len(ss) = 0 <=> ss = <<>>)
    BY <1>2, <1>4, EmptyIsLenZero
  <2> QED
    BY <1>4, <2>1
<1>9. lastStart' = IF slices' = <<>> THEN -1 ELSE slices'[Len(slices')].start
  <2>1. ss # <<>> => Len(ss) \in DOMAIN ss
    BY <1>2
  <2> QED
    BY <1>2, <1>4, <1>5, <1>8, <2>1
<1>10. \A i \in DOMAIN slices :
         /\ i \in DOMAIN slices'
         /\ slices'[i].start = slices[i].start
         /\ slices'[i].end = slices[i].end
         /\ slices'[i].segments =
              IF Fits(slices[i], r) THEN Joined(slices[i], r) ELSE slices[i].segments
  BY <1>2, <1>4, <1>5
<1> QED
  BY <1>2, <1>4, <1>6, <1>7, <1>9, <1>10

--------------------------------------------------------------------------------
(* Reading a row keeps each part of the invariant. *)

\* Scanning a row keeps the types.
LEMMA ScanType ==
  ASSUME TypeOK, CursorInv, SlicesInOrder, NEW r \in left, ScanRow(r)
  PROVE  TypeOK' /\ SlicesInOrder'
<1>1. slices' \in Seq(Slice) /\ Ordered(slices')
  BY ScanIs
<1>2. lastStart' \in -1..(IntLimit - 1)
  BY RowAssumption DEF ScanRow, TypeOK, Row, IntRange
<1> QED
  BY <1>1, <1>2 DEF ScanRow, TypeOK, SlicesInOrder, Ordered

\* Scanning a row moves the cursor forward, and the slices stay in order.
LEMMA ScanCursor ==
  ASSUME TypeOK, CursorInv, SlicesInOrder, NEW r \in left, ScanRow(r)
  PROVE  CursorInv'
<1>1. lastStart' = IF slices' = <<>> THEN -1 ELSE slices'[Len(slices')].start
  BY ScanIs
<1>2. Matching' = Matching /\ left' \subseteq left /\ left \subseteq Matching
  BY DEF ScanRow, Matching, Matches, reqEnd, CursorInv
<1>3. pc' = "scan"
  BY DEF ScanRow
<1>4. ASSUME NEW x \in left', slices' # <<>> PROVE x.start >= lastStart'
  <2>1. x \in left /\ r.start <= x.start /\ x.start \in Int /\ r.start \in Int
    BY <1>2, RowFields DEF ScanRow, NextRow, TypeOK
  <2>2. CASE r.start > lastStart
    BY <2>1, <2>2 DEF ScanRow
  <2>3. CASE ~(r.start > lastStart)
    <3>1. lastStart' = lastStart
      BY <2>3 DEF ScanRow
    <3>2. slices # <<>>
      <4>1. DOMAIN slices' = DOMAIN slices /\ slices' \in Seq(Slice)
        BY <2>3, ScanIs
      <4>2. Len(slices') = Len(slices)
        BY <4>1, SliceFields DEF TypeOK
      <4> QED
        BY <1>4, <4>1, <4>2, EmptyIsLenZero DEF TypeOK
    <3> QED
      BY <2>1, <3>1, <3>2 DEF CursorInv
  <2> QED
    BY <2>2, <2>3
<1> QED
  BY <1>1, <1>2, <1>3, <1>4 DEF CursorInv

\* Scanning a row puts it only where it belongs.
LEMMA ScanBelongs ==
  ASSUME TypeOK, CursorInv, SlicesInOrder, SegmentsBelong, OnePerChannel,
         NEW r \in left, ScanRow(r)
  PROVE  SegmentsBelong' /\ OnePerChannel'
<1>1. r \in Matching /\ r.url # NoUrl /\ Matching' = Matching
  BY DEF ScanRow, Matching, Matches, reqEnd, CursorInv
<1> SUFFICES ASSUME NEW i \in DOMAIN slices'
             PROVE  /\ slices'[i].segments # {}
                    /\ \A s \in slices'[i].segments :
                         /\ s \in Matching /\ s.url # NoUrl
                         /\ s.start = slices'[i].start /\ s.end = slices'[i].end
                    /\ \A s, t \in slices'[i].segments : s.channel = t.channel => s = t
  BY <1>1 DEF SegmentsBelong, OnePerChannel, Fits
<1>2. CASE i \in DOMAIN slices
  <2>1. /\ slices'[i].start = slices[i].start
        /\ slices'[i].end = slices[i].end
        /\ slices'[i].segments =
             IF Fits(slices[i], r) THEN Joined(slices[i], r) ELSE slices[i].segments
    BY <1>2, ScanIs
  <2>2. /\ slices[i].segments # {}
        /\ \A s \in slices[i].segments :
             /\ s \in Matching /\ s.url # NoUrl
             /\ s.start = slices[i].start /\ s.end = slices[i].end
        /\ \A s, t \in slices[i].segments : s.channel = t.channel => s = t
    BY <1>2 DEF SegmentsBelong, OnePerChannel
  <2>3. CASE Fits(slices[i], r)
    BY <1>1, <2>1, <2>2, <2>3 DEF Joined, Fits
  <2>4. CASE ~Fits(slices[i], r)
    BY <2>1, <2>2, <2>4 DEF Fits
  <2> QED
    BY <2>3, <2>4
<1>3. CASE i \notin DOMAIN slices
  <2>1. slices'[i].start = r.start /\ slices'[i].end = r.end /\ slices'[i].segments = {r}
    BY <1>3, ScanIs
  <2> QED
    BY <1>1, <2>1 DEF Fits
<1> QED
  BY <1>2, <1>3

\* A row keeps its place, or is overwritten by the row that is read; the row that
\* is read finds its slice, unless another one starts with it.
LEMMA ScanAccounts ==
  ASSUME TypeOK, CursorInv, SlicesInOrder, SegmentsBelong, RowsAccountedFor,
         NEW r \in left, ScanRow(r)
  PROVE  RowsAccountedFor'
<1> DEFINE In(x) == \E i \in DOMAIN slices' : x \in slices'[i].segments
<1>1. /\ Matching' = Matching /\ left' = left \ {r} /\ left \subseteq Matching
      /\ pc = "scan" /\ r \in Row /\ r.url # NoUrl
  BY DEF ScanRow, Matching, Matches, reqEnd, CursorInv, TypeOK
<1>2. \A i \in DOMAIN slices :
        /\ i \in DOMAIN slices'
        /\ slices'[i].start = slices[i].start
        /\ slices'[i].end = slices[i].end
        /\ slices'[i].segments =
             IF Fits(slices[i], r) THEN Joined(slices[i], r) ELSE slices[i].segments
  BY ScanIs
<1>3. ASSUME NEW x, NEW i \in DOMAIN slices, x \in slices[i].segments, x # r
      PROVE  In(x) \/ \E j \in DOMAIN slices' : r \in slices'[j].segments
                        /\ r.channel = x.channel /\ r.start = x.start /\ r.end = x.end
  <2>1. Fits(slices[i], x)
    BY <1>3 DEF SegmentsBelong, Fits
  <2> QED
    BY <1>2, <1>3, <2>1 DEF Joined, Fits
<1>4. ASSUME NEW x \in Matching \ left, x # r PROVE In(x) \/ Dropped(x)'
  <2>1. (\E i \in DOMAIN slices : x \in slices[i].segments) \/ Dropped(x)
    BY <1>1, <1>4 DEF RowsAccountedFor
  <2>2. CASE \E i \in DOMAIN slices : x \in slices[i].segments
    BY <1>3, <1>4, <2>2 DEF Dropped
  <2>3. CASE \E i \in DOMAIN slices : slices[i].start = x.start /\ slices[i].end # x.end
    BY <1>2, <2>3 DEF Dropped
  <2>4. CASE \E i \in DOMAIN slices : \E s \in slices[i].segments :
               s # x /\ s.channel = x.channel /\ s.start = x.start /\ s.end = x.end
    <3>1. PICK i \in DOMAIN slices : \E s \in slices[i].segments :
            s # x /\ s.channel = x.channel /\ s.start = x.start /\ s.end = x.end
      BY <2>4
    <3>2. PICK s \in slices[i].segments :
            s # x /\ s.channel = x.channel /\ s.start = x.start /\ s.end = x.end
      BY <3>1
    <3>3. CASE s = r
      <4>1. Fits(slices[i], r)
        BY <3>2, <3>3 DEF SegmentsBelong, Fits
      <4>2. r \in slices'[i].segments /\ i \in DOMAIN slices'
        BY <1>2, <4>1 DEF Joined
      <4> QED
        BY <1>4, <3>2, <3>3, <4>2 DEF Dropped
    <3>4. CASE s # r
      <4>1. \E t, j : /\ j \in DOMAIN slices' /\ t \in slices'[j].segments /\ t # x
                      /\ t.channel = x.channel /\ t.start = x.start /\ t.end = x.end
        BY <1>3, <1>4, <3>2, <3>4
      <4> QED
        BY <4>1 DEF Dropped
    <3> QED
      BY <3>3, <3>4
  <2>5. CASE x.url = NoUrl \/ x.start < 0
    BY <2>5 DEF Dropped
  <2> QED
    BY <2>1, <2>2, <2>3, <2>4, <2>5 DEF Dropped
<1>5. In(r) \/ Dropped(r)'
  <2>1. CASE r.start > lastStart
    <3>1. Len(slices') = Len(slices) + 1 /\ slices' \in Seq(Slice)
      BY <2>1, ScanIs
    <3>2. Len(slices') \in DOMAIN slices' \ DOMAIN slices
      BY <3>1, SliceFields DEF TypeOK
    <3>3. slices'[Len(slices')].segments = {r}
      BY <3>2, ScanIs
    <3> QED
      BY <3>2, <3>3
  <2>2. CASE ~(r.start > lastStart) /\ slices = <<>>
    BY <1>1, <2>2, RowFields DEF CursorInv, Dropped
  <2>3. CASE ~(r.start > lastStart) /\ slices # <<>>
    <3>1. r.start = lastStart
      BY <1>1, <2>3, RowFields DEF CursorInv, TypeOK, IntRange
    <3> DEFINE n == Len(slices)
    <3>2. n \in DOMAIN slices /\ slices[n].start = r.start
      BY <2>3, <3>1 DEF CursorInv, TypeOK
    <3>3. CASE slices[n].end = r.end
      BY <1>2, <3>2, <3>3 DEF Fits, Joined
    <3>4. CASE slices[n].end # r.end
      BY <1>2, <3>2, <3>4 DEF Dropped
    <3> QED
      BY <3>3, <3>4
  <2> QED
    BY <2>1, <2>2, <2>3
<1>6. ASSUME NEW x \in Matching \ left', NEW y \in left' PROVE x.start <= y.start
  <2>1. x = r \/ x \in Matching \ left
    BY <1>1, <1>6
  <2> QED
    BY <1>1, <1>6, <2>1 DEF ScanRow, NextRow, RowsAccountedFor
<1> QED
  BY <1>1, <1>4, <1>5, <1>6 DEF RowsAccountedFor

--------------------------------------------------------------------------------
(* The invariants *)

\* The invariant holds before the query.
LEMMA InvInit == Init => IInv
<1> SUFFICES ASSUME Init PROVE IInv
  OBVIOUS
<1>1. slices \in Seq(Slice) /\ DOMAIN slices = {}
  BY DEF Init
<1>2. TypeOK
  BY <1>1, RowAssumption, QueryAssumption DEF Init, TypeOK, IntRange
<1>3. CursorInv
  BY DEF Init, CursorInv
<1>4. SlicesInOrder /\ SegmentsBelong /\ OnePerChannel
  BY <1>1 DEF SlicesInOrder, SegmentsBelong, OnePerChannel
<1>5. RowsAccountedFor
  BY DEF Init, RowsAccountedFor
<1> QED
  BY <1>2, <1>3, <1>4, <1>5 DEF IInv

\* A step that moves pc only, out of the query or to the end of the rows.
LEMMA Kept ==
  ASSUME IInv, UNCHANGED <<table, request, left, lastStart, slices>>,
         pc' \in {"query", "scan", "done", "panicked"},
         pc' = "query" => pc = "query",
         pc' \in {"scan", "done"} => pc \in {"scan", "done"}
  PROVE  IInv'
<1>1. Matching' = Matching
  BY DEF Matching, Matches, reqEnd
<1>2. TypeOK'
  BY DEF IInv, TypeOK
<1>3. CursorInv' /\ SlicesInOrder' /\ SegmentsBelong' /\ OnePerChannel'
  BY <1>1 DEF IInv, CursorInv, SlicesInOrder, SegmentsBelong, OnePerChannel, Fits
<1>4. RowsAccountedFor'
  BY <1>1 DEF IInv, RowsAccountedFor, Dropped
<1> QED
  BY <1>2, <1>3, <1>4 DEF IInv

\* The invariant is inductive.
LEMMA InvStep == IInv /\ [Next]_vars => IInv'
<1> SUFFICES ASSUME IInv, [Next]_vars PROVE IInv'
  OBVIOUS
<1>1. CASE Query
  <2>1. Matching' = Matching /\ Matching \subseteq Row /\ slices = <<>> /\ DOMAIN slices = {}
    BY <1>1 DEF Query, Matching, Matches, reqEnd, IInv, CursorInv, TypeOK
  <2>2. TypeOK'
    BY <1>1, <2>1 DEF Query, IInv, TypeOK
  <2>3. CursorInv' /\ SlicesInOrder' /\ SegmentsBelong' /\ OnePerChannel' /\ RowsAccountedFor'
    BY <1>1, <2>1 DEF Query, IInv, CursorInv, SlicesInOrder, SegmentsBelong,
                      OnePerChannel, RowsAccountedFor
  <2> QED
    BY <2>2, <2>3 DEF IInv
<1>2. CASE QueryFails
  BY <1>2, Kept DEF QueryFails
<1>3. CASE EndOfRows
  BY <1>3, Kept DEF EndOfRows
<1>4. ASSUME NEW r \in left, ScanRow(r) PROVE IInv'
  BY <1>4, ScanType, ScanCursor, ScanBelongs, ScanAccounts DEF IInv
<1>5. ASSUME NEW r \in left, SkipRow(r) PROVE IInv'
  <2>1. /\ Matching' = Matching /\ left' = left \ {r} /\ r.url = NoUrl
        /\ UNCHANGED <<table, request, pc, lastStart, slices>> /\ pc = "scan"
    BY <1>5 DEF SkipRow, Matching, Matches, reqEnd
  <2>2. TypeOK'
    BY <2>1 DEF IInv, TypeOK
  <2>3. CursorInv' /\ SlicesInOrder' /\ SegmentsBelong' /\ OnePerChannel'
    BY <2>1 DEF IInv, CursorInv, SlicesInOrder, SegmentsBelong, OnePerChannel, Fits
  <2>4. ASSUME NEW x \in Matching \ left' PROVE \A y \in left' : x.start <= y.start
    <3>1. x = r \/ x \in Matching \ left
      BY <2>1, <2>4
    <3> QED
      BY <1>5, <2>1, <3>1 DEF SkipRow, NextRow, IInv, RowsAccountedFor
  <2>5. RowsAccountedFor'
    BY <2>1, <2>4 DEF IInv, RowsAccountedFor, Dropped
  <2> QED
    BY <2>2, <2>3, <2>5 DEF IInv
<1>6. CASE UNCHANGED vars
  BY <1>6, Kept DEF vars, IInv, TypeOK
<1> QED
  BY <1>1, <1>2, <1>3, <1>4, <1>5, <1>6 DEF Next

\* The invariant the other theorems rest on holds in every state of
\* GetRequestSlices, for every table and every request.
THEOREM Inductive == Spec => []IInv
  BY InvInit, InvStep, PTL DEF Spec

\* The values have their types; lastStart stays an int (audio.go:54-98).
THEOREM TypeCorrect == Spec => []TypeOK
<1>1. IInv => TypeOK
  BY DEF IInv
<1> QED
  BY <1>1, Inductive, PTL

\* The slices come in the order of their starts, whatever the rows (audio.go:79-82).
THEOREM InOrder == Spec => []SlicesInOrder
<1>1. IInv => SlicesInOrder
  BY DEF IInv
<1> QED
  BY <1>1, Inductive, PTL

\* A slice is never empty, and holds rows of the request and of its span only
\* (audio.go:79-93).
THEOREM Belong == Spec => []SegmentsBelong
<1>1. IInv => SegmentsBelong
  BY DEF IInv
<1> QED
  BY <1>1, Inductive, PTL

\* A row that was read is in a slice, unless one of four things is the matter with
\* it, and no row that was not read starts before it (audio.go:66-93).
THEOREM AccountedFor == Spec => []RowsAccountedFor
<1>1. IInv => RowsAccountedFor
  BY DEF IInv
<1> QED
  BY <1>1, Inductive, PTL

\* The segments of a call have different paths, so that DownloadAllAudio never
\* gets one path twice (audio.go:84-86).
THEOREM Distinct == Spec => []PathsDistinct
<1>1. IInv => PathsDistinct
  <2> SUFFICES ASSUME IInv,
                      NEW i \in DOMAIN slices, NEW j \in DOMAIN slices,
                      NEW r \in slices[i].segments, NEW s \in slices[j].segments,
                      r.channel = s.channel, r.start = s.start
               PROVE  i = j /\ r = s
    BY DEF PathsDistinct, LocalPath
  <2>1. slices[i].start = slices[j].start
    BY DEF IInv, SegmentsBelong, Fits
  <2>2. i = j
    <3>1. /\ i \in Nat /\ j \in Nat /\ slices[i].start \in Int /\ slices[j].start \in Int
          /\ i < j => slices[i].start < slices[j].start
          /\ j < i => slices[j].start < slices[i].start
      BY SliceFields DEF IInv, TypeOK, SlicesInOrder
    <3> QED
      BY <2>1, <3>1
  <2> QED
    BY <2>2 DEF IInv, OnePerChannel
<1> QED
  BY <1>1, Inductive, PTL

\* In a state of the invariant an end that overflows comes with no slices.
LEMMA OverflowTrims == IInv => OverflowFindsNothing
<1> SUFFICES ASSUME IInv, request.duration >= 0,
                    request.start + request.duration # reqEnd, slices # <<>>
             PROVE  FALSE
  BY DEF OverflowFindsNothing
<1>1. /\ request.start \in Int /\ request.duration \in Int /\ IntLimit \in Nat
      /\ -IntLimit <= request.start /\ request.start < IntLimit /\ request.duration < IntLimit
  BY RowAssumption DEF IInv, TypeOK, Rv, IntRange
<1>2. reqEnd < 0
  BY <1>1 DEF reqEnd, Plus
<1>3. 1 \in DOMAIN slices
  <2>1. Len(slices) # 0
    BY EmptyIsLenZero DEF IInv, TypeOK
  <2> QED
    BY <2>1, SliceFields DEF IInv, TypeOK
<1>4. PICK r \in slices[1].segments : r \in Matching /\ Fits(slices[1], r)
  BY <1>3 DEF IInv, SegmentsBelong, Fits
<1>5. r.start < 0 /\ r.start >= 0
  <2>1. reqEnd \in Int /\ r.start \in Int
    BY <1>1, <1>4, RowFields DEF IInv, TypeOK, reqEnd, Plus, Matching
  <2> QED
    BY <1>2, <1>3, <1>4, <2>1 DEF Matching, Matches, Fits, IInv, SlicesInOrder
<1> QED
  BY <1>4, <1>5, RowFields DEF IInv, TypeOK, Matching

\* A request whose end overflows finds nothing (audio.go:61, 79).
THEOREM Overflow == Spec => []OverflowFindsNothing
  BY OverflowTrims, Inductive, PTL

--------------------------------------------------------------------------------
(* The trims *)

\* Every slice has something to do with the request.
LEMMA SliceOverlaps ==
  ASSUME IInv, NEW i \in DOMAIN slices
  PROVE  /\ slices[i].start \in Int /\ slices[i].end \in Int
         /\ request.start \in Int /\ reqEnd \in Int
         /\ slices[i].end > request.start /\ slices[i].start < reqEnd
<1>1. PICK r \in slices[i].segments : r \in Matching /\ Fits(slices[i], r)
  BY DEF IInv, SegmentsBelong, Fits
<1>2. request.start \in IntRange /\ request.duration \in IntRange
  BY DEF IInv, TypeOK, Rv
<1>3. reqEnd \in IntRange
  BY <1>2, PlusType DEF reqEnd
<1>4. slices[i].start \in Int /\ slices[i].end \in Int
  BY SliceFields DEF IInv, TypeOK
<1> QED
  BY <1>1, <1>2, <1>3, <1>4, RowAssumption DEF Matching, Matches, Fits, IntRange

\* In a state of the invariant /stream plays what was asked for.
LEMMA StreamTrims == IInv => StreamIsRequest
<1> SUFFICES ASSUME IInv, Playing, Disjoint, NEW i \in DOMAIN slices
             PROVE  Streamed(i) = Wanted(i)
  BY DEF StreamIsRequest
<1> DEFINE s == slices[i].start
           e == slices[i].end
           n == Len(slices)
<1>1. DOMAIN slices = 1..n /\ n \in Nat
  BY SliceFields DEF IInv, TypeOK
<1>2. /\ s \in Int /\ e \in Int /\ request.start \in Int /\ reqEnd \in Int
      /\ e > request.start /\ s < reqEnd
  BY SliceOverlaps
<1>3. i # 1 => s > request.start
  <2>1. i # 1 => 1 \in DOMAIN slices /\ 1 < i
    BY <1>1
  <2>2. i # 1 => slices[1].end > request.start /\ slices[1].end \in Int
    BY <2>1, SliceOverlaps
  <2> QED
    BY <1>2, <2>1, <2>2 DEF Disjoint
<1>4. i # n => e < reqEnd
  <2>1. i # n => n \in DOMAIN slices /\ i < n
    BY <1>1
  <2>2. i # n => slices[n].start < reqEnd /\ slices[n].start \in Int
    BY <2>1, SliceOverlaps
  <2> QED
    BY <1>2, <2>1, <2>2 DEF Disjoint
<1>5. s + TrimOffset(i) = Larger(s, request.start)
  BY <1>2, <1>3 DEF TrimOffset, Larger
<1>6. Smaller(e, s + TrimOffset(i) + TrimDuration(i)) = Smaller(e, reqEnd)
  <2>1. CASE i = n /\ e > reqEnd /\ request.start > s
    BY <1>2, <1>3, <2>1 DEF TrimOffset, TrimDuration, Smaller
  <2>2. CASE i = n /\ e > reqEnd /\ ~(request.start > s)
    BY <1>2, <2>2 DEF TrimOffset, TrimDuration, Smaller
  <2>3. CASE ~(i = n /\ e > reqEnd)
    <3>1. TrimDuration(i) = e - s /\ e <= reqEnd
      BY <1>2, <1>4, <2>3 DEF TrimDuration, Length
    <3>2. TrimOffset(i) \in Nat
      BY <1>2 DEF TrimOffset
    <3> QED
      BY <1>2, <3>1, <3>2 DEF Smaller
  <2> QED
    BY <2>1, <2>2, <2>3
<1> QED
  BY <1>5, <1>6 DEF Streamed, Wanted

\* If the slices do not overlap, /stream plays of each of them exactly what the
\* request asks for: the offset of the first and the duration of the last are
\* right, also when the first is the last (audio.go:100-130).
THEOREM StreamExact == Spec => []StreamIsRequest
  BY StreamTrims, Inductive, PTL

--------------------------------------------------------------------------------
(* Induction over the slices *)

\* A set of naturals has a least element.
LEMMA LeastNatural ==
  ASSUME NEW S \in SUBSET Nat, S # {}
  PROVE  \E n \in S : \A m \in S : ~(m < n)
<1> DEFINE R == {p \in Nat \X Nat : p[1] < p[2]}
<1>1. IsWellFoundedOn(R, Nat)
  BY NatLessThanWellFounded DEF OpToRel
<1>2. \A x, y \in Nat : y < x => <<y, x>> \in R
  OBVIOUS
<1> HIDE DEF R
<1>3. \E x \in S : \A y \in S : ~(<<y, x>> \in R)
  BY <1>1, WFMin
<1> QED
  BY <1>2, <1>3

\* Induction over 1..n, for the set of the numbers that have a property.
LEMMA UpTo ==
  ASSUME NEW n \in Nat, NEW S,
         1 \in S,
         \A k \in 1..n : k > 1 /\ k - 1 \in S => k \in S
  PROVE  1..n \subseteq S
<1> SUFFICES ASSUME (1..n) \ S # {} PROVE FALSE
  OBVIOUS
<1>1. PICK k \in (1..n) \ S : \A m \in (1..n) \ S : ~(m < k)
  <2>1. (1..n) \ S \in SUBSET Nat
    OBVIOUS
  <2> QED
    BY <2>1, LeastNatural
<1>2. k > 1 /\ k - 1 \in 1..n /\ k - 1 < k
  BY <1>1
<1>3. k - 1 \in S
  BY <1>1, <1>2
<1> QED
  BY <1>1, <1>2, <1>3

\* In a concatenation without gaps a slice begins as long after the first one as
\* in the mission.
LEMMA PositionIs ==
  ASSUME slices \in Seq(Slice), Covering, NEW i \in DOMAIN slices
  PROVE  Position(i) = slices[i].start - slices[1].start
<1> DEFINE n == Len(slices)
           Fits1(p) == p = [k \in 1..n |-> IF k = 1 THEN 0 ELSE p[k - 1] + Length(k - 1)]
           p0 == CHOOSE p : Fits1(p)
           q == [k \in 1..n |-> slices[k].start - slices[1].start]
<1>1. n \in Nat /\ DOMAIN slices = 1..n
  BY SliceFields
<1>2. \A k \in 1..n : slices[k].start \in Int /\ slices[k].end \in Int
  BY <1>1, SliceFields
<1>3. ASSUME NEW k \in 1..n, k > 1
      PROVE  k - 1 \in 1..n /\ Length(k - 1) = slices[k].start - slices[k - 1].start
  <2>1. k - 1 \in 1..n
    BY <1>1, <1>3
  <2>2. slices[k].start = slices[k - 1].end
    BY <1>1, <1>3 DEF Covering
  <2> QED
    BY <2>1, <2>2 DEF Length
<1>4. Fits1(q)
  <2> SUFFICES ASSUME NEW k \in 1..n
               PROVE  q[k] = IF k = 1 THEN 0 ELSE q[k - 1] + Length(k - 1)
    OBVIOUS
  <2>1. CASE k = 1
    BY <1>2, <2>1
  <2>2. CASE k > 1
    BY <1>2, <1>3, <2>2
  <2> QED
    BY <2>1, <2>2
<1>5. Fits1(p0)
  BY <1>4
<1>6. Position(i) = p0[i]
  BY DEF Position
<1> HIDE DEF p0
<1> DEFINE S == {k \in 1..n : p0[k] = q[k]}
<1>7. 1..n \subseteq S
  <2>1. 1 \in S
    BY <1>1, <1>2, <1>5
  <2>2. ASSUME NEW k \in 1..n, k > 1, k - 1 \in S PROVE k \in S
    <3>1. p0[k] = p0[k - 1] + Length(k - 1)
      BY <1>5, <2>2
    <3> QED
      BY <1>2, <1>3, <2>2, <3>1
  <2> HIDE DEF S
  <2> QED
    BY <1>1, <2>1, <2>2, UpTo
<1> QED
  BY <1>1, <1>6, <1>7

\* For recordings without a gap, /audio encodes exactly what /stream plays: the one
\* trim of the concatenation comes to the same as the trims of its slices
\* (audio.go:132-151).
THEOREM BulkExact == Spec => []FileIsStream
<1>1. IInv => FileIsStream
  <2> SUFFICES ASSUME IInv, Playing, Covering, NEW i \in DOMAIN slices
               PROVE  Encoded(i) = Streamed(i)
    BY DEF FileIsStream
  <2> DEFINE n == Len(slices)
             s == slices[i].start
             e == slices[i].end
  <2>1. n \in Nat /\ DOMAIN slices = 1..n /\ slices \in Seq(Slice)
    BY SliceFields DEF IInv, TypeOK
  <2>2. /\ \A k \in 1..n : slices[k].start \in Int /\ slices[k].end \in Int
        /\ request.start \in Int /\ request.duration \in Nat
    BY <2>1, SliceFields, SliceOverlaps DEF IInv, TypeOK, Rv, IntRange, Playing
  <2>3. Disjoint
    <3> SUFFICES ASSUME NEW j \in 1..n, NEW k \in 1..n, j < k
                 PROVE  slices[j].end <= slices[k].start
      BY <2>1 DEF Disjoint
    <3>1. j + 1 \in 1..n /\ j + 1 > 1 /\ (j + 1) - 1 = j
      BY <2>1
    <3>2. slices[j + 1].start = slices[j].end
      BY <2>1, <3>1 DEF Covering
    <3>3. slices[j + 1].start <= slices[k].start
      BY <2>1, <2>2, <3>1 DEF IInv, SlicesInOrder
    <3> QED
      BY <3>2, <3>3
  <2>4. Streamed(i) = Wanted(i)
    BY <2>3, StreamTrims DEF StreamIsRequest
  <2>5. reqEnd = request.start + request.duration
    BY OverflowTrims DEF OverflowFindsNothing, Playing
  <2>6. BulkOffset(slices) = request.start - slices[1].start
    BY <2>1, <2>2 DEF Covering, BulkOffset, Playing
  <2>7. Position(i) = s - slices[1].start
    BY <2>1, PositionIs
  <2>8. BulkOffset(slices) - Position(i) = request.start - s
    BY <2>1, <2>2, <2>6, <2>7
  <2>9. s + Larger(0, request.start - s) = Larger(s, request.start)
    BY <2>1, <2>2 DEF Larger
  <2>10. s + Smaller(e - s, (request.start - s) + request.duration) = Smaller(e, reqEnd)
    BY <2>1, <2>2, <2>5 DEF Smaller
  <2>11. Encoded(i) = [from |-> s + Larger(0, request.start - s),
                       to |-> s + Smaller(e - s, (request.start - s) + request.duration)]
    BY <2>8 DEF Encoded, Length
  <2> QED
    BY <2>4, <2>9, <2>10, <2>11 DEF Wanted
<1> QED
  BY <1>1, Inductive, PTL
================================================================================
