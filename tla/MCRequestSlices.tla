---------------------------- MODULE MCRequestSlices ----------------------------
(* Instances of RequestSlices, with the trims of SliceTrims, for TLC. *)
EXTENDS SliceTrims, TLC

CONSTANTS ch14, ch18, u1, u2

RowsOf(spans, channels, urls) ==
  {[start |-> p[1], end |-> p[2], channel |-> c, url |-> u] :
     p \in spans, c \in channels, u \in urls}

UpTo2(rows) == {{}} \cup {{a, b} : a, b \in rows}
UpTo3(rows) == {{}} \cup {{a, b, c} : a, b, c \in rows}

\* Recordings that begin before the launch or after it.
ShortSpans == {p \in {-2, 0, 1, 2} \X (-1..2) : p[1] < p[2]}
LongSpans == {p \in (0..(IntLimit - 1)) \X (0..(IntLimit - 1)) : p[1] < p[2]}

\* Any two short rows, rows without a url and duplicates among them, any three
\* short rows with a url, and up to three recordings of one channel of any length,
\* which may overlap or leave gaps.
MCTables ==
  UpTo2(RowsOf(ShortSpans, Channel, Url \cup {NoUrl}))
    \cup UpTo3(RowsOf(ShortSpans, Channel, {u1}))
    \cup UpTo3(RowsOf(LongSpans, {ch14}, {u1}))

\* Requests for times before the launch, around it and after it, of negative, no
\* and any positive length; the largest overflow.
MCQueries ==
  [channels : {{ch14}, {ch14, ch18}},
   start : {-IntLimit} \cup -1..(IntLimit - 1),
   duration : {-IntLimit} \cup -1..(IntLimit - 1)]

\* Requests for a time after the launch, of some length.
MCPlainQueries ==
  {q \in [channels : {{ch14, ch18}}, start : 0..(IntLimit - 1),
          duration : 1..(IntLimit - 1)] : q.start + q.duration < IntLimit}

\* One recording of each of two channels.
MCPairs ==
  {{a, b} : a \in RowsOf(LongSpans, {ch14}, {u1}), b \in RowsOf(LongSpans, {ch18}, {u1})}
================================================================================
