SPECIFICATION Spec
CONSTANTS
  ch14 = ch14
  ch18 = ch18
  u1 = u1
  u2 = u2
  NoUrl = NoUrl
  Channel = {ch14, ch18}
  Url = {u1, u2}
  Tables <- MCTables
  Queries <- MCQueries
  IntLimit = 6
  MayLose = TRUE
INVARIANTS
  SlicesInOrder
  SegmentsBelong
  PathsDistinct
  RowsAccountedFor
  OverflowFindsNothing
  StreamIsRequest
  FileIsStream
\* The call returns, or panics.
CHECK_DEADLOCK FALSE
