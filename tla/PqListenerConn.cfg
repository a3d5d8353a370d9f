SPECIFICATION FairSpec
CONSTANTS
  c1 = c1
  c2 = c2
  c3 = c3
  Calls = {c1, c2, c3}
  Pings = {c3}
  Cap = 1
  MaxNotes = 2
INVARIANTS
  TypeOK
  OnlyLockOrderBlocks
PROPERTIES
  ImplementsSimpleQueries
  DeadlockedForGood
  StuckOnlyByLockOrder
\* Every call may have returned, or be in the deadlock.
CHECK_DEADLOCK FALSE
