SPECIFICATION FairSpec
CONSTANTS
  c1 = c1
  c2 = c2
  c3 = c3
  Calls = {c1, c2}
  Pings = {}
  Cap = 1
  MaxNotes = 0
PROPERTIES
  LostConnectionFreesCallers
\* Every call may have returned, or be in the deadlock.
CHECK_DEADLOCK FALSE
