SPECIFICATION FairSpec
CONSTANTS
  c1 = c1
  c2 = c2
  a = a
  b = b
  Calls = {c1}
  Channels = {a}
  ChanCap = 1
  NotifyCap = 1
  MaxNotes = 0
  MaxLosses = 1
PROPERTIES
  LostResyncReturns
\* The listener may have been closed.
CHECK_DEADLOCK FALSE
