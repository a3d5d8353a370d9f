SPECIFICATION FairSpec
CONSTANTS
  c1 = c1
  c2 = c2
  a = a
  b = b
  Calls = {c1, c2}
  Channels = {a, b}
  ChanCap = 1
  NotifyCap = 1
  MaxNotes = 2
  MaxLosses = 1
INVARIANTS
  TypeOK
  SubscriptionsAgree
  GapsAnnounced
  OnlyResyncBlocks
PROPERTIES
  StuckOnlyUnconnected
  EndsOnceDisconnected
\* The listener may have been closed.
CHECK_DEADLOCK FALSE
