SPECIFICATION FairSpec
CONSTANTS
  r1 = r1
  r2 = r2
  c1 = c1
  c2 = c2
  NoClip = NoClip
  Requests = {r1, r2}
  Clips = {c1, c2}
  Thread <- MCThread
  Owner <- MCOwner
  Need <- MCNeed
  NChunks = 2
  JunkBodies = TRUE
  MaxCrashes = 1
INVARIANTS
  TypeOK
  SettledClipsWhole
  ReturnedClipsWholeOrShared
  OnlyNetworkBlocks
PROPERTIES
  SettledClipsFinal
  ImplementsParallelFor
  StuckOnlyOnNetwork
  OneHungWorkerIsNotEnough
\* Every call may have returned, and the host need not restart the process.
CHECK_DEADLOCK FALSE
