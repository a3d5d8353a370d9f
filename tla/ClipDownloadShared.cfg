SPECIFICATION Spec
CONSTANTS
  r1 = r1
  r2 = r2
  c1 = c1
  c2 = c2
  NoClip = NoClip
  Requests = {r1, r2}
  Clips = {c1, c2}
  Thread <- MCThread
  Owner <- MCOwner
  Need <- MCNeed
  NChunks = 2
  JunkBodies = FALSE
  MaxCrashes = 0
INVARIANTS
  DownloadedBeforeUse
\* Both calls may have returned.
CHECK_DEADLOCK FALSE
