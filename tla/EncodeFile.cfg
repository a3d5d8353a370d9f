SPECIFICATION Spec
CONSTANTS
  r1 = r1
  r2 = r2
  r3 = r3
  f1 = f1
  Requests = {r1, r2, r3}
  Files = {f1}
  OutFile <- MCOutFile
  NChunks = 2
SYMMETRY MCSymmetry
INVARIANTS
  SettledFilesWhole
  ServedWholeUnlessDisturbed
\* Every response may have ended.
CHECK_DEADLOCK FALSE
