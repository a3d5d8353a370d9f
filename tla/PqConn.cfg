SPECIFICATION Spec
CONSTANTS
  UserTxn = TRUE
  Overlaps = TRUE
  MaxQueue = 2
INVARIANTS
  TypeOK
  InStep
  BadForAReason
  OutcomesAgree
  ErrorsReturned
  NobodyWaitsInVain
\* The connection may be closed, or wait for a reply that another call has read.
CHECK_DEADLOCK FALSE
