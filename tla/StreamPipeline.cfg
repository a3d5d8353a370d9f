SPECIFICATION FairSpec
CONSTANTS
  NSlices = 2
  NChunks = 3
  Cap = 1
INVARIANTS
  NothingLeftBehind
  OnlyHangOrClientBlocks
PROPERTIES
  HungForGood
  EveryStepAdvances
  ImplementsPlayback
  EndsOrHangs
\* The handler ends, or hangs.
CHECK_DEADLOCK FALSE
