CONSTANTS
  MaxLines = 2
  MaxIdle = 2
SPECIFICATION FairSpec
INVARIANTS WholeInOrder NothingSkipped
PROPERTIES EndsForReason ConnectionEnds
CHECK_DEADLOCK FALSE
