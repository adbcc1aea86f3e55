SPECIFICATION FairSpec
CONSTANTS
  Modes = {"auto", "manual"}
  Capacity = 2
  MaxFrames = 3
  MaxResults = 2
  None = None
INVARIANTS TypeOK HeardInOrder ResultIsTrue
PROPERTY StopEndsAll
CHECK_DEADLOCK FALSE
