SPECIFICATION FairSpec
CONSTANTS
  Sentences = 1
  MaxAudio = 2
  Capacity = 1
  None = None
INVARIANTS TypeOK EOFIsComplete
PROPERTIES StreamEnds CloseEnds
CHECK_DEADLOCK FALSE
