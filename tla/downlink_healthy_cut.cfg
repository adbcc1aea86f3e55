CONSTANTS
  MaxGen = 1
  Sentences = 1
  Packets = 2
  PacerCap = 1
  WriterCap = 5
  MayFail = FALSE
SPECIFICATION Spec
PROPERTIES OnlyBlockedIsCut
CHECK_DEADLOCK FALSE
