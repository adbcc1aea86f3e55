CONSTANTS
  MaxGen = 3
  Sentences = 1
  Packets = 1
  PacerCap = 1
  WriterCap = 3
  MayFail = FALSE
SPECIFICATION Spec
INVARIANT SpeechIsBracketed
CHECK_DEADLOCK FALSE
