CONSTANTS
  MaxGen = 2
  Sentences = 2
  Packets = 1
  PacerCap = 1
  WriterCap = 1
  MayFail = TRUE
SPECIFICATION FairSpec
INVARIANTS TypeOK LateBound CommittedIsSent AnswerIsInOrder
PROPERTY AnswersEnd
CHECK_DEADLOCK FALSE
