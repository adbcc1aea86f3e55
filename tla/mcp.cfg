SPECIFICATION FairSpec
CONSTANTS
  Turns = {t1}
  Discovery = d
  Calls = 2
  MaxPages = 2
  MaxAnswers = 4
  None = None
INVARIANTS TypeOK Correlated ToolsAreSound
PROPERTIES NobodyIsKept
CHECK_DEADLOCK FALSE
