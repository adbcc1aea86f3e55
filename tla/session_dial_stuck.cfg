SPECIFICATION FairSpec
CONSTANTS
  MaxMsgs = 3
  EventCap = 1
  HistoryTurns = 1
  Conforming = TRUE
  DialMayFail = TRUE
  Evictable = FALSE
PROPERTY ErrorsClose
CHECK_DEADLOCK FALSE
