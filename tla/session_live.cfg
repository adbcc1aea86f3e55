SPECIFICATION FairSpec
CONSTANTS
  MaxMsgs = 3
  EventCap = 1
  HistoryTurns = 1
  Conforming = TRUE
  DialMayFail = FALSE
  Evictable = TRUE
PROPERTIES TurnsEnd ErrorsClose CloseEndsAll
