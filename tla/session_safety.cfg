SPECIFICATION Spec
CONSTANTS
  MaxMsgs = 4
  EventCap = 2
  HistoryTurns = 1
  Conforming = FALSE
  DialMayFail = TRUE
  Evictable = FALSE
INVARIANTS TypeOK OneTurn TurnMatchesState NothingForgotten HistoryIsSound
PROPERTY Conversation
CHECK_DEADLOCK FALSE
