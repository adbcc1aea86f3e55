SPECIFICATION Spec
CONSTANTS
  Chars = {"a", "9", ".", "!", ")", "_", "n"}
  maxSentenceRunes = 4
  MaxText = 6
  MaxChunk = 2
INVARIANTS TypeOK SpokenAsWritten
CHECK_DEADLOCK FALSE
