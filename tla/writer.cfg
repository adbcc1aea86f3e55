SPECIFICATION FairSpec
CONSTANTS
  Senders = {s1, s2}
  Capacity = 2
  MaxMsgs = 3
INVARIANTS TypeOK ClosesCleanly
PROPERTIES Outbox ClosingReturns
CHECK_DEADLOCK FALSE
