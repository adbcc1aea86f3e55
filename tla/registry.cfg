SPECIFICATION FairSpec
CONSTANTS
  c1 = c1  c2 = c2  c3 = c3  c4 = c4  d1 = d1
  Conns = {c1, c2, c3, c4}
  Devices = {d1}
  NoKey = NoKey
  NoConn = NoConn
  KeyOf <- OneAnonymous
  MaxSessions = 3
INVARIANTS TypeOK Accounting IndexIsSound ShutdownIsComplete ShutdownForgetsNobody
PROPERTIES EvictionEnds ShutdownDrains
CHECK_DEADLOCK FALSE
