SPECIFICATION FairSpec
CONSTANTS
  Conns = {c1, c2, c3}
  NoConn = NoConn
  Tasks = {t1}
  MaxReconnectAttempts = 5
  MaxExponent = 1023
  MaxTrouble = 7
INVARIANTS
  TypeOK
  NoDeadEntry
PROPERTIES
  Reconnects
  StopsWhileConnecting
CHECK_DEADLOCK FALSE
