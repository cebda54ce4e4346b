SPECIFICATION Spec
CONSTANTS
  Conns = {}
  NoConn = NoConn
  Tasks = {}
  MaxReconnectAttempts = 5
  MaxExponent = 1023
  MaxTrouble = 1030
INVARIANTS
  KeepsTrying
CHECK_DEADLOCK FALSE
