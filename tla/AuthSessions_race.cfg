SPECIFICATION Spec
CONSTANTS
  Requests = {r1, r2, r3, r4, r5, r6}
  NoToken = NoToken
  Careful = {r1, r2}
SYMMETRY Symmetry
INVARIANTS
  TypeOK
  AlarmRevokesAll
  TokensKeptApart
  NoFalseAlarm
  LogoutRevokes
PROPERTIES
  RevokedForever
CHECK_DEADLOCK FALSE
