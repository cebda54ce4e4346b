SPECIFICATION Spec
CONSTANTS
  Codes = {c1, c2}
  Runs = {p1, p2, p3}
  None = None
  Careless = {p3}
SYMMETRY Symmetry
INVARIANTS
  TypeOK
  CodeEnrollsOne
  HostCanSign
PROPERTIES
  RedeemedForGood
CHECK_DEADLOCK FALSE
