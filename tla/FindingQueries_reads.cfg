SPECIFICATION Spec
CONSTANTS
  f1 = f1
  f2 = f2
  f3 = f3
  o1 = o1
  o2 = o2
  o3 = o3
  Fingerprints = {f1, f2, f3}
  Observations = {o1, o2, o3}
  Times = {1, 2}
  Rank <- RankOfIds
  Filters <- AllOrOpen
  PageSizes = {1, 2}
SYMMETRY Symmetry
INVARIANTS
  TypeOK
  NoneTwice
  DetailCovered
PROPERTIES
  NoneMissed
CHECK_DEADLOCK FALSE
