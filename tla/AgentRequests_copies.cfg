SPECIFICATION Spec
CONSTANTS
  change = change
  poll1 = poll1
  poll2 = poll2
  poll3 = poll3
  connect = connect
  Signed = {change, poll1, poll2, poll3, connect}
  KindOf <- OneChange
  Deliveries = {d1, d2, d3, d4, d5}
  QueueLength = 2
SYMMETRY Symmetry
INVARIANTS
  TypeOK
  AppliedOnce
  NonceIffApplied
  ClaimsAreRecorded
CHECK_DEADLOCK FALSE
