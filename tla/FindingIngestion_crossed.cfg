SPECIFICATION FairSpec
CONSTANTS
  t1 = t1
  t2 = t2
  f1 = f1
  f2 = f2
  w1 = w1
  w2 = w2
  r1 = r1
  r2 = r2
  r3 = r3
  Tasks <- TwoTasks
  Fingerprints = {f1, f2}
  Report <- Uneven
  Requests = {r1, r2, r3}
  Workers = {w1, w2}
  WorkerOf <- Spread
  Users = {}
  MaxAttempts = 3
  PoolSizes = {1, 3}
  SerialClients = FALSE
  SerialFindings = FALSE
INVARIANTS
  TypeOK
  EvidenceForAnswered
  CompletedWithEvidence
PROPERTIES
  NoCollision
  Answered
CHECK_DEADLOCK FALSE
