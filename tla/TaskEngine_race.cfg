SPECIFICATION Spec
CONSTANTS
  t1 = t1
  t2 = t2
  t3 = t3
  d1 = d1
  Tasks <- ThreeTasks
  Devices <- OneDevice
  DeviceOf <- MCDeviceOf
  PriorityOf <- MCPriorityOf
  Collation <- DeclaredOrder
  Requests = {r1, r2, r3, r4, r5}
  NoExec = NoExec
  NoTask = NoTask
  Reports <- MCReports
  SerialTasks <- MCSerialTasks
SYMMETRY Symmetry
INVARIANTS
  TypeOK
  SingleExecution
  AuditMatchesStatus
  SuccessIsRecorded
PROPERTIES
  NeverClaimedLater
  ClaimsMostUrgent
  Lifecycle
CHECK_DEADLOCK FALSE
