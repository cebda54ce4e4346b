SPECIFICATION Spec
CONSTANTS
  t1 = t1
  t2 = t2
  t3 = t3
  d1 = d1
  Tasks <- OneTask
  Devices <- OneDevice
  DeviceOf <- MCDeviceOf
  PriorityOf <- MCPriorityOf
  Collation <- DeclaredOrder
  Requests = {r1, r2, r3}
  NoExec = NoExec
  NoTask = NoTask
  Reports <- MCReports
  SerialTasks <- MCSerialTasks
SYMMETRY Symmetry
PROPERTIES
  TerminalImmutable
CHECK_DEADLOCK FALSE
