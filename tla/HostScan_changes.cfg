SPECIFICATION Spec
CONSTANTS
  p1 = p1
  p2 = p2
  Paths = {p1, p2}
  Pids = {1, 2, 3, 4}
  Tasks <- ATaskOfEachKind
  MaxFilesCount = 2
  MaxFileSize = 2
  MaxProcesses = 4
  MaxLength = 3
  MaxChanges = 2
INVARIANTS
  TypeOK
  FilesAccounted
  FailsForAReason
  ProcessesAccounted
CHECK_DEADLOCK FALSE
