CONSTANTS
  NR_TASKS = 4
  MaxPid = 4
  Kills <- MCHangup
  MayBlock <- MCNothing
  Calls <- MCAll
  Groups <- MCGroup
  NULL = NULL
SPECIFICATION Spec
INVARIANTS
  TypeOK
  UniquePid
  FatherIsAlive
  WaiterIsTold
