CONSTANTS
  NR_TASKS = 4
  MaxPid = 4
  Kills <- MCNothing
  MayBlock <- MCChild
  Calls <- MCNothing
  Groups <- MCGroup
  NULL = NULL
SPECIFICATION FairSpec
PROPERTIES
  WaiterReturns
  
CHECK_DEADLOCK FALSE
