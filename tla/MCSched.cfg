CONSTANTS
  NR_TASKS = 3
  MaxPriority = 2
  MaxAlarm = 1
  Calls <- MCCalls
SPECIFICATION SchedSpec
INVARIANTS
  SchedTypeOK
PROPERTIES
  SliceEnds
  AlarmEndsSleep
  NoStarvation
