SPECIFICATION Spec
CONSTANTS
  Slot = {1, 2}
  NFrames = 7
  NPages = 2
  NTables = 2
  TableOf <- Tables2
  FilePage <- MCFile
  Value = {0, 1}
  FileValue = 1
  Workloads <- MCWorkloads
  Gone = Gone
INVARIANTS
  MapCountsUsers
  WritableIsPrivate
 
CHECK_DEADLOCK FALSE
