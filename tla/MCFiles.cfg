SPECIFICATION Spec
CONSTANTS
  p1 = p1
  p2 = p2
  shared = shared
  a = a
  b = b
  Nobody = Nobody
  Procs <- MCProcs
  Names <- MCNames
  InitialDir <- MCDir
  InitialDisk <- MCDisk
  Workloads <- MCWorkloads
  NR_INODE = 3
  NInodes = 3
  NZones = 1
  DirSize = 2
INVARIANTS
  UniqueInode
  CountIsReferences
  HeldInodeKeepsNumber
  Consistent
  TablesAreSane
