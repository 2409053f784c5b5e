CONSTANTS
  p1 = p1
  p2 = p2
  Process <- MCProcess
  NR_BUFFERS = 2
  NR_REQUEST = 2
  Block <- MCThreeBlocks
  Ops <- MCReaders
  MayFail <- MCNoError
  NoBlock = NoBlock
  NoBuffer = NoBuffer
  NoRequest = NoRequest
  WaitForRequest = WaitForRequest
  BufferWait = BufferWait
  NoQueue = NoQueue
  Unnamed = Unnamed
  NoProcess = NoProcess
SPECIFICATION Spec
SYMMETRY Symmetry
INVARIANTS
  UniqueBuffer
  CountIsReferences
  HeldBufferKeepsBlock
  NothingLost
  ReadsAreCurrent
  LockHasOneOwner
CHECK_DEADLOCK FALSE
