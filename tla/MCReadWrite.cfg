CONSTANTS
  p1 = p1
  p2 = p2
  p3 = p3
  Process <- MCProcess
  MaxCount = 2
  Holders <- MCHolders
  Byte <- MCByte
  PAGE_SIZE = 3
  TTY_BUF_SIZE = 4
  RESERVE = 2
  STARTUP = 1
  LINE_RESERVE = 1
  Uses <- MCUses
  EraseAnywhere = FALSE
  Kind <- MCKind
SPECIFICATION FairSpec
INVARIANTS
  SleepersHaveReason
  LineEndsAreRight
PROPERTIES
  ImplementsFifo
  TerminalsImplementFifo
  LastOnesReturn
  CallsReturn
CHECK_DEADLOCK FALSE
