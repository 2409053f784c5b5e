CONSTANTS
  p = p
  Id <- MCId
  Drive <- MCDrive
  Track <- MCTrack
  TooFar = TooFar
  Asked <- MCAsked
  HD_MAX_ERRORS = 3
  LastBlock = 1
  FD_MAX_ERRORS = 2
  Process <- MCProcess
  nr <- MCnr
  SpinUp = 2
  SpinDown = 2
  Forever = 3
  NewInRecovery = FALSE
  Major <- MCAllMajors
SPECIFICATION FairSpec
INVARIANTS
  NeverLies
  WaitsForOneThing
  SetUpForTransfer
CHECK_DEADLOCK FALSE
PROPERTIES
  EveryRequestEnds
