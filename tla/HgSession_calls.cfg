CONSTANTS
  Scripts <- MCScripts
  HdrLen = 2
SPECIFICATION FairSpec
INVARIANTS
  TypeOK
  SocketsKept
PROPERTIES
  MainIsCameraLog
  StopEnds
  ClosedIsNoticed
CHECK_DEADLOCK FALSE
