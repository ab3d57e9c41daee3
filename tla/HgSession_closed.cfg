CONSTANTS
  Scripts <- MCScripts
  HdrLen = 1
SPECIFICATION FairSpec
PROPERTIES
  SilenceEnds
CHECK_DEADLOCK FALSE
