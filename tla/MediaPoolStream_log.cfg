CONSTANTS
  N = 3
  K = 2
  Users = {u1}
  UserAvailable = 1
  Pieces = 1
  CallocMayFail = TRUE
  SignalMayLoss = TRUE
  MaxFrames = 5
SPECIFICATION StreamSpec
PROPERTIES
  StreamIsLog
  EncoderReturns
