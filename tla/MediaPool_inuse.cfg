CONSTANTS
  N = 4
  K = 2
  Users = {u1}
  UserAvailable = 1
  Pieces = 1
  CallocMayFail = FALSE
  SignalMayLoss = FALSE
SPECIFICATION Spec
PROPERTY ClearedEntryIsFree
