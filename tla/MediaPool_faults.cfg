CONSTANTS
  N = 3
  K = 2
  Users = {u1, u2}
  UserAvailable = 1
  Pieces = 2
  CallocMayFail = TRUE
  SignalMayLoss = TRUE
SPECIFICATION Spec
SYMMETRY Symmetry
INVARIANTS
  TypeOK
  WriteLockOwned
  FillBufferLive
  LockedFrameLive
  RefusalCause
