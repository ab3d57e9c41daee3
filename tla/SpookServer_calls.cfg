CONSTANTS
  NumSession = 2
  NumEntry = 2
  MaxRetry = 0
  Modulus = 16
  Protocols = {http, rtsp}
  Fds = {f1, f2, f3, f4}
  Null = Null
  Calls = {"reload", "remove", "destroy"}
  EarlyClients = TRUE
SPECIFICATION Spec
SYMMETRY Symmetry
INVARIANTS
  TypeOK
  NoDescriptorLeaks
  SocketsAreOwn
  NeverAborts
  NoNullCall
PROPERTY TaskIsHit
CHECK_DEADLOCK FALSE
