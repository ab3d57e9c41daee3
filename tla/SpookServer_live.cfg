CONSTANTS
  NumSession = 1
  NumEntry = 2
  MaxRetry = 2
  Modulus = 16
  Protocols = {http, rtsp}
  Fds = {f1, f2, f3}
  Null = Null
  Calls = {"reload"}
  EarlyClients = FALSE
SPECIFICATION FairSpec
PROPERTIES
  SessionDecides
  ReloadReturns
CHECK_DEADLOCK FALSE
