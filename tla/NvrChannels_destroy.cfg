CONSTANTS
  MaxCam = 1
  Nets = {1, 2}
  Hosts = {11, 12}
  Devices = {d1}
  NoDev = NoDev
  NoAddr = NoAddr
  Enabled <- MCEnabled
  EnvAddr <- MCEnvAddr
  CamAddr <- MCCamAddr
  WanMax = 0
  Calls = {"destroy", "search", "set_ip"}
SPECIFICATION FairSpec
INVARIANTS
  JoinedOnce
  LeftoverIsLate
PROPERTIES
  LanGivesWay
  DestroyReturns
CHECK_DEADLOCK FALSE
