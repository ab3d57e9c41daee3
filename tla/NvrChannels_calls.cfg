CONSTANTS
  MaxCam = 2
  Nets = {1}
  Hosts = {11, 12, 13, 14}
  Devices = {d1, d2}
  NoDev = NoDev
  NoAddr = NoAddr
  Enabled <- MCEnabled
  EnvAddr <- MCEnvAddr
  CamAddr <- MCCamAddr
  WanMax = 1
  Calls = {"search"}
SPECIFICATION Spec
SYMMETRY Symmetry
INVARIANTS
  TypeOK
  AddressesDiffer
  OneRoundUnderSearch
CHECK_DEADLOCK FALSE
