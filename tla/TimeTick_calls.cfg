CONSTANTS
  MaxTask = 2
  Tasks = {clock, division}
  NoTask = NoTask
  MaxTick = 2
  Callers = {env}
  Owner = env
  Calls = {"add", "remove", "destroy", "early"}
  MaxMiscount = 0
SPECIFICATION FairSpec
INVARIANTS
  TypeOK
  CountIsTasks
  DestroyedRests
PROPERTY DestroyReturns
