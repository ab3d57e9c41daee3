CONSTANTS
  MaxTask = 2
  Tasks = {clock, division}
  NoTask = NoTask
  MaxTick = 1
  Callers = {env, gui}
  Owner = env
  Calls = {"add", "remove"}
  MaxMiscount = 1
SPECIFICATION FairSpec
PROPERTY TaskRuns
