\* Every submitted run ends, whatever the users do.
SPECIFICATION LiveSpec
CONSTANTS
  Runs = {r1}
  Workers = {w1, w2}
  Humans = {owner}
  Owner = owner
  Bot = Bot
  NoWorker = NoWorker
  NoRun = NoRun
  Cancellable = {r1}
  Deadlined = {r1}
  MaxAttempts = 2
  MaxSteps = 2
  BatchLimit = 1
  MaxInv = 1
  MaxGen = 2
PROPERTIES EveryRunEnds
CHECK_DEADLOCK FALSE
