\* Two runs in one batch of a single drain loop, one of them with a deadline.
SPECIFICATION Spec
CONSTANTS
  Runs = {r1, r2}
  Workers = {w1}
  Humans = {owner}
  Owner = owner
  Bot = Bot
  NoWorker = NoWorker
  NoRun = NoRun
  Cancellable = {}
  Deadlined = {r2}
  MaxAttempts = 2
  MaxSteps = 2
  BatchLimit = 2
  MaxInv = 1
  MaxGen = 1
INVARIANTS AppliedOnce
CHECK_DEADLOCK FALSE
