\* A stale worker dispatches a call of its own while the newer attempt waits for approval.
SPECIFICATION Spec
CONSTANTS
  Runs = {r1}
  Workers = {w1, w2}
  Humans = {owner}
  Owner = owner
  Bot = Bot
  NoWorker = NoWorker
  NoRun = NoRun
  Cancellable = {}
  Deadlined = {}
  MaxAttempts = 2
  MaxSteps = 3
  BatchLimit = 1
  MaxInv = 2
  MaxGen = 0
SYMMETRY WorkerSymmetry
INVARIANTS ApprovedIsApplied
CHECK_DEADLOCK FALSE
