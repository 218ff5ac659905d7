\* One run, two drain loops: a stale worker beside the one that reclaimed its run.
SPECIFICATION Spec
CONSTANTS
  Runs = {r1}
  Workers = {w1, w2}
  Humans = {owner, operator}
  Owner = owner
  Bot = Bot
  NoWorker = NoWorker
  NoRun = NoRun
  Cancellable = {r1}
  Deadlined = {}
  MaxAttempts = 2
  MaxSteps = 2
  BatchLimit = 1
  MaxInv = 2
  MaxGen = 2
SYMMETRY WorkerSymmetry
INVARIANTS TypeOK AttemptBudget ParkedGate ExactlyOneTurn ApprovedOnly StepBudget
PROPERTIES TerminalIsForever ImplementsContract
CHECK_DEADLOCK FALSE
