\* Two deliveries in a batch, two drain loops, a link and a relink.
SPECIFICATION Spec
CONSTANTS
  Deliveries = {d1, d2}
  Workers = {w1, w2}
  NoWorker = NoWorker
  NoDelivery = NoDelivery
  MaxAttempts = 2
  BatchLimit = 2
  MaxLinks = 2
SYMMETRY WorkerSymmetry
INVARIANTS TypeOK AttemptHistory SendBudget BlockedWasRefused
PROPERTIES ImplementsContract
CHECK_DEADLOCK FALSE
