\* One browser tab, its stream and the hints of three changes.
SPECIFICATION StreamFairSpec
CONSTANTS
  Tabs = {t1}
  QueueDepth = 1
  MaxPerUser = 1
  MaxConnections = 1
  MaxInFlight = 1
  MaxEdits = 3
  MaxMisses = 1
INVARIANTS QuietTabIsCurrent
PROPERTIES TabCatchesUp
CHECK_DEADLOCK FALSE
