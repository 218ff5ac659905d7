\* One delivery, three attempts, two drain loops: it ends whatever fails on the way.
SPECIFICATION LiveSpec
CONSTANTS
  Deliveries = {d1}
  Workers = {w1, w2}
  NoWorker = NoWorker
  NoDelivery = NoDelivery
  MaxAttempts = 3
  BatchLimit = 1
  MaxLinks = 3
PROPERTIES EveryDeliveryEnds
CHECK_DEADLOCK FALSE
