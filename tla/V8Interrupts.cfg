CONSTANTS
  Requests = {r1, r2, r3}
SPECIFICATION InterruptsFairSpec
INVARIANTS
  QueueInStep
PROPERTIES
  DeliveryOK
  EveryRequestRuns
