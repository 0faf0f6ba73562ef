CONSTANTS
  Terminators = {t1}
  Requests = {r1, r2}
  MaxDepth = 4
SPECIFICATION FairSpec
INVARIANTS
  StopMeetsScript
  QueueIsAnnounced
PROPERTIES
  StoppedScriptUnwinds
  DeliveryOK
  EveryRequestRuns
