CONSTANTS
  MaxSessions = 2
  MaxRequests = 2
  MaxDepth = 6
SPECIFICATION Spec
INVARIANTS
  QueueHasAWake
  PutAsideHasAWake
  PauseCanBeEnded
PROPERTIES
  AgentOutlivesSend
