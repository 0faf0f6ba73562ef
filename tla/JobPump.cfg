CONSTANTS
  Engines = {"V8", "SpiderMonkey"}
  Jobs = {j1, j2}
  Tasks = {c1, c2}
  Delays = {1, 2, 9}
  MaxTime = 2
  ClockMax = 9
SPECIFICATION FairSpec
INVARIANTS
  RunOrder
  DelayIsAFloor
  StopEndsOnePump
PROPERTIES
  ContinuationsFirst
  EveryJobRuns
