CONSTANTS
  Terminators = {t1, t2}
  MaxDepth = 4
SPECIFICATION FairSpec
INVARIANTS
  ArmedMeansStopped
  StopMeetsScript
  StopMeetsEntry
PROPERTIES
  StoppedScriptUnwinds
