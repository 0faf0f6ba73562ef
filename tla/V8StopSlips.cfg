CONSTANTS
  Terminators = {t1}
  MaxDepth = 2
SPECIFICATION FairSpec
PROPERTIES
  EveryStopUnwinds
