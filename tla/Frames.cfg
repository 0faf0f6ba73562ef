CONSTANTS
  Engines = {"V8", "SpiderMonkey"}
  Values = {v1, v2}
  InlineSlots = 1
  MaxDepth = 3
  MaxSlots = 2
  MaxGlobals = 1
SPECIFICATION FramesSpec
INVARIANTS
  HandleKeepsValue
  SlotsOutliveScopes
  NeverUnrooted
