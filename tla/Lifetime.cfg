SPECIFICATION Spec
CONSTANTS
  Engines = {"V8", "SpiderMonkey"}
  Boxes = {"a", "b"}
  Realms = {"q", "r"}
  Fns = {"f"}
  MaxCopies = 2
  MaxDepth = 2
INVARIANTS
  GivenBackOnce
  CallMeetsItsRecords
  RefsInStep
  EmptyHoldsNothing
CHECK_DEADLOCK FALSE
