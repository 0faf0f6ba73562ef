SPECIFICATION Spec
CONSTANTS
  Engines = {"V8"}
  Boxes = {"a"}
  Realms = {"r"}
  Fns = {"f"}
  MaxCopies = 1
  MaxDepth = 1
INVARIANT CallFindsItsContext
CHECK_DEADLOCK FALSE
