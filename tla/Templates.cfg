\* A class f, its possible parent g in one realm.
CONSTANTS
  f = f
  g = g
  q = q
  Engines = {"V8", "SpiderMonkey"}
  Fns = {f, g}
  Classes = {f}
  Objs = {}
  Realms = {q}
  Ancestry <- MCAncestry
  Nests <- MCNests
  OnDemand <- MCOnDemand
  Plain <- MCPlain
  Shaped <- MCShaped
  MaxMembers = 2
  MaxShapes = 1
  MaxFailures = 1
SPECIFICATION Spec
INVARIANTS UsedIsSealed FinishedIsWhole OneConstructor NoEndlessNesting
PROPERTY ShapeIsFixed
