\* Two sources of one name, two Scripts, an engine upgraded once.
CONSTANTS
  s = s
  t = t
  n = n
  h1 = h1
  h2 = h2
  Engines = {"V8", "SpiderMonkey"}
  Handles = {h1, h2}
  Sources = {s, t}
  Names = {n}
  NameOf <- MCNameOf
  MaxBuilds = 2
  MaxBlobs = 2
  MaxRuns = 1
  MaxLost = 1
SPECIFICATION Spec
INVARIANTS RunsItsSource KeepsItsText
PROPERTY EagerIsEager
