\* A database left by an earlier release: odd dependencies, two projects.
CONSTANTS
  MaxTasks = 3
  MaxRuns = 1
  Batches = {}
  NoBatch = NoBatch
  Cwds = {c1, c2}
  Prios = {0}
  RetryLimits = {0}
  MaxConcurrency = 1
SPECIFICATION LegacySpec
SYMMETRY Symmetry
INVARIANT RepairedOnStart
