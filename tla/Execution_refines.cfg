\* Two tasks that may depend on each other, two runs, one slot.
CONSTANTS
  MaxTasks = 2
  MaxRuns = 2
  Batches = {}
  NoBatch = NoBatch
  Cwds = {c1}
  Prios = {0}
  RetryLimits = {0}
  MaxConcurrency = 1
SPECIFICATION Spec
INVARIANT ProcessCap
PROPERTY Refines
