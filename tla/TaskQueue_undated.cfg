\* One task whose budget is lowered after a recovery.
CONSTANTS
  MaxTasks = 1
  MaxRuns = 2
  Batches = {}
  NoBatch = NoBatch
  Cwds = {c1}
  Prios = {0}
  RetryLimits = {0, 1}
  MaxConcurrency = 2
SPECIFICATION Spec
INVARIANT DeadLetterDated
