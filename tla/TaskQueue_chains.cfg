\* Dependency chains of three tasks with a retry budget that edits may change.
CONSTANTS
  MaxTasks = 3
  MaxRuns = 2
  Batches = {}
  NoBatch = NoBatch
  Cwds = {c1}
  Prios = {0}
  RetryLimits = {0, 1}
  MaxConcurrency = 2
SPECIFICATION Spec
INVARIANTS TypeOK NoStrandedTask DependencyFirst DependencyKept WithinBudget ConcurrencyCap
