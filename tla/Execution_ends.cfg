\* One run, a database that may refuse every commit, signals that may be refused.
CONSTANTS
  MaxTasks = 1
  MaxRuns = 1
  Batches = {}
  NoBatch = NoBatch
  Cwds = {c1}
  Prios = {0}
  RetryLimits = {1}
  MaxConcurrency = 1
SPECIFICATION ShutdownSpec
PROPERTIES ShutdownEnds RunsEnd
