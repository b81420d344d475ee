\* Two tasks that may share a batch, runs for every attempt and some to spare.
CONSTANTS
  MaxTasks = 2
  MaxRuns = 4
  Batches = {b1}
  NoBatch = NoBatch
  Cwds = {c1}
  Prios = {0}
  RetryLimits = {0, 1}
  MaxConcurrency = 2
SPECIFICATION FairSpec
INVARIANTS BatchSerial OneOpenRun
PROPERTIES Final NoRowLostInFlight Drains
