\* Two tasks executed twice side by side; or one up to three times.
CONSTANTS
  MaxTasks = 2
  MaxRuns = 3
  Batches = {b1}
  NoBatch = NoBatch
  Cwds = {c1}
  Prios = {0}
  RetryLimits = {0, 1}
  MaxConcurrency = 2
SPECIFICATION GroupsSpec
INVARIANTS TypeOK ExecutionsSerial EntryOwnsOpenRun BatchesHeld ClosedMeansGone Findable NoBlindSignal
