\* A template of any kind, edited at any moment; or one with a queue at work.
CONSTANTS
  MaxTasks = 3
  MaxRuns = 2
  Batches = {}
  NoBatch = NoBatch
  Cwds = {c1}
  Prios = {0}
  RetryLimits = {0}
  MaxConcurrency = 1
  Jobs <- OneJob
  MaxTemplates = 1
  MaxTime = 5
  PageSize = 1
  Plans <- CataloguePlans
  Caps = {1, 2}
SPECIFICATION CatalogueSpec
INVARIANTS SchedTypeOK InstancesCapped NeverEarly SlotsIncrease NoGhosts
PROPERTIES QueueKept PhaseKept
