\* An operator, a plugin, one release, and two faults.
CONSTANTS
  Pids = {1, 2}
  Versions = {1}
  Clients = {"cli", "session"}
  Plugins = {"session"}
  MaxFaults = 2
  Targets <- OneRelease
  Plans <- RemovalOnly
  Tasks = {}
  MaxRuns = 0
SPECIFICATION MCFairSpec
PROPERTY Recovers
CHECK_DEADLOCK FALSE
