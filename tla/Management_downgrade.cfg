\* A plugin of the first release beside a Gateway of the second.
CONSTANTS
  Pids = {1, 2}
  Versions = {1, 2}
  Clients = {"session"}
  Plugins = {"session"}
  MaxFaults = 1
  Targets <- Ensuring
  Plans <- EnsureOnly
  Tasks = {}
  MaxRuns = 0
SPECIFICATION DowngradeSpec
INVARIANT NoAutomaticDowngrade
CHECK_DEADLOCK FALSE
