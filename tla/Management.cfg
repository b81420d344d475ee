\* An operator, a plugin of the first of two releases, and one fault.
CONSTANTS
  Pids = {1, 2}
  Versions = {1, 2}
  Clients = {"cli", "session"}
  Plugins = {"session"}
  MaxFaults = 1
  Targets <- Everything
  Plans <- AllPlans
  Tasks = {"t"}
  MaxRuns = 1
SPECIFICATION MCSpec
INVARIANTS OneGateway ManagedByOne SuccessAgrees  MaintenanceAlone GatewayComesBack
PROPERTY LossIsBackedUp
CHECK_DEADLOCK FALSE
