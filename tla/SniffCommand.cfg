SPECIFICATION FairCommandSpec
CONSTANTS
  Handles = {"main", "sniffer"}
  Capacity = 1
  BatchSize = 2
  MaxEvents = 3
  MaxFailures = 1
  MaxCrashes = 2
  Modes = {"headless", "tui"}
  MaxRequests = 3
INVARIANTS
  CleanEndStoresAll
  RequestsReported
PROPERTIES
  ImplementsIngest
  StopEndsCommand
  FailureIsReported
CHECK_DEADLOCK FALSE
