SPECIFICATION FairSpec
CONSTANTS
  Handles = {h1, h2}
  Capacity = 2
  BatchSize = 2
  MaxEvents = 5
  MaxFailures = 2
  MaxCrashes = 1
INVARIANTS
  NoEventUnaccounted
  MemoryBounded
PROPERTIES
  ImplementsEventLog
  AcceptedIsSettled
CHECK_DEADLOCK FALSE
