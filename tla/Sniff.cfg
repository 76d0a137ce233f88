SPECIFICATION FairSpec
CONSTANTS
  SeqSpace = 64
  StreamLimit = 16
  PendingLimit = 16
  f1 = f1
  f2 = f2
  Flows = {f1, f2}
  Settings <- CaptureSettings
INVARIANTS
  EventsAreTrue
  RequestsAccounted
  NothingIsMissed
  FlowsBounded
PROPERTIES
  RequestsAreReported
CHECK_DEADLOCK FALSE
