SPECIFICATION Spec
CONSTANTS
  SeqSpace = 64
  StreamLimit = 16
  PendingLimit = 16
  f1 = f1
  f2 = f2
  Flows = {f1}
  Settings <- ChunkedSettings
INVARIANTS
  NothingIsMissed
CHECK_DEADLOCK FALSE
