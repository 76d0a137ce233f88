SPECIFICATION PathSpec
CONSTANTS
  SeqSpace = 64
  StreamLimit = 4
  PendingLimit = 3
  Cuts = {0, 1, 2, 4, 5, 7}
  Repacketise = TRUE
  InitialSeqs = {20, 59, 61, 63}
  ParserReads = TRUE
  ObservedPort = 80
  ServerIp <- OnlyApache
  Client <- Browser
  Server <- Apache
  Shapes <- SupportedShapes
  ForeignFrames <- Noise
INVARIANTS
  StreamIsContiguous
  BudgetsKept
  SeenIsDelivered
PROPERTIES
  ImplementsReassembly
