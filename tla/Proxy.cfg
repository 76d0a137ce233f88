SPECIFICATION FairSpec
CONSTANTS
  Connections = {c1, c2, c3}
  MaxConnections = 2
  StartedAs = {"serving", "tui"}
INVARIANTS
  PermitsConserved
  
  RecordedIfAnswered
PROPERTIES
  PermitsComeBack
  StopEndsProcess
CHECK_DEADLOCK FALSE
