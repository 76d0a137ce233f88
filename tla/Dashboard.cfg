SPECIFICATION FairSpec
CONSTANTS
  PageSize = 2
  DurationLimit = 127
  ScrollSpace = 4
  PageScroll = 2
  Settings <- AllSettings
  MaxTyped = 1
INVARIANTS
  SelectionInRange
  ListIsTrue
  ScrollOnText
PROPERTIES
  OpensInSameFile
  CatchesUp
CHECK_DEADLOCK FALSE
