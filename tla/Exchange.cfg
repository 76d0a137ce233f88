SPECIFICATION FairSpec
CONSTANTS
  Octet <- OctetSet
  Requests <- ClientMessages
  Responses <- UpstreamMessages
  HeadRead = 4
  BodyRead = 3
  HeadLimit = 6
  BodyLimit = 5
  MaxBody = 3
INVARIANTS
  ForwardedIsSent
  DeliveredIsReply
  RecordedIsExchanged
  WholeIsAnswered
  BodyBounded
PROPERTIES
  HandlerEnds
CHECK_DEADLOCK FALSE
