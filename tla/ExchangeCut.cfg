SPECIFICATION Spec
CONSTANTS
  Octet <- OctetSet
  Requests <- ClientMessages
  Responses <- UpstreamMessages
  HeadRead = 4
  BodyRead = 3
  HeadLimit = 6
  BodyLimit = 5
  MaxBody = 3
INVARIANT TextIsNotBinary
CHECK_DEADLOCK FALSE
