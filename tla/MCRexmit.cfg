CONSTANTS
  MaxSize = 3
  LastId = 3
  RTIME = 1
  None = None
  Messages <- ByteMessages
SPECIFICATION FairSpec
INVARIANTS
  TypeOK
  MissesAreKept
  RequestIsExact
PROPERTIES
  PacedRequests
  MissIsAskedFor
CHECK_DEADLOCK FALSE
