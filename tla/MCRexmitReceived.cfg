\* A late message between the report of a miss and the next request; with ids up to
\* 2 every report is right.
CONSTANTS
  MaxSize = 3
  LastId = 2
  RTIME = 1
  None = None
  Messages <- ByteMessages
SPECIFICATION Spec
PROPERTY AsksForMissing
CHECK_DEADLOCK FALSE
