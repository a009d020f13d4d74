\* A write between the two halves of a reset.
CONSTANTS
  MaxSize = 3
  LastId = 3
  RTIME = 1
  None = None
  Messages <- ByteMessages
SPECIFICATION Spec
PROPERTY ReportsSurviveReset
CHECK_DEADLOCK FALSE
