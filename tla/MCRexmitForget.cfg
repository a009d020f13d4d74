\* A reset and a new report between two rounds of rexmit_sender.
CONSTANTS
  MaxSize = 3
  LastId = 3
  RTIME = 1
  None = None
  Messages <- ByteMessages
SPECIFICATION Spec
INVARIANT ForgetsOnlyGone
CHECK_DEADLOCK FALSE
