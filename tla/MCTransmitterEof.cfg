\* Two packages, the end of the input, and a sender thread that checks
\* reading_complete before the queue.
CONSTANTS
  PSIZE = 1
  FSIZE = 2
  InputSize = 1
  RequestIds = {0}
  MaxRequests = 1
  Requests <- ShortRequests
SPECIFICATION FairSpec
PROPERTY EverythingReadIsBroadcast
CHECK_DEADLOCK FALSE
