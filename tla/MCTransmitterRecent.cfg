\* Two slots for packages of two bytes: every even id has slot 0.
CONSTANTS
  PSIZE = 2
  FSIZE = 4
  InputSize = 6
  RequestIds = {0}
  MaxRequests = 1
  Requests <- ShortRequests
SPECIFICATION Spec
INVARIANT RecentIsRetransmittable
CHECK_DEADLOCK FALSE
