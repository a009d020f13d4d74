\* Packages of two bytes and an input of three: the second package is one byte
\* of the input and one of the package before.
CONSTANTS
  PSIZE = 2
  FSIZE = 4
  InputSize = 3
  RequestIds = {0}
  MaxRequests = 1
  Requests <- ShortRequests
SPECIFICATION Spec
INVARIANT OnlyInputIsBroadcast
CHECK_DEADLOCK FALSE
