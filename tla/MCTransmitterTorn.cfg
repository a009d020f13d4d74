\* Packages of two bytes and two slots: id 4 takes the slot of id 0 while id 0 is
\* copied out of it.
CONSTANTS
  PSIZE = 2
  FSIZE = 4
  InputSize = 5
  RequestIds = {0}
  MaxRequests = 1
  Requests <- ShortRequests
SPECIFICATION Spec
INVARIANT ResentIsOriginal
CHECK_DEADLOCK FALSE
