\* Packages of two bytes and three slots: after id 0 comes id 2, in a vector of
\* one message.
CONSTANTS
  PSIZE = 2
  FSIZE = 5
  InputSize = 3
  RequestIds = {0}
  MaxRequests = 1
  Requests <- ShortRequests
SPECIFICATION Spec
INVARIANT AssignsInside
CHECK_DEADLOCK FALSE
