\* Packages of two bytes, an input that ends inside the fourth, three slots: the
\* ids 0, 2, 4, 6 go to slot 0, past the vector's end, to slot 1, and to slot 0
\* again, also while it is copied.
CONSTANTS
  PSIZE = 2
  FSIZE = 5
  InputSize = 7
  RequestIds = {0, 2}
  MaxRequests = 2
  Requests <- ShortRequests
SPECIFICATION FairSpec
INVARIANTS
  TypeOK
  InOrder
  BytesInPlace
  CachedWhereLooked
  ResentWasAsked
  BatchUnique
  CopyInside
PROPERTIES
  BroadcastsStream
  Finishes
  QueuedIsAired
  AcceptedIsResent
CHECK_DEADLOCK FALSE
