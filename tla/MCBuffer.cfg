\* Window of four one-byte or two two-byte packages; ids up to 6 reach every
\* way of overflowing it: by one package, by a gap, and by a jump past it.
CONSTANTS
  MaxSize = 4
  LastId = 6
  Sizes = {1, 2}
  None = None
  Messages <- PackageMessages
SPECIFICATION Spec
INVARIANTS
  TypeOK
  WindowConsecutive
  SlotsHoldTheirOwn
  NewestPresent
  FitsBuffer
  MissedHaveRoom
PROPERTIES
  WindowMoves
  PresentStays
CHECK_DEADLOCK FALSE
