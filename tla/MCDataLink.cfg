CONSTANTS
  Base = 256
  Width = 2
  Packages <- TwoPackages
  SenderOrder = "little"
  ReceiverOrder = "little"
  MaxFds = 4
SPECIFICATION FairSpec
INVARIANTS
  TypeOK
  HeardWasSent
PROPERTIES
  SentUnlessExhausted
  Joins
CHECK_DEADLOCK FALSE
