\* A sender on a little-endian host.
CONSTANTS
  Base = 256
  Width = 2
  Packages <- TwoPackages
  SenderOrder = "little"
  ReceiverOrder = "little"
  MaxFds = 4
SPECIFICATION Spec
INVARIANT TravelsBigEndian
CHECK_DEADLOCK FALSE
