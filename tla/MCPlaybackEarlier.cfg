SPECIFICATION Spec
CONSTANTS
  a = a
  b = b
  None = None
  Stations <- ABStations
  Selectors <- OneSelector
  StationOf <- ABSenders
INVARIANT SwitchIsHeard
CHECK_DEADLOCK FALSE
