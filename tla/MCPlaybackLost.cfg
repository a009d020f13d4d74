SPECIFICATION FairSpec
CONSTANTS
  a = a
  b = b
  None = None
  Stations <- ABStations
  Selectors <- OneSelector
  StationOf <- ABSenders
PROPERTY SwitchTakesEffect
CHECK_DEADLOCK FALSE
