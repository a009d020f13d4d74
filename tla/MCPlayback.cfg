SPECIFICATION FairSpec
CONSTANTS
  a = a
  b = b
  None = None
  Stations <- ABStations
  Selectors <- OneSelector
  StationOf <- ABSenders
INVARIANTS TypeOK StaleIsFlushed SwitchIsPending
PROPERTY WritesLastSessionOnly SwitchesUnlessLost
CHECK_DEADLOCK FALSE
