CONSTANTS
  NameOrder <- ThreeNames
  Senders <- FourSenders
  MaxInactive = 1
  Preferred <- Rock
  None = None
  End = End
  Wild = Wild
  Reused = {TRUE}
SPECIFICATION Spec
INVARIANT SelectedIsActive
CHECK_DEADLOCK FALSE
