CONSTANTS
  NameOrder <- ThreeNames
  Senders <- FourSenders
  MaxInactive = 1
  Preferred <- Rock
  None = None
  End = End
  Wild = Wild
  Reused = {TRUE, FALSE}
SPECIFICATION FairSpec
INVARIANTS
  TypeOK
  SelectedIsListed
PROPERTIES
  SelectionIsSticky
  SelectionIsShown
CHECK_DEADLOCK FALSE
