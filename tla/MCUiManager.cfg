CONSTANTS
  c1 = c1
  c2 = c2
  c3 = c3
  m1 = m1
  m2 = m2
  Clients <- ThreeClients
  Menus <- TwoMenus
  EmptyMenu <- m1
  MaxSlot = 2
  MaxInput = 6
  KeyCodes = {"A"}
  Nobody = Nobody
  None = None
SPECIFICATION FairSpec
INVARIANTS
  TypeOK
  StoredSeeMenu
PROPERTY
  KeyIsTaken
CHECK_DEADLOCK FALSE
