\* A client that stops reading, and one in a later slot.
CONSTANTS
  c1 = c1
  c2 = c2
  c3 = c3
  m1 = m1
  m2 = m2
  Clients <- ThreeClients
  Menus <- TwoMenus
  EmptyMenu <- m1
  MaxSlot = 2
  MaxInput = 6
  KeyCodes = {"A"}
  Nobody = Nobody
  None = None
SPECIFICATION Spec
INVARIANT ReadersGetUpdates
CHECK_DEADLOCK FALSE
