\* Packages of two bytes in a buffer of one: max_elements is 0.
CONSTANTS
  MaxSize = 1
  LastId = 6
  Sizes = {2}
  None = None
  Messages <- PackageMessages
SPECIFICATION Spec
INVARIANT BoundedBySize
CHECK_DEADLOCK FALSE
