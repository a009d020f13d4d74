\* A session of two-package windows that is read empty.
CONSTANTS
  MaxSize = 2
  LastId = 3
  Sizes = {1}
  None = None
  Messages <- PackageMessages
SPECIFICATION Spec
PROPERTY LateIsIgnored
CHECK_DEADLOCK FALSE
