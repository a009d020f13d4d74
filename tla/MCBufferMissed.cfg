\* What a write reports as missed, against the empty slots it opened.
CONSTANTS
  MaxSize = 4
  LastId = 6
  Sizes = {1}
  None = None
  Messages <- PackageMessages
SPECIFICATION Spec
PROPERTY ReportsMissedIds
CHECK_DEADLOCK FALSE
