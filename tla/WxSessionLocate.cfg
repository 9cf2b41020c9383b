SPECIFICATION Spec
CONSTANTS
  Users = {{}}
  Threshold = 1
  MaxPages = 2
  MaxItems = 3
  MaxCursors = 2
PROPERTIES LocateAnswered
CHECK_DEADLOCK FALSE
