SPECIFICATION Spec
CONSTANTS
  Worlds <- MCEnds
  Sizes = {1, 2}
  Places = {1, 2}
  MaxSteps = 5
CHECK_DEADLOCK FALSE
INVARIANT FreedNotUsed
