SPECIFICATION Spec
CONSTANTS
  Worlds <- MCWorlds
  Sizes = {1, 2}
  Places = {1, 2}
  MaxSteps = 6
INVARIANTS TypeOK RefreshServed CrosshairsTidy SettledShows
PROPERTIES LoopEnds
CHECK_DEADLOCK FALSE
