SPECIFICATION Spec
CONSTANTS
  NStreams = 3
  Devices = {"screen", "psttf"}
  Blocks = {1, 2}
  MaxItems = 2
  MaxOpen = 2
INVARIANTS TypeOK CurrentExists BuffersOwned ReplotShows
PROPERTIES StreamsApart EndEndsAll
CHECK_DEADLOCK FALSE
