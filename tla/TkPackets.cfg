SPECIFICATION Spec
CONSTANTS
  Links = {"fifo", "socket"}
  HeaderSize = 2
  BufMax = 2
  Sizes = {1, 2}
  PipeBuf = 3
  PipeSize = 5
  MaxCommands = 5
INVARIANTS TypeOK CommandsWhole NothingStranded
PROPERTIES ImplementsChannel
CHECK_DEADLOCK FALSE
