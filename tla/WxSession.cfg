SPECIFICATION Spec
CONSTANTS
  Users = {{}, {"close", "page"}}
  Threshold = 1
  MaxPages = 3
  MaxItems = 3
  MaxCursors = 2
INVARIANTS TypeOK CallsMatch PagesArrive FinallyPlotted
PROPERTIES TransmissionReturns SessionCompletes
CHECK_DEADLOCK FALSE
