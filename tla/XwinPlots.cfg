SPECIFICATION Spec
CONSTANTS
  Programs <- MCPrograms
INVARIANT OwnPlot
CHECK_DEADLOCK FALSE
