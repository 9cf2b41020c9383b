SPECIFICATION Spec
CONSTANTS
  Programs <- MCPrograms
INVARIANTS TypeOK ThreadsEnd OneDraws Recording ShowsRecorded
PROPERTIES TidyReturns
CHECK_DEADLOCK FALSE
