SPECIFICATION UpdateSpec
CONSTANTS
  MaxVersion = 3
  MaxFaults = 3
INVARIANTS UpdateTypeOK RunningIsKept
PROPERTY RollbackLosesNothing
CHECK_DEADLOCK FALSE
