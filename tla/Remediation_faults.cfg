SPECIFICATION Spec
CONSTANTS
  w1 = w1
  w2 = w2
  Worker = {w1, w2}
  NoName = ""
  Wildcard = "*"
  NoParameters = NoParameters
  Plan <- Plans4
  MaxPlans = 2
  MaxRequests = 4
  MaxExternal = 1
  MaxFaults = 1
SYMMETRY Symmetry
CHECK_DEADLOCK FALSE
INVARIANTS
  TypeOK
  SingleExecutor
  DeniedNeverWritten
  NoDoubleWrite
  WriteIsCovered
  DecidedOnce
  ResolvedIsApplied

PROPERTIES
  RefinesGate
