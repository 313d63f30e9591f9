SPECIFICATION Spec
CONSTANTS
  w1 = w1
  w2 = w2
  Worker = {w1, w2}
  NoName = ""
  Wildcard = "*"
  NoParameters = NoParameters
  Plan <- Plans2
  MaxPlans = 1
  MaxRequests = 4
  MaxExternal = 0
  MaxFaults = 0

CHECK_DEADLOCK FALSE

PROPERTIES
  RollbackRestores
