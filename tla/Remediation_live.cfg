SPECIFICATION FairSpec
CONSTANTS
  w1 = w1
  w2 = w2
  Worker = {w1, w2}
  NoName = ""
  Wildcard = "*"
  NoParameters = NoParameters
  Plan <- Plans4
  MaxPlans = 1
  MaxRequests = 5
  MaxExternal = 1
  MaxFaults = 0

CHECK_DEADLOCK FALSE

PROPERTIES
  ExecutionSettles
