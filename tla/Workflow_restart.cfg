SPECIFICATION RetrySpec
CONSTANTS
  w1 = w1
  w2 = w2
  r1 = r1
  Worker = {w1, w2}
  Row = {r1}
  Retrigger = TRUE
  MaxEpoch = 0
  MaxRuns = 99
  MaxCancels = 0
  MaxCrashes = 1
  MaxFailures = 0
  MaxFaults = 1
CHECK_DEADLOCK FALSE
PROPERTIES
  TriggerSettles
