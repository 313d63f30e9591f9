SPECIFICATION FairSpec
CONSTANTS
  w1 = w1
  w2 = w2
  r1 = r1
  Worker = {w1, w2}
  Row = {r1}
  Retrigger = FALSE
  MaxEpoch = 1
  MaxRuns = 99
  MaxCancels = 0
  MaxCrashes = 0
  MaxFailures = 0
  MaxFaults = 0
CHECK_DEADLOCK FALSE
PROPERTIES
  DiagnosisSettles
  LockIsReleased
