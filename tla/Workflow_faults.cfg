SPECIFICATION Spec
CONSTANTS
  w1 = w1
  w2 = w2
  r1 = r1
  Worker = {w1, w2}
  Row = {r1}
  Retrigger = TRUE
  MaxEpoch = 1
  MaxRuns = 9
  MaxCancels = 1
  MaxCrashes = 1
  MaxFailures = 1
  MaxFaults = 1
SYMMETRY Symmetry
CHECK_DEADLOCK FALSE
INVARIANTS
  TypeOK
  SingleDriver
  DriverViewIsCurrent
  StatusMatchesRuns
  AttemptsAreConsecutive
  BasisIsCurrent
  EvidenceIsCurrent
  EventLogIsFaithful
  FaultsOrphanOneRunEach
PROPERTIES
  RefinesLifecycle
