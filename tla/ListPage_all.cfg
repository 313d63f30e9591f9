SPECIFICATION ListSpec
CONSTANTS
  Call = {c1, c2}
  NoCall = NoCall
  Pages <- Lists
  MaxWrites = 2
SYMMETRY Symmetry
INVARIANTS ListTypeOK WritesNameLiveRows AcknowledgedWritesAreShown
CHECK_DEADLOCK FALSE
