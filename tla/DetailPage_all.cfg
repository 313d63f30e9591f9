SPECIFICATION DetailSpec
CONSTANTS
  Object = {o1, o2}
  NoObject = NoObject
  Call = {c1, c2, c3}
  NoCall = NoCall
  Pages <- Details
  MaxWrites = 3
SYMMETRY Symmetry
INVARIANTS DetailTypeOK ScaleIsForItsTarget
CHECK_DEADLOCK FALSE
