SPECIFICATION EditorSpec
CONSTANTS
  Object = {o1, o2}
  Nothing = Nothing
  Save = {s1}
  Hosts <- AllHosts
  MaxTexts = 2
SYMMETRY Symmetry
INVARIANTS EditorTypeOK SavesNameTheirTarget SyncedDraftIsTheTargets
PROPERTY AnswersKeepEdits
CHECK_DEADLOCK FALSE
