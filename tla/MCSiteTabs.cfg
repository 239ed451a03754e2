SPECIFICATION Spec
CONSTANTS
  t1 = t1
  t2 = t2
  Tabs <- TwoTabs
  Languages = {"zh", "fr"}
  StorageFails = TRUE
  Content <- TwoPhases
  TypedPaths <- TwoPhasesPaths
  ClickedPhases = {0}
  MAX_ENTRIES = 1
  MAX_PANELS = 0
SYMMETRY Symmetry
INVARIANTS  ReloadKeepsLanguage
CHECK_DEADLOCK FALSE
