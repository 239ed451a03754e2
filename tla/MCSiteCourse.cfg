SPECIFICATION FairSpec
CONSTANTS
  t1 = t1
  t2 = t2
  Tabs = {t1}
  Languages = {"zh-Hans"}
  StorageFails = FALSE
  Content <- PHASE_CONTENT
  TypedPaths <- CoursePaths
  ClickedPhases <- AllPhases
  MAX_ENTRIES = 2
  MAX_PANELS = 1
INVARIANTS NothingCarriedOver LinksLeadWhereTheySay ShowsWhatPrototypeShows 
PROPERTIES  OnePanelAtATime LessonsSurviveTheSwitch BehavesLikePrototype
CHECK_DEADLOCK FALSE
