SPECIFICATION DemoSpec
CONSTANTS
  NoMutex = NoMutex
INVARIANTS
  ItemsArriveInOrder
PROPERTIES
  EveryoneKeepsEating
  MainGetsTheFullCount
  MainSeesAllItems
CHECK_DEADLOCK FALSE
