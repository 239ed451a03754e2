SPECIFICATION FairSpec
CONSTANTS
  Harts = {1, 2}
  L = L
  Locks = {L}
  Layouts <- MCLayouts
  BASE = 3
  HEAP_SIZE = 4
  NoCall = NoCall
INVARIANTS
  GuardsExclude
  InterruptsRestored
  HeapBlocksDisjoint
PROPERTIES
  LocksAreReleased
CHECK_DEADLOCK FALSE
