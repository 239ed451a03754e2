SPECIFICATION Spec
CONSTANTS
  Threads = {t1, t2, t3, t4}
  Mutexes = {m1, m2}
  Sems = {s1}
  Condvars = {c1}
  NoMutex = NoMutex
  initial <- OnePermit
  MAX_UPS = 2
SYMMETRY Symmetry
INVARIANTS
  MutualExclusion
  TakenMutexHasAHolder
  PermitsAreExact
  SleepersAreQueuedOnce
CHECK_DEADLOCK FALSE
