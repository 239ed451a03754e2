SPECIFICATION FairSpec
CONSTANTS
  NoTask = NoTask
  Tasks = {init, t1, t2, t3}
  initproc = init
  PidArgs = {1, 2, 3, 4}
INVARIANTS
  NoTaskLost
  EveryProcessHasAParent
  PidsUnique
  InitHasItsShell
PROPERTIES
  ReadyTaskRuns
  InitReapsZombies
CHECK_DEADLOCK FALSE
