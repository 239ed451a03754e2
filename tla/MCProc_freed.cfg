SPECIFICATION Spec
CONSTANTS
  NoTask = NoTask
  Tasks = {init, t1, t2, t3}
  initproc = init
  PidArgs = {1, 2, 3, 4}
SYMMETRY Symmetry
INVARIANTS
  ReapedBlockIsFreed
CHECK_DEADLOCK FALSE
