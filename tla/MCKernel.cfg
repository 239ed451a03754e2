SPECIFICATION Spec
CONSTANTS
  init = init
  t1 = t1
  t2 = t2
  t3 = t3
  t4 = t4
  t5 = t5
  t6 = t6
  k1 = k1
  k2 = k2
  k3 = k3
  Tasks = {init, t1, t2, t3, t4, t5, t6}
  initproc = init
  NoTask = NoTask
  PipeSeq <- MCPipeSeq
  MAX_FD = 12
  RING_BUFFER_SIZE = 2
  CHUNK = 3
  Plans <- MCPlans
INVARIANTS
  StageStartsClean
  ExpectationsMet
PROPERTIES
  EveryProgramFinishes
