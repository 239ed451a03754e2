SPECIFICATION FairSpec
CONSTANTS
  Procs = {p1, p2}
  First = p1
  Pipes = {k1}
  MAX_FD = 5
  FD_ARGS = {0, 3, 4}
  MAX_LEN = 2
  MAX_BYTES = 3
  RING_BUFFER_SIZE = 2
INVARIANTS
  IndInv
PROPERTIES
  ReaderReleased
  OpenFdNeverClobbered
  ImplementsByteStream
CHECK_DEADLOCK FALSE
