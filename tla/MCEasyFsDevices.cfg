SPECIFICATION Spec
CONSTANTS
  d1 = d1
  d2 = d2
  n1 = n1
  n2 = n2
  n3 = n3
  Devices = {d1, d2}
  Names = {n1}
  Requests <- MCRequests
  total_blocks = 15
  BLOCK_SZ = 2
  BLOCK_BITS = 10
  INODE_BLOCK_CAPACITY = 5
  INODE_DIRECT_COUNT = 1
  BLOCK_CACHE_SIZE = 3
  MAX_OPS = 5
PROPERTY ImplementsFileStore
CHECK_DEADLOCK FALSE
