\* The test of vma_alloc.c in little: a superblock goes back to the system
\* while a thread has a block of it to unlock.
CONSTANTS
  t1 = t1
  t2 = t2
  Thread <- TwoThreads
  None = None
  BLOCK_CTR_FULL = 2
  SUPERBLOCK_CTR_FULL = 2
  NumSuperblocks = 1
  MaxLive = 4
  Modes <- TestModes
SPECIFICATION Spec
CHECK_DEADLOCK FALSE
INVARIANT
  PointersGood
