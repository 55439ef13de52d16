\* Threads allocate while others free what they allocated.
CONSTANTS
  t1 = t1
  t2 = t2
  Thread <- TwoThreads
  None = None
  BLOCK_CTR_FULL = 2
  SUPERBLOCK_CTR_FULL = 2
  NumSuperblocks = 2
  MaxLive = 4
  Modes <- AnyModes
SPECIFICATION Spec
CHECK_DEADLOCK FALSE
INVARIANT
  NothingLost
