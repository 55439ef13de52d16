\* Two threads, one superblock of three blocks of three vm_areas: blocks and
\* superblocks that are neither full, nor empty, nor one step from it.
CONSTANTS
  t1 = t1
  t2 = t2
  Thread <- TwoThreads
  None = None
  BLOCK_CTR_FULL = 3
  SUPERBLOCK_CTR_FULL = 3
  NumSuperblocks = 1
  MaxLive = 4
  Modes <- SafeModes
SPECIFICATION FairSpec
INVARIANT
  NoLockCycle
PROPERTIES
  SupplySpec
  CallsReturn
