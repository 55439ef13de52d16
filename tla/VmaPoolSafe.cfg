\* Two threads, two superblocks of two blocks of two vm_areas, of which five
\* are in use at a time: lists of several superblocks, and of several blocks
\* of different superblocks.
CONSTANTS
  t1 = t1
  t2 = t2
  Thread <- TwoThreads
  None = None
  BLOCK_CTR_FULL = 2
  SUPERBLOCK_CTR_FULL = 2
  NumSuperblocks = 2
  MaxLive = 5
  Modes <- SafeModes
SPECIFICATION Spec
SYMMETRY Symmetry
INVARIANTS
  TypeOK
  PointersGood
  NoAbort
  HandedOutOnce
  NothingLost
  ListsLinked
