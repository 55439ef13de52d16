\* Three threads, five pages: two regions, of one or two data pages.
CONSTANTS
  t1 = t1
  t2 = t2
  t3 = t3
  Thread <- ThreeThreads
  None = None
  PageSize = 2
  NumPages = 5
  VmaSize = 1
  Sizes <- TwoSizes
  StrayWriter <- NoThread
  Reuse = FALSE
SPECIFICATION Spec
SYMMETRY Symmetry
INVARIANTS
  TypeOK
  NoAbort
  KernelHasHandler
  DirtyCoversWritable
  GrantApplied
  FoundIsLive
  Exclusive
  NoLockCycle
  PagesAccounted
PROPERTY
  NoDowngrade
