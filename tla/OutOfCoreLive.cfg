\* Two threads, two regions of one data page.
CONSTANTS
  t1 = t1
  t2 = t2
  t3 = t3
  Thread <- TwoThreads
  None = None
  PageSize = 2
  NumPages = 4
  VmaSize = 1
  Sizes <- TwoSizes
  StrayWriter <- NoThread
  Reuse = FALSE
SPECIFICATION LockFairSpec
PROPERTIES
  WriteCompletes
  FreeCompletes
