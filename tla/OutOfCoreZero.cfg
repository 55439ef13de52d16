\* The program also asks for, and frees, regions of no bytes.
CONSTANTS
  t1 = t1
  t2 = t2
  t3 = t3
  Thread <- TwoThreads
  None = None
  PageSize = 2
  NumPages = 4
  VmaSize = 1
  Sizes <- WithZero
  StrayWriter <- NoThread
  Reuse = FALSE
SPECIFICATION Spec
INVARIANT
  NoAbort
