\* The library is finalised once, by any thread, after the last kernel.
CONSTANTS
  t1 = t1
  t2 = t2
  t3 = t3
  Thread <- TwoThreads
  None = None
  PageSize = 2
  NumPages = 4
  VmaSize = 1
  Sizes <- OneSize
  StrayWriter <- NoThread
  Reuse = FALSE
SPECIFICATION Spec
INVARIANT
  HandlerRestored
