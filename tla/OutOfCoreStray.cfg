\* One thread writes to out-of-core memory outside of any kernel.  Before any
\* thread has installed the handler such a write kills the process, which stops.
CONSTANTS
  t1 = t1
  t2 = t2
  t3 = t3
  Thread <- TwoThreads
  None = None
  PageSize = 2
  NumPages = 4
  VmaSize = 1
  Sizes <- OneSize
  StrayWriter <- OneStray
  Reuse = FALSE
SPECIFICATION Spec
INVARIANT
  GrantApplied
CHECK_DEADLOCK FALSE
