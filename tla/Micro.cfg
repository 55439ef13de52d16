\* Two pages of two elements, as with --sys=2.
CONSTANTS
  NumPages = 2
  PerPage = 2
  SysPage = 1
  MaxFaults = 6
  None = None
SPECIFICATION Spec
INVARIANTS
  TypeOK
  OnlyBrokenFail
  BrokenFail
  FlagsMatch
  FaultsUseful
PROPERTIES
  Terminates
CHECK_DEADLOCK FALSE
