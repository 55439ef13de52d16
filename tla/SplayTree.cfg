\* Six nodes of two addresses each, or three pages.
CONSTANTS
  Node <- SixNodes
  Region <- SixRegions
  Page <- ThreePages
  Header = Header
  Null = Null
  Uses = {"regions", "faults"}
SPECIFICATION FairSpec
INVARIANTS
  TypeOK
  SearchTree
  ParentsRight
  ListInOrder
  NoAbort
  NoneLost
PROPERTIES
  SplaysLastReached
  TableSpec
  CallsReturn
