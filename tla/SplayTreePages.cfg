\* sp_tree_find_mod_and_lock called for any page.
CONSTANTS
  Node <- SixNodes
  Region <- SixRegions
  Page <- ThreePages
  Header = Header
  Null = Null
  Uses = {"pages"}
SPECIFICATION Spec
INVARIANTS
  NoneLost
