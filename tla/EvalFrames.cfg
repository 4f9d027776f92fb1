SPECIFICATION Spec
CONSTANTS
  Vals = {1, 2}
  Sizes = {1, 4}
  ArgLists <- MCArgs
  MaxSp = 6
  MaxSyms = 2
  MaxDepth = 3
INVARIANTS ReadsLastWrite PlacesDisjoint
CHECK_DEADLOCK FALSE
