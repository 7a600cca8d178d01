\* All trees of six tags, all orders of Add, and one move.
CONSTANTS
  TagId = {root, t1, t2, t3, t4, t5}
  NoTag = none
  Root = root
SPECIFICATION HierSpec
SYMMETRY Symmetry
CHECK_DEADLOCK FALSE
INVARIANTS
  MapsAgree
  WholePaths
  QueriesAgree
PROPERTIES
  MoveAsInTagTree
