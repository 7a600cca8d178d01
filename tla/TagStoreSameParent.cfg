\* A move with policy del to the parent the tag already has.
CONSTANTS
  TagId = {root, t1, t2, t3}
  NoTag = none
  Root = root
  Name = {n1, n2, n3}
  EmptyName = empty
  MaxNames = 1
  Taggable = {b1}
  Unusual = {"DelMoveToSameParent"}
  Common = common
  PathLength = 3
SPECIFICATION Spec
SYMMETRY Symmetry
INVARIANTS
  FullTaggingPath
