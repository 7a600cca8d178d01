\* Names, and what survives two of the unusual requests: up to four tags.
CONSTANTS
  TagId = {root, t1, t2, t3}
  NoTag = none
  Root = root
  Name = {n1, n2}
  EmptyName = empty
  MaxNames = 2
  Taggable = {b1}
  Unusual = {"DelMoveToSameParent", "TagWithRootOnly"}
  Common = common
  PathLength = 3
SPECIFICATION Spec
SYMMETRY Symmetry
INVARIANTS
  TreeInv
  SiblingNamesDistinct
  OnePrimaryName
  TreeReadsWhole
  PathsLead
  MatcherFindsAll
