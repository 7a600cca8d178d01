\* Trees of up to five tags and one bookmark, one name per tag.
CONSTANTS
  TagId = {root, t1, t2, t3, t4}
  NoTag = none
  Root = root
  Name = {n1, n2, n3}
  EmptyName = empty
  MaxNames = 1
  Taggable = {b1}
  Unusual = {}
  Common = common
  PathLength = 3
SPECIFICATION Spec
SYMMETRY Symmetry
INVARIANTS
  SearchFindsBelow
  ChildrenCntOK
  FullTaggingPath
  NoRootOnlyTagging
  NoPanic
PROPERTIES
  ImplementsBookmarkTags
