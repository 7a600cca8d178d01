\* Two moves at a time on trees of up to three tags.
CONSTANTS
  TagId = {root, t1, t2}
  NoTag = none
  Root = root
  Name = {n1, n2}
  EmptyName = empty
  MaxNames = 1
  MaxTags = 1
  Taggable = {b1}
  Request = {p, q}
  NoRow = noRow
  Nobody = nobody
  Kinds = {"move"}
  Races = {"TwoMoves"}
SPECIFICATION Spec
SYMMETRY Symmetry
INVARIANTS
  CommittedTree
