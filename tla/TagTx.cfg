\* Two requests at a time on trees of up to four tags.
CONSTANTS
  TagId = {root, t1, t2, t3}
  NoTag = none
  Root = root
  Name = {n1, n2}
  EmptyName = empty
  MaxNames = 1
  MaxTags = 1
  Taggable = {b1}
  Request = {p, q}
  NoRow = noRow
  Nobody = nobody
  Kinds = {"create", "delete", "move", "tag"}
  Races = {}
SPECIFICATION Spec
SYMMETRY Symmetry
INVARIANTS
  WaitsForOpen
PROPERTIES
  Serializable
