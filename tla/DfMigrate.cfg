\* Two servers of five versions.
CONSTANTS
  Server = {s1, s2}
  TagId = {t1, t2}
  NoTag = none
  NoRow = noRow
  Name <- Names
  Version <- Versions
  MaxIndexes = 2
SPECIFICATION Spec
SYMMETRY Symmetry
INVARIANTS
  SavedIsApplied
  ServedRowsAreReady
PROPERTIES
  SchemaIsWhole
  FailsForAReason
  DownLeadsBack
