\* Two readers and two writers, one path, three changes.
CONSTANTS
  Reader = {r1, r2}
  Writer = {w1, w2}
  Key = {k1}
  Cache = {c1, c2, c3}
  Nil = nil
  MaxVersion = 3
  DebugHandler = TRUE
SPECIFICATION Spec
SYMMETRY Symmetry
INVARIANTS
  IInv
  AnswersFresh
PROPERTIES
  ImplementsFreshReads
