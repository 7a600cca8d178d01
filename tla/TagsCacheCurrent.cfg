\* Two readers, two writers, one path, two changes; the debug handler is not called.
CONSTANTS
  Reader = {r1, r2}
  Writer = {w1, w2}
  Key = {k1}
  Cache = {c1, c2, c3}
  Nil = nil
  MaxVersion = 2
  DebugHandler = FALSE
SPECIFICATION FairSpec
INVARIANTS
  CacheCurrent
PROPERTIES
  StaleTreesGo
