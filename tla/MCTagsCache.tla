---------------------------- MODULE MCTagsCache -----------------------------
(* TagsCache for TLC: readers, writers, keys and structs are interchangeable. *)
EXTENDS TagsCache, TLC

Symmetry ==
  Permutations(Reader) \cup Permutations(Writer)
    \cup Permutations(Key) \cup Permutations(Cache)
=============================================================================
