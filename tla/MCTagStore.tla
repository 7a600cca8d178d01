----------------------------- MODULE MCTagStore -----------------------------
(* TagStore and what is read from it, for TLC: ids other than the root's    *)
(* are interchangeable, and so are the taggables and the names.             *)
EXTENDS TagLookup, TLC

Symmetry ==
  Permutations(TagId \ {Root}) \cup Permutations(Name) \cup Permutations(Taggable)
=============================================================================
