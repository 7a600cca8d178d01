------------------------------ MODULE MCTagTx ------------------------------
(* TagTx for TLC: ids, names, bookmarks and requests are interchangeable. *)
EXTENDS TagTx, TLC

Symmetry ==
  Permutations(TagId \ {Root}) \cup Permutations(Name) \cup Permutations(Taggable)
    \cup Permutations(Request)
=============================================================================
