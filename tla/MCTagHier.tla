----------------------------- MODULE MCTagHier ------------------------------
(* TagHier for TLC: all trees over the tags, the root's id being fixed.     *)
EXTENDS TagHier, TLC

Symmetry == Permutations(TagId \ {Root})
=============================================================================
