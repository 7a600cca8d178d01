------------------------------- MODULE MCKeys -------------------------------
(* Keys for TLC.  Nothing tells requests, Google users, addresses or ids apart. *)
EXTENDS Keys, TLC

Symmetry ==
  Permutations(Request) \cup Permutations(Google) \cup Permutations(Email)
    \cup Permutations(UserId) \cup Permutations(Bookmark)
=============================================================================
