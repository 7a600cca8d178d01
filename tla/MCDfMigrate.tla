---------------------------- MODULE MCDfMigrate ----------------------------
(* DfMigrate for TLC: servers and tags are interchangeable. *)
EXTENDS DfMigrate, TLC

\* One before each of the migrations that the rows matter to, or that changes rows.
Versions == {2, 7, 12, 15, 20}
Names == 1..2
Symmetry == Permutations(Server) \cup Permutations(TagId)
=============================================================================
