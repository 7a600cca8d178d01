----------------------------- MODULE MCGmClient -----------------------------
(* GmClient for TLC: the bounds are in the configurations. *)
EXTENDS GmClient
=============================================================================
