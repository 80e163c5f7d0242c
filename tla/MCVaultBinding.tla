--------------------------- MODULE MCVaultBinding ---------------------------
(* The bounds of the counters are in the actions' guards. *)
EXTENDS VaultBinding
=============================================================================
