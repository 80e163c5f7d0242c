------------------------- MODULE MCVaultReplication -------------------------
(* VaultReplication for TLC: this device, one peer that stands for all the *)
(* others, and a small number of contents, which are interchangeable. A    *)
(* model value stands for the absent document, file and baseline.          *)
EXTENDS VaultReplication, TLC

MCDevice   == {"self", "peer"}
MCSymmetry == Permutations(Content)
=============================================================================
