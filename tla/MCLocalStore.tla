---------------------------- MODULE MCLocalStore ----------------------------
(* LocalStore for TLC: operations and contents are interchangeable.        *)
EXTENDS LocalStore, TLC

MCSymmetry == Permutations(Op) \cup Permutations(Content)

=============================================================================
