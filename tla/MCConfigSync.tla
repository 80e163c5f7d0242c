---------------------------- MODULE MCConfigSync ----------------------------
EXTENDS ConfigSync

CONSTANTS p, q, pState, qState

MCPath == {p, q}
MCLegacy == [f \in MCPath |-> IF f = p THEN pState ELSE qState]
=============================================================================
