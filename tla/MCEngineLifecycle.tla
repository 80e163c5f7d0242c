------------------------- MODULE MCEngineLifecycle -------------------------
(* EngineLifecycle with the bounds of the .cfg.                            *)
EXTENDS EngineLifecycle

=============================================================================
