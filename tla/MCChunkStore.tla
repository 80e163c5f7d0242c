----------------------------- MODULE MCChunkStore -----------------------------
(* ChunkStore for TLC: two devices and the bounds of the .cfg.             *)
EXTENDS ChunkStore, TLC

CONSTANTS a, b

MCDevice == {a, b}

=============================================================================
