--------------------------- MODULE MCPushPipeline ---------------------------
(* PushPipeline on one device and its peer, with the bounds of the .cfg.   *)
EXTENDS PushPipeline, TLC

CONSTANTS d1, d2

MCDevice == {d1, d2}

\* The contents, and the files, are interchangeable.
MCSymmetry == Permutations(Content) \cup Permutations(File)

=============================================================================
