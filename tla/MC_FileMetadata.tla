--------------------------- MODULE MC_FileMetadata ---------------------------
(* Ten chunks: a bitmap of two bytes, the second one with six padding bits, *)
(* so that the scan crosses a full byte and reaches the padding.            *)
EXTENDS FileMetadata

MC_NChunks == 10
=============================================================================
