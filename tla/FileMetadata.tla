---------------------------- MODULE FileMetadata ----------------------------
(***************************************************************************)
(* The receiver's sidecar metadata file (src/src/file/ft_file_meta.cpp):   *)
(* a header (file size, chunk size, whole-file hash) followed by a bitmap  *)
(* with one bit per chunk, bit 7 of byte i standing for chunk 8*i.         *)
(*                                                                         *)
(* The header is abstracted to whether it is on disk: `metadata` is        *)
(* "absent" (no sidecar), "empty" (the ofstream of createIfNotExist has    *)
(* truncated the file but not yet flushed header and bitmap) or "ok".      *)
(* `bitmap` holds every bit of the bitmap bytes, the padding bits of the   *)
(* last byte included.                                                     *)
(*                                                                         *)
(* The operators below are the store's algorithms, written over an         *)
(* explicit bitmap so that FileTransfer can apply them to the state a      *)
(* worker read earlier; the specification at the end is the store used by *)
(* a single thread.                                                        *)
(***************************************************************************)
EXTENDS Naturals, FiniteSets

CONSTANTS
    NChunks,      \* file_n_chunks of the transferred file
    UINT64_MAX    \* the "no missing chunk" sentinel of nextMissingChunk

ASSUME NChunks \in Nat

VARIABLES metadata, bitmap
metaVars == <<metadata, bitmap>>

\* file_n_chunks / 8 rounded up (FileMetadata constructor)
BitmapSize == NChunks \div 8 + (IF NChunks % 8 > 0 THEN 1 ELSE 0)

BitIdx == 0 .. (8 * BitmapSize - 1)

\* The bits of bitmap byte b, MSB first: bit 7 is chunk 8*b.
ByteBits(b) == (8 * b) .. (8 * b + 7)

\* Mutant of ZeroBitmap: one entry per chunk instead of per bitmap bit.
ZeroBitmapPerChunk == [j \in 0 .. (NChunks - 1) |-> FALSE]

\* A zero-filled bitmap, as createIfNotExist writes it.
ZeroBitmap == [j \in BitIdx |-> FALSE]

\* Number of bitmap bytes a read can reach: reading past the end of a
\* truncated sidecar fails.
BytesOnDisk(md) == IF md = "ok" THEN BitmapSize ELSE 0

\* The byte-skipping loop of nextMissingChunk: the first byte at or after b
\* that is not 0xFF, or nbytes when the read runs off the end of the file.
RECURSIVE FirstNonFullByte(_, _, _)
FirstNonFullByte(bm, nbytes, b) ==
    IF b >= nbytes THEN nbytes
    ELSE IF \A j \in ByteBits(b) : bm[j]
         THEN FirstNonFullByte(bm, nbytes, b + 1)
         ELSE b

\* Mutant of NextMissingChunk: no check of the index against file_n_chunks.
NextMissingChunkNoClamp(bm, nbytes, from) ==
    LET b   == FirstNonFullByte(bm, nbytes, from \div 8)
        ret == CHOOSE j \in ByteBits(b) :
                   /\ ~bm[j]
                   /\ \A i \in ByteBits(b) : i < j => bm[i]
    IN  IF b = nbytes THEN UINT64_MAX ELSE ret

\* nextMissingChunk(from): skip full bytes from the byte holding `from`,
\* then count the set bits MSB-first within the first non-full byte; an
\* index past the last chunk (a set padding position) is UINT64_MAX.
NextMissingChunk(bm, nbytes, from) ==
    LET b   == FirstNonFullByte(bm, nbytes, from \div 8)
        ret == CHOOSE j \in ByteBits(b) :
                   /\ ~bm[j]
                   /\ \A i \in ByteBits(b) : i < j => bm[i]
    IN  IF b = nbytes THEN UINT64_MAX
        ELSE IF ret < NChunks THEN ret ELSE UINT64_MAX

\* The byte read by markChunk: the bits of byte b.
ReadByte(bm, b) == {j \in ByteBits(b) : bm[j]}

\* The byte markChunk writes back: the byte it read with bit k set or
\* cleared, every other bit of that byte as it was read.
MarkedByte(byte, k, valid) ==
    IF valid THEN byte \cup {k} ELSE byte \ {k}

\* Writing byte b (a set of its set bits) in place in the bitmap.
WriteByte(bm, b, byte) ==
    [j \in DOMAIN bm |-> IF j \in ByteBits(b) THEN j \in byte ELSE bm[j]]

-----------------------------------------------------------------------------
(* The store used by one thread: every operation runs to completion.       *)

TypeOK ==
    /\ metadata \in {"absent", "empty", "ok"}
    /\ bitmap \in [BitIdx -> BOOLEAN]

Init ==
    /\ metadata = "absent"
    /\ bitmap = ZeroBitmap

\* createIfNotExist: write header and a zero bitmap unless the file exists.
CreateIfNotExist ==
    /\ metadata = "absent"
    /\ metadata' = "ok"
    /\ bitmap' = ZeroBitmap

\* markChunk(k, valid): read the byte holding chunk k, set or clear its
\* bit and write the byte back at the same offset.
MarkChunk(k, valid) ==
    /\ metadata = "ok"
    /\ bitmap' = WriteByte(bitmap, k \div 8,
                           MarkedByte(ReadByte(bitmap, k \div 8), k, valid))
    /\ UNCHANGED metadata

Next ==
    \/ CreateIfNotExist
    \/ \E k \in 0 .. (NChunks - 1), valid \in BOOLEAN : MarkChunk(k, valid)

Spec == Init /\ [][Next]_metaVars

-----------------------------------------------------------------------------
(* Reference: the first chunk of the file whose bit is clear.              *)
FirstUnmarked(bm) ==
    IF \E k \in 0 .. (NChunks - 1) : ~bm[k]
    THEN CHOOSE k \in 0 .. (NChunks - 1) :
             ~bm[k] /\ \A i \in 0 .. (k - 1) : bm[i]
    ELSE UINT64_MAX

(* Property: for every bitmap the store can hold, the byte scan of          *)
(* nextMissingChunk(0) (as isComplete and the receiver call it) returns the *)
(* first chunk not yet marked, and UINT64_MAX exactly when every chunk is   *)
(* marked, the zero padding bits of the last byte included.                 *)
NextMissingIsFirstUnmarked ==
    metadata = "ok" =>
        NextMissingChunk(bitmap, BytesOnDisk(metadata), 0) = FirstUnmarked(bitmap)
=============================================================================
