----------------------------- MODULE MC_Framing -----------------------------
(* Four messages, one of each type, with 16-byte uuids and 64-byte hashes. *)
(* Field values sit on byte boundaries (258, 65535); one uuid and one     *)
(* chunk carry the magic bytes, so a parser that hunted for the magic      *)
(* inside a frame would go wrong.                                          *)
EXTENDS Framing

UuidPlain == [i \in 1 .. 16 |-> i]
UuidMagic == <<MAGIC1, MAGIC2, MAGIC3, CHUNK_REQ, 0, 19>> \o [i \in 1 .. 10 |-> 0]
FileHash  == [i \in 1 .. HASH_SIZE |-> (37 * i) % 256]

MsgOffer    == [type |-> OFFER, seq |-> 1, uuid |-> UuidPlain, name |-> <<102>>,
                fileSize |-> 10000, nChunks |-> 3, fileHash |-> FileHash]
MsgReq      == [type |-> CHUNK_REQ, seq |-> 2, uuid |-> UuidPlain, name |-> <<102>>,
                first |-> 258, last |-> 65535]
MsgData     == [type |-> CHUNK_DATA, seq |-> 2, uuid |-> UuidMagic,
                name |-> <<102, 46>>, idx |-> 2,
                data |-> <<MAGIC1, MAGIC2, MAGIC3, CHUNK_DATA>>,
                chash |-> [i \in 1 .. CHUNK_HASH_SIZE |-> 7]]
MsgComplete == [type |-> COMPLETE, seq |-> 65535, uuid |-> UuidPlain, name |-> <<>>]

MC_Msgs == {MsgOffer, MsgReq, MsgData, MsgComplete}

\* Stray bytes: none, two non-magic bytes, the first two magic bytes and a
\* 0x00 (spec scenario 5), a whole magic with an invalid type tag.
MC_Garbage == {<<>>, <<0, 255>>, <<MAGIC1, MAGIC2, 0>>,
               <<MAGIC1, MAGIC2, MAGIC3, 9>>}

\* The same, and a lone first magic byte right before the frame.
MC_GarbageStray == MC_Garbage \cup {<<MAGIC1>>}

\* Messages without a chunk: the round trip of every other field.
MC_MsgsNoChunk == MC_Msgs \ {MsgData}
=============================================================================
