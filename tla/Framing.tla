------------------------------ MODULE Framing ------------------------------
(***************************************************************************)
(* The wire: the message codec (src/src/protocol/ft_msg.cpp) and the byte *)
(* parser of Connection::handleEvent (src/src/netwrk/ft_conn.cpp) that    *)
(* cuts the stream of one connection into frames for handleMessage.        *)
(*                                                                         *)
(* Bytes are the integers 0..255. A message is a record with the fields   *)
(* of ft::proto::Message that its type uses; uuids, names and hashes are  *)
(* byte sequences of their real lengths. The connection's input is fixed  *)
(* in Init: what the peer wrote, a prefix of stray bytes followed by the  *)
(* serialization of a sequence of messages; each step receives one byte,  *)
(* as recv(fd, &b, 1, 0) does.                                             *)
(***************************************************************************)
EXTENDS Naturals, Sequences, TLC

Ext == INSTANCE SequencesExt

CONSTANTS
    Msgs,        \* messages the peer may send
    MaxMsgs,     \* at most this many messages per connection
    Garbage      \* stray byte sequences that may precede them

VARIABLES
    sent,    \* the messages the peer serialized, in order
    input,   \* the bytes the peer wrote
    pos,     \* bytes received so far
    buf,     \* Connection::msg_buf
    msgLen,  \* Connection::msg_len
    out      \* the frames handed to handleMessage, in order

vars == <<sent, input, pos, buf, msgLen, out>>

Bytes == 0 .. 255

\* The magic 0x87FE7700 and the four message types (ft_msg.hpp).
MAGIC1 == 135
MAGIC2 == 254
MAGIC3 == 119
OFFER == 1
CHUNK_REQ == 2
CHUNK_DATA == 3
COMPLETE == 4
MAX_MSG_TYPE == 5
HASH_SIZE == 64
CHUNK_HASH_SIZE == 32
MAX_MSG_PAYLOAD_SIZE == 4096 - 128

-----------------------------------------------------------------------------
(* Codec                                                                   *)

\* Mutant of PutU16: the low byte is not masked to 8 bits.
PutU16Unmasked(v) == <<(v \div 256) % 256, v>>

\* putU16 / putU32: network byte order.
PutU16(v) == <<(v \div 256) % 256, v % 256>>
PutU32(v) == <<(v \div 16777216) % 256, (v \div 65536) % 256,
               (v \div 256) % 256, v % 256>>

\* Mutant of GetU16: the bytes are read little-endian.
GetU16Swapped(s, i) == s[i] + 256 * s[i + 1]

\* getU16 / getU32 at position i of a buffer.
GetU16(s, i) == 256 * s[i] + s[i + 1]
GetU32(s, i) == 16777216 * s[i] + 65536 * s[i + 1] + 256 * s[i + 2] + s[i + 3]

\* putU32(msg_type): MAGIC | type, big-endian.
TypeBytes(t) == <<MAGIC1, MAGIC2, MAGIC3, t>>

\* Message::serialize: the body after the length field, then the envelope.
\* The file name is cut at 255 bytes; a chunk of length 0 or above
\* MAX_MSG_PAYLOAD_SIZE throws length_error. The chunk hash is not written.
Serialize(m) ==
    LET nlen    == IF Len(m.name) < 255 THEN Len(m.name) ELSE 255
        trailer == CASE m.type = OFFER ->
                          PutU32(m.fileSize) \o PutU32(m.nChunks) \o m.fileHash
                   []   m.type = CHUNK_REQ -> PutU32(m.first) \o PutU32(m.last)
                   []   m.type = CHUNK_DATA ->
                          PutU32(m.idx) \o PutU16(Len(m.data)) \o m.data
                   []   m.type = COMPLETE -> <<>>
        body    == PutU16(m.seq) \o m.uuid \o <<nlen>> \o SubSeq(m.name, 1, nlen)
                   \o trailer
    IN  IF m.type = CHUNK_DATA
           /\ (Len(m.data) > MAX_MSG_PAYLOAD_SIZE \/ Len(m.data) = 0)
        THEN "length_error"
        ELSE TypeBytes(m.type) \o PutU16(Len(body) % 65536) \o body

\* Message(buf): the parsing constructor. Fields are read at fixed offsets
\* after the 6-byte envelope and the 19-byte common prefix; chunk_data.hash
\* is resized to CHUNK_HASH_SIZE zero bytes.
Parse(s) ==
    LET t    == s[4]
        nlen == s[25]
        p    == 26 + nlen
        common == [type |-> t, seq |-> GetU16(s, 7),
                   uuid |-> SubSeq(s, 9, 24), name |-> SubSeq(s, 26, p - 1)]
        clen == GetU16(s, p + 4)
    IN  CASE t = OFFER ->
               common @@
               [fileSize |-> GetU32(s, p), nChunks |-> GetU32(s, p + 4),
                fileHash |-> SubSeq(s, p + 8, p + 7 + HASH_SIZE)]
        []   t = CHUNK_REQ ->
               common @@ [first |-> GetU32(s, p), last |-> GetU32(s, p + 4)]
        []   t = CHUNK_DATA ->
               common @@ [idx |-> GetU32(s, p),
                          data |-> SubSeq(s, p + 6, p + 5 + clen),
                          chash |-> [i \in 1 .. CHUNK_HASH_SIZE |-> 0]]
        []   t = COMPLETE -> common

\* The fields the specification says each message type carries.
Carried(m) ==
    LET common == [type |-> m.type, seq |-> m.seq, uuid |-> m.uuid, name |-> m.name]
    IN  CASE m.type = OFFER ->
               common @@ [fileSize |-> m.fileSize, nChunks |-> m.nChunks,
                          fileHash |-> m.fileHash]
        []   m.type = CHUNK_REQ -> common @@ [first |-> m.first, last |-> m.last]
        []   m.type = CHUNK_DATA ->
               common @@ [idx |-> m.idx, data |-> m.data, chash |-> m.chash]
        []   m.type = COMPLETE -> common

-----------------------------------------------------------------------------
(* Connection::handleEvent, one received byte at a time                    *)

\* Mutant of ParseByte: the payload bound is one byte too long.
ParseByteLong(st, b) ==
    LET n == Len(st.buf) IN
    CASE n = 0 /\ b = MAGIC1 -> [st EXCEPT !.buf = Append(@, b)]
    []   n = 1 /\ b = MAGIC2 -> [st EXCEPT !.buf = Append(@, b)]
    []   n = 2 /\ b = MAGIC3 -> [st EXCEPT !.buf = Append(@, b)]
    []   n = 3 /\ b > 0 /\ b < MAX_MSG_TYPE -> [st EXCEPT !.buf = Append(@, b)]
    []   n = 4 -> [st EXCEPT !.buf = Append(@, b), !.len = 256 * b]
    []   n = 5 -> [st EXCEPT !.buf = Append(@, b), !.len = @ + b]
    []   n >= 6 /\ n < st.len + 6 -> [st EXCEPT !.buf = Append(@, b)]
    []   n >= 6 /\ n = st.len + 6 ->
           [buf |-> <<>>, len |-> 0, out |-> Append(st.out, Append(st.buf, b))]
    []   OTHER -> [st EXCEPT !.buf = <<>>, !.len = 0]

\* The if-chain on msg_buf.size(): the magic bytes, a type tag in
\* (0, MAX_MSG_TYPE), the two length bytes, the payload; the last byte
\* hands the frame to handleMessage and resets. Any other byte clears the
\* buffer and is itself dropped.
ParseByte(st, b) ==
    LET n == Len(st.buf) IN
    CASE n = 0 /\ b = MAGIC1 -> [st EXCEPT !.buf = Append(@, b)]
    []   n = 1 /\ b = MAGIC2 -> [st EXCEPT !.buf = Append(@, b)]
    []   n = 2 /\ b = MAGIC3 -> [st EXCEPT !.buf = Append(@, b)]
    []   n = 3 /\ b > 0 /\ b < MAX_MSG_TYPE -> [st EXCEPT !.buf = Append(@, b)]
    []   n = 4 -> [st EXCEPT !.buf = Append(@, b), !.len = 256 * b]
    []   n = 5 -> [st EXCEPT !.buf = Append(@, b), !.len = @ + b]
    []   n >= 6 /\ n < st.len + 6 - 1 -> [st EXCEPT !.buf = Append(@, b)]
    []   n >= 6 /\ n = st.len + 6 - 1 ->
           [buf |-> <<>>, len |-> 0, out |-> Append(st.out, Append(st.buf, b))]
    []   OTHER -> [st EXCEPT !.buf = <<>>, !.len = 0]

TypeOK ==
    /\ input \in Seq(Bytes)
    /\ pos \in 0 .. Len(input)
    /\ buf \in Seq(Bytes)
    /\ msgLen \in 0 .. 65535
    /\ out \in Seq(Seq(Bytes))

Init ==
    /\ \E g \in Garbage, ms \in Ext!BoundedSeq(Msgs, MaxMsgs) :
         /\ sent = ms
         /\ input = g \o Ext!FlattenSeq([i \in DOMAIN ms |-> Serialize(ms[i])])
    /\ pos = 0
    /\ buf = <<>>
    /\ msgLen = 0
    /\ out = <<>>

\* One iteration of handleEvent's do-while: recv() returns the next byte.
RecvByte ==
    /\ pos < Len(input)
    /\ LET st == ParseByte([buf |-> buf, len |-> msgLen, out |-> out],
                           input[pos + 1])
       IN  /\ buf' = st.buf
           /\ msgLen' = st.len
           /\ out' = st.out
    /\ pos' = pos + 1
    /\ UNCHANGED <<sent, input>>

Next == RecvByte

\* Once every byte is read, recv() fails with EAGAIN and the connection
\* waits for more: the model stops there.
Spec == Init /\ [][Next]_vars

-----------------------------------------------------------------------------
(* Reference definitions and properties                                    *)

\* A valid envelope at the start of s: the magic, a type tag in 1..4, a
\* length L and at least L payload bytes.
EnvelopeLen(s) ==
    IF /\ Len(s) >= 6
       /\ s[1] = MAGIC1 /\ s[2] = MAGIC2 /\ s[3] = MAGIC3
       /\ s[4] > 0 /\ s[4] < MAX_MSG_TYPE
       /\ Len(s) >= 6 + 256 * s[5] + s[6]
    THEN 6 + 256 * s[5] + s[6]
    ELSE 0

\* Spec 4.2 / section 8 invariant 1: the frames found by reading s left to
\* right, taking each valid envelope whole and skipping one byte after any
\* mismatch.
RECURSIVE GreedyFrames(_)
GreedyFrames(s) ==
    IF s = <<>> THEN <<>>
    ELSE IF EnvelopeLen(s) > 0
         THEN <<SubSeq(s, 1, EnvelopeLen(s))>>
              \o GreedyFrames(SubSeq(s, EnvelopeLen(s) + 1, Len(s)))
         ELSE GreedyFrames(Tail(s))

(* Once the whole input is read, the parser of handleEvent has handed to   *)
(* handleMessage exactly the frames greedy resynchronisation finds in it:  *)
(* a stray prefix, a false magic or an invalid type tag costs no frame.    *)
DemuxMatchesGreedy ==
    pos = Len(input) => out = GreedyFrames(input)

(* Every message a peer serializes comes out of the parser and the parsing *)
(* constructor with the fields it was sent with, other than the chunk hash *)
(* that serialize leaves out.                                               *)
FramesDeliverMessages ==
    pos = Len(input) =>
        /\ Len(out) = Len(sent)
        /\ \A i \in DOMAIN out :
             LET c == Carried(sent[i]) IN
             Parse(out[i]) = IF sent[i].type = CHUNK_DATA
                             THEN [c EXCEPT !.chash = Parse(out[i]).chash]
                             ELSE c
=============================================================================
