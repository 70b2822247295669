---------------------------- MODULE FileTransfer ----------------------------
(***************************************************************************)
(* One file uploaded by one client identity (uuid, file name) to the       *)
(* receiver, across uploader runs that may be killed and restarted and a   *)
(* receiver process that may crash and restart.                            *)
(*                                                                         *)
(*  - Uploader run r (src/src/ft_client.cpp): offer() sends OFFER, its     *)
(*    single broker worker answers each CHUNK_REQ with CHUNK_DATA, and     *)
(*    COMPLETE empties client_files, which ends the run.                   *)
(*  - Receiver (src/src/ft_server.cpp): the loop thread turns frames into  *)
(*    requests on the broker queue (ft_req_brkr.cpp); each worker runs     *)
(*    ServerRequestHandler::handleRequest step by step, through the        *)
(*    FileRemote constructor, saveChunk, markChunk and isComplete          *)
(*    (src/src/file/ft_file.cpp, ft_file_meta.cpp).                        *)
(*  - Disk: the sidecar (metadata, bitmap) and the destination file, whose *)
(*    chunks hold either the uploaded bytes ("good") or a hole left by the *)
(*    sparse pre-allocation ("hole"). Hash equality is data equality.      *)
(*                                                                         *)
(* Chunk indices cross the wire as uint16_t (MessageFactory parameters):   *)
(* WireMod is 2^16 in the code.                                            *)
(***************************************************************************)
EXTENDS Naturals, Sequences, FiniteSets

CONSTANTS
    FileSize,          \* bytes of the offered file
    CHUNK_SIZE,        \* ft::file::CHUNK_SIZE (MAX_MSG_PAYLOAD_SIZE)
    UINT64_MAX,        \* sentinel of nextMissingChunk
    WireMod,           \* 2^(width of the chunk index in MessageFactory)
    Workers,           \* receiver broker worker threads
    Runs,              \* uploader runs 1..n, started in this order
    ConcurrentRuns,    \* may a run start while an earlier one is alive?
    MaxServerCrashes,  \* bound on receiver crashes
    MaxLostFrames      \* bound on frames sendBuffer fails to deliver

ASSUME /\ FileSize \in Nat /\ CHUNK_SIZE \in Nat \ {0} /\ WireMod \in Nat \ {0}
       /\ Runs = 1 .. Cardinality(Runs)
       /\ ConcurrentRuns \in BOOLEAN /\ MaxServerCrashes \in Nat /\ MaxLostFrames \in Nat

VARIABLES
    metadata, bitmap,   \* the sidecar (see FileMetadata)
    dataExists, data,   \* the destination file
    queue,              \* RequestBroker::sm_req_list
    pc, req, rdByte,    \* per receiver worker: step, request, byte read
    serverUp, crashes,  \* receiver process alive, crashes so far
    run, conn,          \* per uploader run: state, connection open
    c2s, s2c,           \* frames in flight on each run's connection
    lost                \* frames lost by sendBuffer so far

vars == <<metadata, bitmap, dataExists, data, queue, pc, req, rdByte,
          serverUp, crashes, run, conn, c2s, s2c, lost>>

\* File::getNumOfChunks, and file_n_chunks of the FileMetadata
\* constructor: the size divided by the chunk size, rounded up.
NChunks == FileSize \div CHUNK_SIZE + (IF FileSize % CHUNK_SIZE > 0 THEN 1 ELSE 0)

Meta == INSTANCE FileMetadata

Chunks == 0 .. (NChunks - 1)
WireIdx == 0 .. (WireMod - 1)

\* Mutant of ToWire: the sentinel is passed on without narrowing.
ToWireUnnarrowed(i) == IF i = UINT64_MAX THEN i ELSE i % WireMod

\* Narrowing a size_t chunk index to the uint16_t parameter of
\* buildMsgChunkReq / buildMsgChunkData; UINT64_MAX becomes 0xFFFF.
ToWire(i) == IF i = UINT64_MAX THEN WireMod - 1 ELSE i % WireMod

ClientMsg == [type : {"OFFER", "DATA"}, idx : WireIdx, len : 0 .. CHUNK_SIZE]
ServerMsg == [type : {"REQ", "COMPLETE"}, idx : WireIdx]
Request   == [run : Runs, type : {"OFFER", "DATA"}, idx : WireIdx, len : 0 .. CHUNK_SIZE]
NoRequest == [run |-> 1, type |-> "OFFER", idx |-> 0, len |-> 0]

PCs == {"idle", "readHeader", "metaCheck", "metaOpen", "metaWrite",
        "dataCheck", "dataCreate", "save", "markRead", "markWrite",
        "isComplete", "nextMissing"}

HoleFile == [k \in Chunks |-> "hole"]

\* The sidecar as the worker sees it through nextMissingChunk(0).
NextMissing == Meta!NextMissingChunk(bitmap, Meta!BytesOnDisk(metadata), 0)

TypeOK ==
    /\ metadata \in {"absent", "empty", "ok"}
    /\ bitmap \in [Meta!BitIdx -> BOOLEAN]
    /\ dataExists \in BOOLEAN
    /\ data \in [Chunks -> {"hole", "good"}]
    /\ queue \in Seq(Request)
    /\ pc \in [Workers -> PCs]
    /\ req \in [Workers -> Request]
    /\ rdByte \in [Workers -> SUBSET Meta!BitIdx]
    /\ serverUp \in BOOLEAN
    /\ crashes \in 0 .. MaxServerCrashes
    /\ run \in [Runs -> {"idle", "offered", "erased", "done", "killed"}]
    /\ conn \in [Runs -> BOOLEAN]
    /\ c2s \in [Runs -> Seq(ClientMsg)]
    /\ s2c \in [Runs -> Seq(ServerMsg)]
    /\ lost \in 0 .. MaxLostFrames

Init ==
    /\ metadata = "absent"
    /\ bitmap = Meta!ZeroBitmap
    /\ dataExists = FALSE
    /\ data = HoleFile
    /\ queue = <<>>
    /\ pc = [w \in Workers |-> "idle"]
    /\ req = [w \in Workers |-> NoRequest]
    /\ rdByte = [w \in Workers |-> {}]
    /\ serverUp = TRUE
    /\ crashes = 0
    /\ run = [r \in Runs |-> "idle"]
    /\ conn = [r \in Runs |-> FALSE]
    /\ c2s = [r \in Runs |-> <<>>]
    /\ s2c = [r \in Runs |-> <<>>]
    /\ lost = 0

-----------------------------------------------------------------------------
(* Messages                                                                *)

\* MessageFactory::buildMsgOffer: the file's name, size and hash; the
\* receiver takes the size from it, so only the type matters here.
OfferMsg == [type |-> "OFFER", idx |-> 0, len |-> 0]

\* MessageFactory::buildMsgComplete.
CompleteMsg == [type |-> "COMPLETE", idx |-> 0]

-----------------------------------------------------------------------------
(* Uploader                                                                *)

\* The Connection(host, port) constructor: resolve, then connect() to each
\* address until one succeeds; with no receiver listening every connect()
\* fails and the constructor throws, which ends main().
Connects == serverUp

\* main() of ft_client.cpp: connect, then offer(): insert into
\* client_files and send OFFER.
Offer(r) ==
    /\ run[r] = "idle"
    /\ Connects
    /\ \A q \in 1 .. (r - 1) : run[q] # "idle"
    /\ ConcurrentRuns \/ \A q \in 1 .. (r - 1) : run[q] \in {"done", "killed"}
    /\ run' = [run EXCEPT ![r] = "offered"]
    /\ conn' = [conn EXCEPT ![r] = TRUE]
    /\ c2s' = [c2s EXCEPT ![r] = Append(@, OfferMsg)]
    /\ UNCHANGED <<metadata, bitmap, dataExists, data, queue, pc, req,
                   rdByte, serverUp, crashes, s2c, lost>>

\* The length of chunk i of a file of `size` bytes (getChunk, saveChunk):
\* a full chunk, or what is left of the file before its end.
ChunkLen(size, i) ==
    IF size - i * CHUNK_SIZE < CHUNK_SIZE THEN size - i * CHUNK_SIZE ELSE CHUNK_SIZE

\* FileLocal::getChunk: an offset past the end of the file throws
\* range_error; an offset at the very end yields the empty chunk, which
\* serialize rejects with length_error. Either way no CHUNK_DATA leaves
\* the uploader.
GetChunk(i) == i * CHUNK_SIZE <= FileSize /\ ChunkLen(FileSize, i) > 0

\* ClientRequestHandler::handleRequest on the run's single worker (no
\* frame follows COMPLETE, so the not-offered-file discard never fires).
\* CHUNK_REQ: buildMsgChunkData -> getChunk throws for an index past the
\* file (and serialize throws for the empty chunk at the end), so nothing
\* is sent. COMPLETE: erase the file from client_files.
ClientHandle(r) ==
    /\ run[r] = "offered"
    /\ conn[r]
    /\ s2c[r] # <<>>
    /\ LET m == Head(s2c[r]) IN
         IF m.type = "REQ"
         THEN /\ c2s' = IF GetChunk(m.idx)
                        THEN [c2s EXCEPT ![r] = Append(@, [type |-> "DATA", idx |-> m.idx,
                                                             len |-> ChunkLen(FileSize, m.idx)])]
                        ELSE c2s
              /\ UNCHANGED <<run, conn>>
         ELSE /\ run' = [run EXCEPT ![r] = "erased"]
              /\ UNCHANGED <<conn, c2s>>
    /\ s2c' = [s2c EXCEPT ![r] = Tail(@)]
    /\ UNCHANGED <<metadata, bitmap, dataExists, data, queue, pc, req,
                   rdByte, serverUp, crashes, lost>>

\* The main loop's next test of uploadsCompleted() (client_files.empty(),
\* read without a lock while the worker erases) finds no file left: main()
\* returns and the connection is closed. A
\* kill after the erase ends the process the same way.
ClientExit(r) ==
    /\ run[r] = "erased"
    /\ run' = [run EXCEPT ![r] = "done"]
    /\ conn' = [conn EXCEPT ![r] = FALSE]
    /\ UNCHANGED <<metadata, bitmap, dataExists, data, queue, pc, req,
                   rdByte, serverUp, crashes, c2s, s2c, lost>>

\* The uploader is killed (signal, crash, user); also the only way out of
\* a run whose connection the receiver's crash has closed, since the
\* client's loop otherwise polls on forever.
Kill(r) ==
    /\ run[r] = "offered"
    /\ run' = [run EXCEPT ![r] = "killed"]
    /\ conn' = [conn EXCEPT ![r] = FALSE]
    /\ s2c' = [s2c EXCEPT ![r] = <<>>]
    /\ UNCHANGED <<metadata, bitmap, dataExists, data, queue, pc, req,
                   rdByte, serverUp, crashes, c2s, lost>>

-----------------------------------------------------------------------------
(* Receiver loop thread                                                    *)

\* Connection::handleEvent / handleMessage: a complete frame becomes a
\* Request queued by RequestBroker::queueRequest. Bytes the peer sent
\* before closing are still read.
Receive(r) ==
    /\ serverUp
    /\ c2s[r] # <<>>
    /\ queue' = Append(queue, [run |-> r, type |-> Head(c2s[r]).type,
                               idx |-> Head(c2s[r]).idx, len |-> Head(c2s[r]).len])
    /\ c2s' = [c2s EXCEPT ![r] = Tail(@)]
    /\ UNCHANGED <<metadata, bitmap, dataExists, data, pc, req, rdByte,
                   serverUp, crashes, run, conn, s2c, lost>>

\* The peer has closed: the read fails (reset) and the unread bytes are
\* lost; PollGroup removes the connection.
DropClosed(r) ==
    /\ serverUp
    /\ ~conn[r]
    /\ c2s[r] # <<>>
    /\ c2s' = [c2s EXCEPT ![r] = <<>>]
    /\ UNCHANGED <<metadata, bitmap, dataExists, data, queue, pc, req,
                   rdByte, serverUp, crashes, run, conn, s2c, lost>>

-----------------------------------------------------------------------------
(* Receiver workers: RequestBrokerWorker::run and handleRequest           *)

\* Send on the request's connection: lost when the connection is closed.
Reply(w, m) ==
    s2c' = IF conn[req[w].run]
           THEN [s2c EXCEPT ![req[w].run] = Append(@, m)]
           ELSE s2c

Goto(w, p) == pc' = [pc EXCEPT ![w] = p]

DiskVars == <<metadata, bitmap, dataExists, data>>
EnvVars  == <<queue, serverUp, crashes, run, conn, c2s, lost>>

\* Wait while the queue is empty, then pop its front. OFFER goes to
\* makeRemoteFile(path, hash, size), CHUNK_DATA first reads the header.
Take(w) ==
    /\ serverUp
    /\ pc[w] = "idle"
    /\ queue # <<>>
    /\ req' = [req EXCEPT ![w] = Head(queue)]
    /\ queue' = Tail(queue)
    /\ Goto(w, IF Head(queue).type = "OFFER" THEN "metaCheck" ELSE "readHeader")
    /\ UNCHANGED <<DiskVars, rdByte, serverUp, crashes, run, conn, c2s, s2c, lost>>

\* File::makeRemoteFile(path): readHeader, and a FileRemote only if the
\* chunk size read is not 0, which needs the whole header on disk.
HeaderReadable == metadata = "ok"

\* makeRemoteFile(path): FileMetadata::readHeader; a missing or empty
\* sidecar leaves chunk size 0, no file is made and nothing is answered.
ReadHeader(w) ==
    /\ serverUp
    /\ pc[w] = "readHeader"
    /\ Goto(w, IF HeaderReadable THEN "metaCheck" ELSE "idle")
    /\ UNCHANGED <<DiskVars, EnvVars, req, rdByte, s2c>>

\* Mutant of MetaCheck: the sidecar is rewritten on every open.
MetaCheckAlwaysOpen(w) ==
    /\ serverUp
    /\ pc[w] = "metaCheck"
    /\ Goto(w, "metaOpen")
    /\ UNCHANGED <<DiskVars, EnvVars, req, rdByte, s2c>>

\* FileRemote constructor, createIfNotExist: exists(metadata_file)?
MetaCheck(w) ==
    /\ serverUp
    /\ pc[w] = "metaCheck"
    /\ Goto(w, IF metadata = "absent" THEN "metaOpen" ELSE "dataCheck")
    /\ UNCHANGED <<DiskVars, EnvVars, req, rdByte, s2c>>

\* The ofstream opens (and truncates) the sidecar; header and bitmap sit
\* in its buffer until close().
MetaOpen(w) ==
    /\ serverUp
    /\ pc[w] = "metaOpen"
    /\ metadata' = "empty"
    /\ bitmap' = Meta!ZeroBitmap
    /\ Goto(w, "metaWrite")
    /\ UNCHANGED <<dataExists, data, EnvVars, req, rdByte, s2c>>

\* close(): header and zero bitmap reach the file.
MetaWrite(w) ==
    /\ serverUp
    /\ pc[w] = "metaWrite"
    /\ metadata' = "ok"
    /\ bitmap' = Meta!ZeroBitmap
    /\ Goto(w, "dataCheck")
    /\ UNCHANGED <<dataExists, data, EnvVars, req, rdByte, s2c>>

\* FileRemote constructor: exists(effective_path)?
DataCheck(w) ==
    /\ serverUp
    /\ pc[w] = "dataCheck"
    /\ Goto(w, IF ~dataExists THEN "dataCreate"
               ELSE IF req[w].type = "OFFER" THEN "isComplete" ELSE "save")
    /\ UNCHANGED <<DiskVars, EnvVars, req, rdByte, s2c>>

\* ofstream(out) creates or truncates the file, seekp(size - 1), write 0.
DataCreate(w) ==
    /\ serverUp
    /\ pc[w] = "dataCreate"
    /\ dataExists' = TRUE
    /\ data' = HoleFile
    /\ Goto(w, IF req[w].type = "OFFER" THEN "isComplete" ELSE "save")
    /\ UNCHANGED <<metadata, bitmap, EnvVars, req, rdByte, s2c>>

\* Mutant of Save: every chunk is expected to be a full CHUNK_SIZE long.
SaveFullChunksOnly(w) ==
    /\ serverUp
    /\ pc[w] = "save"
    /\ IF req[w].idx * CHUNK_SIZE <= FileSize /\ req[w].len = CHUNK_SIZE
       THEN /\ data' = [data EXCEPT ![req[w].idx] = "good"]
            /\ Goto(w, "markRead")
       ELSE /\ UNCHANGED data
            /\ Goto(w, "isComplete")
    /\ UNCHANGED <<metadata, bitmap, dataExists, EnvVars, req, rdByte, s2c>>

\* FileRemote::saveChunk: an offset past the end of the file, or a length
\* other than the chunk's, is logged and ignored; otherwise the chunk is
\* written at its offset, then markChunk follows. The size is the one the
\* receiver's FileRemote was built with, from the sidecar header.
Save(w) ==
    /\ serverUp
    /\ pc[w] = "save"
    /\ IF /\ req[w].idx * CHUNK_SIZE <= FileSize
          /\ req[w].len = ChunkLen(FileSize, req[w].idx)
       THEN /\ data' = [data EXCEPT ![req[w].idx] = "good"]
            /\ Goto(w, "markRead")
       ELSE /\ UNCHANGED data
            /\ Goto(w, "isComplete")
    /\ UNCHANGED <<metadata, bitmap, dataExists, EnvVars, req, rdByte, s2c>>

\* markChunk: read the bitmap byte. On an empty sidecar the read fails and
\* the failed stream writes nothing.
MarkRead(w) ==
    /\ serverUp
    /\ pc[w] = "markRead"
    /\ IF metadata = "ok"
       THEN /\ rdByte' = [rdByte EXCEPT ![w] = Meta!ReadByte(bitmap, req[w].idx \div 8)]
            /\ Goto(w, "markWrite")
       ELSE /\ UNCHANGED rdByte
            /\ Goto(w, "isComplete")
    /\ UNCHANGED <<DiskVars, EnvVars, req, s2c>>

\* markChunk: write back the byte read, with the chunk's bit set.
MarkWrite(w) ==
    /\ serverUp
    /\ pc[w] = "markWrite"
    /\ bitmap' = IF metadata = "ok"
                 THEN Meta!WriteByte(bitmap, req[w].idx \div 8,
                          Meta!MarkedByte(rdByte[w], req[w].idx, TRUE))
                 ELSE bitmap
    /\ Goto(w, "isComplete")
    /\ UNCHANGED <<metadata, dataExists, data, EnvVars, req, rdByte, s2c>>

\* calc_hash of the destination, BLAKE2b over its bytes block by block,
\* equals the offered hash: taken to hold exactly when every chunk holds
\* the uploaded bytes (a hole reads as zeros).
HashMatches == \A k \in Chunks : data[k] = "good"

\* Mutant of IsComplete: the else is lost, so a COMPLETE is followed by a
\* CHUNK_REQ.
IsCompleteNoElse(w) ==
    /\ serverUp
    /\ pc[w] = "isComplete"
    /\ IF dataExists /\ NextMissing = UINT64_MAX /\ HashMatches
       THEN Reply(w, CompleteMsg)
       ELSE UNCHANGED s2c
    /\ Goto(w, "nextMissing")
    /\ UNCHANGED <<DiskVars, EnvVars, req, rdByte>>

\* FileRemote::isComplete: the destination exists, no chunk is missing and
\* the hash of the destination equals the file's hash. If so, COMPLETE.
IsComplete(w) ==
    /\ serverUp
    /\ pc[w] = "isComplete"
    /\ IF dataExists /\ NextMissing = UINT64_MAX /\ HashMatches
       THEN /\ Reply(w, CompleteMsg)
            /\ Goto(w, "idle")
       ELSE /\ UNCHANGED s2c
            /\ Goto(w, "nextMissing")
    /\ UNCHANGED <<DiskVars, EnvVars, req, rdByte>>

\* getNextMissingChunk() and CHUNK_REQ for it, narrowed to uint16_t.
NextMissingReq(w) ==
    /\ serverUp
    /\ pc[w] = "nextMissing"
    /\ Reply(w, [type |-> "REQ", idx |-> ToWire(NextMissing)])
    /\ Goto(w, "idle")
    /\ UNCHANGED <<DiskVars, EnvVars, req, rdByte>>

-----------------------------------------------------------------------------
(* Connection::sendBuffer on either side                                    *)

\* The frame just sent on run r's connection, in either direction, never
\* reaches the peer: send() on the non-blocking socket failed with EAGAIN
\* (ignored) or wrote only part of the frame (the short count is not
\* checked). Only one frame is in flight per direction, so the peer's
\* parser keeps the partial frame until the connection closes, and no
\* later frame completes it.
LoseFrame(r) ==
    /\ lost < MaxLostFrames
    /\ \/ /\ c2s[r] # <<>>
          /\ c2s' = [c2s EXCEPT ![r] = SubSeq(@, 1, Len(@) - 1)]
          /\ UNCHANGED s2c
       \/ /\ s2c[r] # <<>>
          /\ s2c' = [s2c EXCEPT ![r] = SubSeq(@, 1, Len(@) - 1)]
          /\ UNCHANGED c2s
    /\ lost' = lost + 1
    /\ UNCHANGED <<DiskVars, queue, pc, req, rdByte, serverUp, crashes, run, conn>>

-----------------------------------------------------------------------------
(* Receiver crash and restart                                              *)

\* The receiver process dies: queue, workers and connections are gone,
\* the files on disk stay as they are.
ServerCrash ==
    /\ serverUp
    /\ crashes < MaxServerCrashes
    /\ serverUp' = FALSE
    /\ crashes' = crashes + 1
    /\ queue' = <<>>
    /\ pc' = [w \in Workers |-> "idle"]
    /\ conn' = [r \in Runs |-> FALSE]
    /\ c2s' = [r \in Runs |-> <<>>]
    /\ s2c' = [r \in Runs |-> <<>>]
    /\ UNCHANGED <<DiskVars, req, rdByte, run, lost>>

ServerRestart ==
    /\ ~serverUp
    /\ serverUp' = TRUE
    /\ UNCHANGED <<DiskVars, queue, pc, req, rdByte, crashes, run, conn, c2s, s2c, lost>>

\* Every uploader run has ended and the receiver is idle: it polls on.
Quiescent ==
    /\ \A r \in Runs : run[r] \in {"done", "killed"}
    /\ serverUp /\ queue = <<>> /\ \A w \in Workers : pc[w] = "idle"
    /\ UNCHANGED vars

WorkerStep(w) ==
    \/ Take(w) \/ ReadHeader(w) \/ MetaCheck(w) \/ MetaOpen(w)
    \/ MetaWrite(w) \/ DataCheck(w) \/ DataCreate(w) \/ Save(w)
    \/ MarkRead(w) \/ MarkWrite(w) \/ IsComplete(w) \/ NextMissingReq(w)

Next ==
    \/ \E r \in Runs : Offer(r) \/ ClientHandle(r) \/ ClientExit(r) \/ Kill(r)
                       \/ Receive(r) \/ DropClosed(r) \/ LoseFrame(r)
    \/ \E w \in Workers : WorkerStep(w)
    \/ ServerCrash \/ ServerRestart
    \/ Quiescent

\* Worker threads, the receiver's loop and the uploader's loop and worker
\* all keep running while they have work; the receiver is restarted.
Fairness ==
    /\ \A w \in Workers : WF_vars(WorkerStep(w))
    /\ \A r \in Runs : WF_vars(Receive(r)) /\ WF_vars(ClientHandle(r))
                    /\ WF_vars(ClientExit(r))
    /\ WF_vars(ServerRestart)

Spec == Init /\ [][Next]_vars
FairSpec == Spec /\ Fairness

-----------------------------------------------------------------------------
(* Properties                                                              *)

\* The refinement mapping: a chunk is held when its bytes are in the
\* destination file, recorded when the sidecar's header is on disk and its
\* bit is set, and the transfer is completed once a run was told COMPLETE.
Store == INSTANCE ResumableStore WITH
    Chunks    <- Chunks,
    held      <- {k \in Chunks : data[k] = "good"},
    recorded  <- IF metadata = "ok" THEN {k \in Chunks : bitmap[k]} ELSE {},
    completed <- \E r \in Runs : run[r] \in {"erased", "done"}

(* The receiver implements the resumable store: every step of its workers, *)
(* of the uploader runs and of a crash is a step of ResumableStore or      *)
(* leaves its state alone. The sidecar records only chunks already written,*)
(* no step (a re-offer's createIfNotExist, the FileRemote constructor, a   *)
(* markChunk read-modify-write, a crash between any two of them) loses a   *)
(* written or recorded chunk, and COMPLETE reaches an uploader only when   *)
(* every chunk is recorded.                                                *)
StoreRefinement == Store!StoreSpec

\* The exchanges of run r under way: frames on its connection, its requests
\* in the broker queue, and workers handling one of them.
InFlight(r) ==
    Len(c2s[r]) + Len(s2c[r])
      + Len(SelectSeq(queue, LAMBDA q : q.run = r))
      + Cardinality({w \in Workers : pc[w] # "idle" /\ req[w].run = r})

(* The protocol is self-clocking: on each connection at most one frame,    *)
(* request or handler is under way at any time, whatever crashes, kills,   *)
(* overlapping runs and lost frames do. Connection::sendBuffer is not      *)
(* serialised (its TODO) and ignores short writes; this is why no two      *)
(* sends on one connection ever interleave and why a partial frame is never *)
(* followed by another that the peer's parser would merge it with.         *)
OneFrameInFlight == \A r \in Runs : InFlight(r) <= 1

(* Every CHUNK_REQ the receiver sends names a chunk of the file, so the     *)
(* uploader can answer it (getChunk throws for any other index and the run  *)
(* then waits forever).                                                    *)
RequestsInRange ==
    \A r \in Runs : \A i \in 1 .. Len(s2c[r]) :
        s2c[r][i].type = "REQ" => s2c[r][i].idx < NChunks

(* An uploader run whose connection stays open ends: it is told COMPLETE  *)
(* (resuming from the sidecar always finishes the transfer), its worker    *)
(* erases the file from client_files and the main loop, testing            *)
(* uploadsCompleted() on every pass, sees the map empty and returns. Being *)
(* killed or losing the connection are the only other ways out.            *)
TransferCompletes ==
    \A r \in Runs :
        (run[r] = "offered" /\ conn[r]) ~> (run[r] \in {"done", "killed"} \/ ~conn[r])
=============================================================================
