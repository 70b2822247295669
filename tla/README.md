# TLA+ models of file_transfer

These modules model the resumable file uploader (`ft_client`) and receiver
(`ft_server`) in `src/src/`. The TLC model checker checks them. Each
definition is translated from the C++ source, and `PROJECT.json` maps every
definition to the lines it models.

## 1. The system and how its parts interact

An uploader connects to the receiver and sends an OFFER for a file. The
receiver answers with CHUNK_REQ for the first chunk it does not have. The
uploader answers each CHUNK_REQ with CHUNK_DATA. When the receiver's copy is
complete and its hash matches, it sends COMPLETE. Progress survives crashes
in a sidecar file (`.<name>.meta`): a header plus one bit per chunk.

| Part | Source | State | Operations | Interacts with |
|---|---|---|---|---|
| Metadata store | `file/ft_file_meta.cpp` | sidecar file: header, bitmap (MSB first, bit 7 of byte i = chunk 8i) | `createIfNotExist`, `markChunk`, `nextMissingChunk`, `readHeader` | FileRemote, through every receiver worker |
| FileRemote / FileLocal | `file/ft_file.cpp` | destination file (sparse pre-allocated), local source file | constructor (exists, then create), `saveChunk`, `isComplete`, `getChunk`, `makeRemoteFile` | metadata store, both request handlers |
| Receiver request handler | `ft_server.cpp` | none of its own | `handleRequest` for OFFER and CHUNK_DATA | FileRemote, MessageFactory, Connection::sendBuffer |
| Uploader | `ft_client.cpp` | `client_files` | `offer`, `handleRequest` for CHUNK_REQ and COMPLETE, `main` loop | FileLocal, Connection |
| Request broker | `request/ft_req_brkr.cpp` | global queue, terminate flag, worker threads (16 on the receiver, 1 on the uploader) | `queueRequest`, `RequestBrokerWorker::run`, `stopWorkers` | Connection (producer), request handlers (consumers) |
| Connection | `netwrk/ft_conn.cpp` | fd, frame buffer, `msg_len` | `handleEvent` (byte parser), `handleMessage`, `sendBuffer` | PollGroup, request broker |
| Readiness loop | `loop/ft_poll_grp.cpp` | `pollables`, `cached_pollfd` | `add`, `remove`, `pollAndHandle` | listener, connections, signal handler |
| Listener | `netwrk/ft_conn_listener.cpp` | listening socket | `handleEvent` (accept loop) | PollGroup |
| Codec / MessageFactory | `protocol/ft_msg.cpp`, `ft_msg_fctry.cpp` | none | `serialize`, `parse`, `buildMsg*` | both handlers, Connection |
| Signal handler | `loop/ft_signal.cpp` | signalfd, `terminate_signal` | constructor (blocks the signals, opens the signalfd), `handleEvent` | PollGroup, main loops |
| Utilities | `ft_utils.cpp`, `netwrk/ft_conn_utils.cpp` | uuid file | I/O only | main loops |

The concurrency that matters is on the receiver:

- One loop thread reads frames and queues requests.
- Sixteen broker workers run `handleRequest` at the same time, on any file,
  with no lock around the file or the sidecar.
- Requests of a killed uploader run are still queued and handled after a new
  run of the same uploader has started.
- The receiver process may die at any step and be restarted. Only the files
  on disk survive.

What is hard, and the properties each part needs:

- **Metadata store.**
  - The byte scan of `nextMissingChunk` must agree with "first unmarked chunk",
    padding bits included. (`NextMissingIsFirstUnmarked`)
  - Bits must only ever be set (spec section 8, invariant 3). This depends on
    the exists-then-create of `createIfNotExist` and the unlocked
    read-modify-write of `markChunk`. (part of `StoreRefinement`)
- **FileRemote and the receiver handler.**
  - Progress must be durable and truthful. Bytes written stay written, a
    chunk is recorded only after its bytes are on disk, a record is never
    lost, and COMPLETE is sent only when every chunk is recorded. These
    together are the abstract `ResumableStore`, and `FileTransfer` must
    refine it. (`StoreRefinement`)
  - Every CHUNK_REQ must be answerable. (`RequestsInRange`)
  - An uploader that stays connected must finish. (`TransferCompletes`)
- **Readiness loop.**
  - A removal must not disturb the other handles (spec section 4.5).
    (`HealthyNeverRemoved`)
  - Dead connections must eventually go. (`DeadEventuallyRemoved`)
  - The group must never grow past `max_pollables`. (`TypeOK`)
  - Every socket the receiver accepted and still holds open must belong to
    a connection in the group. (`SocketsReleased`)
- **Connection parser and codec.**
  - The parser must find exactly the frames that greedy resynchronisation
    finds (spec section 8, invariant 1). (`DemuxMatchesGreedy`)
  - Parsing a serialized message must return its fields (invariant 2).
    (`FramesDeliverMessages`)
- **Request broker.**
  - It must behave as a plain work queue: requests taken in the order they
    were queued, each by one worker, none after the stop, and none stranded
    on the condition variable while the broker runs. The abstract
    `WorkQueue` states this and `Broker` must refine it.
    (`BrokerRefinement`)
  - A termination signal must stop the receiver. The signal event ends the
    main loop, the broker's destructor runs at exit, and every worker is
    joined despite the unlocked flag read. (`TermSignalStopsServer`)
- **Connection send.**
  - `sendBuffer` is not serialised and ignores short writes. It is safe
    only if at most one frame is under way per connection.
    (`OneFrameInFlight`)

## 2. Modules

| Module | Models | State (VARIABLES) |
|---|---|---|
| `FileMetadata` | the sidecar's algorithms as operators over an explicit bitmap, and the single-threaded store (`CreateIfNotExist`, `MarkChunk`) | `metadata` ∈ {absent, empty, ok}, `bitmap` (every bit, padding included) |
| `FileTransfer` | one file, uploaded by one uploader identity over runs 1..n, received by a receiver with a set of broker workers; it composes `FileMetadata` through `INSTANCE` | disk (`metadata`, `bitmap`, `dataExists`, `data`), broker `queue`, per-worker `pc`/`req`/`rdByte`, `serverUp`, `crashes`, per-run `run`/`conn`, channels `c2s`/`s2c` |
| `ResumableStore` | the abstract promise of the receiver for one file: chunks written, chunks recorded, completion announced; no fairness, since any step may never come | `held`, `recorded`, `completed` |
| `PollGroup` | `pollAndHandle` with the listener's accept loop and the connections' reads, and which accepted descriptors are still open (`ClosesFd` is the fd >= 0 test of `~Connection`) | `pollables` (ordered), `sock` (what the peer did), `backlog`, `fdOpen` |
| `Framing` | the codec (`serialize`, the parsing constructor, `putU16/32`, `getU16/32`) as operators over byte sequences, and the byte parser of `Connection::handleEvent` as a state machine receiving one byte per step | `sent`, `input` (fixed in Init), `pos`, `buf` (`msg_buf`), `msgLen` (`msg_len`), `out` (frames handed to `handleMessage`) |
| `Broker` | `queueRequest`, the worker loop, `stopWorkers` and the joins, with the condition variable explicit, composed with the receiver's shutdown: the signal handler's event, the end of `main()`'s loop, and `~RequestBroker` at exit | `queue`, `terminate`, per-worker `wpc`/`wreq`, `handled`, `main`, `joined`, `sigPending`, `terminate_signal` |
| `WorkQueue` | the abstract promise of the broker: a FIFO of waiting requests, a set in hand, a set done, open while the main loop runs, stopped by `stopWorkers`; fair taking and finishing | `pending`, `inHand`, `done`, `open`, `stopped` |
| `MC_*` | model values and bounds for TLC | |

### How `FileTransfer` corresponds to the code

Each receiver worker runs `ServerRequestHandler::handleRequest` as a sequence
of steps. Each step is one action, and `pc[w]` names the next step. The
steps are split at every file-system call whose effect another worker or a
crash can observe:

- `Take` pops the queue (`RequestBrokerWorker::run`).
- `ReadHeader` is `makeRemoteFile(path)` for CHUNK_DATA. It leads nowhere
  unless the header is on disk.
- `MetaCheck` is the exists test of `createIfNotExist`.
- `MetaOpen` is the truncating ofstream open.
- `MetaWrite` is the `close()` that flushes the header and the zero bitmap.
- `DataCheck` is the exists test of the FileRemote constructor, and
  `DataCreate` is its truncating ofstream.
- `Save` is `saveChunk`'s range check and write.
- `MarkRead` and `MarkWrite` are the two halves of `markChunk`.
- `IsComplete` is `isComplete` together with the COMPLETE reply.
- `NextMissingReq` is `getNextMissingChunk` plus `buildMsgChunkReq`.

A failed stream read on a truncated sidecar returns UINT64_MAX (for
`nextMissingChunk`) or writes nothing (for `markChunk`), exactly as the
iostreams do.

Chunk indices cross the wire through `ToWire`, which narrows them to the
`uint16_t` parameter of MessageFactory. `WireMod` is 2^16 in the code.

The uploader side:

- `Offer` is `offer()` on a freshly connected run.
- `ClientHandle` is `ClientRequestHandler::handleRequest`. `GetChunk` is
  FileLocal::getChunk's range check. On COMPLETE it only erases the file
  from `client_files` (run state `erased`).
- `ClientExit` is the main loop's next test of `uploadsCompleted()`, run by
  the main thread apart from the worker's erase: `main()` returns and the
  connection closes (run state `done`). A kill after the erase ends the
  process the same way, so `Kill` applies only before it.
- `Kill` is the environment killing the uploader.

The receiver process:

- `Receive` turns a whole frame into a queued request
  (`handleMessage`/`queueRequest`).
- `DropClosed` loses the unread frames of a closed connection.
- `LoseFrame` is `sendBuffer` on either side losing the frame it sends
  (`EAGAIN` is ignored and a short count is not checked). The number of
  lost frames is bounded by `MaxLostFrames`. A partial frame is as good as
  lost, because `OneFrameInFlight` shows that no later frame on that
  connection could complete it.
- `ServerCrash` and `ServerRestart` kill and restart the receiver.

The hash is abstracted. The hash of the destination matches exactly when
every chunk holds the uploaded bytes (`HashMatches`).

Chunk geometry is modelled in bytes. `FileSize` and `CHUNK_SIZE` are
constants, `NChunks` is `getNumOfChunks`, `ChunkLen` is the length
`getChunk` reads, and every CHUNK_DATA carries its length. `Save` keeps
`saveChunk`'s two checks: `offset > size` and `offset + len > size`. The last,
short chunk is therefore exercised.

### The refinement

`FileTransfer` instantiates `ResumableStore` with this mapping:

- `held` is the chunks whose bytes on disk are the uploaded ones.
- `recorded` is the bits set in a readable sidecar. An empty or absent
  sidecar records nothing.
- `completed` is whether some run has been told COMPLETE (its file erased
  from `client_files`, whether or not it has exited yet).

`StoreRefinement` checks `Store!StoreSpec` as a temporal property. Every
concrete step must be a stuttering step or one abstract step. A truncation
that loses bytes breaks it, and so do a cleared bit, a bit set before its
bytes are written, and a COMPLETE sent too early.

### The broker's refinement

`Broker` instantiates `WorkQueue` with `pending` as the deque, `inHand` as
the requests of workers inside `handleRequest`, `done` as the handled set,
`open` as the main loop still running and `stopped` as `sm_terminate`.
`QueueRequest` is `Submit`, the pop in `Lock` is `TakeHead`, `Handle` is
`Finish`, `LoopExit` is `Close` and `StopWorkers` is `Stop`; every other
step (the unlocked flag read, blocking, the signal, the joins) stutters.
`BrokerRefinement` checks `Queue!QueueSpec`, fairness included: a pop
after the flag is set, a request handled twice or out of order, or a
request left in the deque while every worker sleeps breaks it.

## 3. Runs

| Run | cfg | Expect | What it shows |
|---|---|---|---|
| metadata_scan | `MC_FileMetadata.cfg` | pass | For every bitmap of a 10-chunk file (2 bytes, 6 padding bits), `nextMissingChunk(0)` equals the first unmarked chunk. |
| resume | `MC_FileTransfer_resume.cfg` | pass | One worker serves three runs that may overlap or be killed. Two crashes and two lost frames can fall anywhere. The receiver still refines `ResumableStore` (`StoreRefinement`), so write-before-mark, the crash points and lost frames are safe on their own. At most one frame is under way per connection (`OneFrameInFlight`). |
| live | `MC_FileTransfer_live.cfg` | pass | Without crashes or lost frames, with three runs that may overlap, every CHUNK_REQ is answerable and a connected run is eventually told COMPLETE. |
| wedge | `MC_FileTransfer_wedge.cfg` | violation | A crash between the sidecar's truncating open and its close leaves it empty forever. Later OFFERs get CHUNK_REQ 0xFFFF. |
| wrap | `MC_FileTransfer_wrap.cfg` | violation | With more chunks than the wire index can name (WireMod 2, 3 chunks), the transfer never completes. |
| race | `MC_FileTransfer_race.cfg` | violation | With two workers, `StoreRefinement` fails. A stale OFFER's FileRemote constructor passes its exists test and then truncates a destination whose chunk the next run has already written. The same unlocked pattern in `createIfNotExist` and `markChunk` gives other traces to the same failure. |
| poll_remove | `MC_PollGroup_remove.cfg` | pass | With room for two connections and three clients, the group stays within `max_pollables` (the third client is refused), and every closed or reset connection is eventually removed, also when its neighbour's removal shifts the revents it is judged on. |
| demux | `MC_Framing_demux.cfg` | pass | For up to two messages of every type after benign stray bytes, the byte parser emits exactly the frames that greedy resynchronisation finds (spec section 8, invariant 1), and parse(serialize(m)) returns every field serialize writes. |
| resync | `MC_Framing_resync.cfg` | violation | A lone stray `0x87` before a frame makes the parser drop the frame's own first magic byte. The frame is lost (spec 4.2, step 2). |
| broker | `MC_Broker.cfg` | pass | The broker refines `WorkQueue`: FIFO taking, at most once, nothing taken after `sm_terminate`, and every waiting request taken while the broker runs. A termination signal always stops the receiver: the loop ends, `stopWorkers` runs and every worker is joined, even with stale reads of the unlocked `sm_terminate`. |
| poll_shift | `MC_PollGroup_shift.cfg` | violation | After a reset connection is removed, the healthy connection after it is removed and destroyed on the reset's revents. |
| poll_fdleak | `MC_PollGroup_fdleak.cfg` | violation | A peer that closes or resets its end is removed from the group, but its socket stays open. `handleEvent` sets `fd = -1` without `close()`, and `~Connection` closes only when fd >= 0 (`SocketsReleased`). |

Each violation run is a finding in `PROJECT.json`. Each property of a passing
run has a mutant: a plausible bug in the modelled code that TLC then catches.

The demux run's stray prefixes are the ones the code handles as the spec
requires: none, non-magic bytes, the first two magic bytes then `0x00` (spec
scenario 5), and a whole magic with a bad type tag. The resync run adds the
one prefix it does not handle.

The codec also disagrees with spec 4.1 on CHUNK_DATA. `serialize` never
writes the 32-byte chunk hash, and the parsing constructor fills it with
zeros. `Serialize` and `Parse` show this. `FramesDeliverMessages` checks the
round trip of every other field, and the hazard list records the missing
hash.

### Bounds

- `FileSize` = 5 and `CHUNK_SIZE` = 3 give two chunks: a full one and a
  short last one of 2 bytes. That is enough for one chunk saved and one
  missing, and for the short-chunk checks of `saveChunk`. The bitmap then
  has one byte and six padding bits.
- The metadata run uses 10 chunks, so that the scan crosses a full byte.
- `WireMod` = 4 in the passing runs, so that no index wraps and 0xFFFF is a
  distinct value. It is 2 with 3 chunks (`FileSize` = 7) in `wrap`.
- Three runs are enough for a killed run, a resumed run and a re-offer after
  completion. In `resume` and `live` the runs may overlap, which is two
  uploaders started with the same uuid. Two crashes and two lost frames can
  fall between any two steps in `resume`.
- Two workers are enough for every two-party race. The passing runs use one
  worker because two workers break the properties (see the findings).
- PollGroup uses three clients. The removal and shift runs use
  `max_pollables` = 3 (the listener plus two connections): the group fills
  and the third client is refused, and two connections sit side by side,
  so that a removal shifts the revents of the connection after it. The
  descriptor-leak run uses `max_pollables` = 2, which is enough for one
  connection to be removed.
  The code's signal-handler pollable is left out of the group. It sits
  before every connection, is never removed, and so cannot be hit by the
  revents shift.
- Framing uses one message of each type, with real 16-byte uuids, 64-byte
  hashes, and values on byte boundaries (258, 65535). One uuid and one chunk
  contain the magic bytes. Up to two messages go on one connection (one in
  the resync run).
- Broker uses two workers and three requests, so that one worker can block
  while the other handles a request, and requests can remain queued at
  shutdown. Requests may still be queued after the signal event, because
  connections later in the same pass are still handled.

### Fairness

- `FileTransfer` assumes weak fairness of each worker's step, of the
  receiver's read loop, of the uploader's handler and of the receiver's
  restart.
  - The workers block only on the queue's condition variable.
  - The loops poll forever.
  - A restarted receiver is an operator's action that the liveness claim
    takes for granted.
- The uploader's exit after the erase is weakly fair: its main loop tests
  `uploadsCompleted()` on every pass, and `poll` returns at least every
  500 ms.
- The uploader is not assumed to stay alive. `TransferCompletes` is
  conditional on its connection staying open.
- `PollGroup` assumes weak fairness of `pollAndHandle`, because the main loop
  calls it again and again. `PollFairness` writes it out: a pass is total
  and deterministic, so it is enabled (as a step that changes the state)
  exactly when `PassChanges` holds. This form spares TLC from computing
  `ENABLED` of the recursive pass.
- `WorkQueue` assumes weak fairness of taking the head and of finishing,
  which the workers' fairness provides.
- `Broker` assumes weak fairness of these steps:
  - each worker thread and each join;
  - the signal event, because `pollAndHandle` is called again and again
    with a 500 ms timeout;
  - the loop exit;
  - `stopWorkers`, because returning from `main()` runs the static
    destructors.

  Queueing and the signal itself get no fairness, because peers and the
  user decide them.
- `Framing` checks only safety. The parser stops when the input is used up,
  because `recv` would block, so its cfgs turn off the deadlock check.

## 4. Not modelled, and why

- `MessageFactory::buildMsgOffer`'s 32-bit file size. Field values above
  2^31 do not fit TLC's integers, so this needs a scaled byte base.
- Frames whose inner lengths exceed their envelope. Parsing them reads past
  the buffer, which is undefined behaviour.
- What a lost frame does to liveness. With no timeout, the peer waits
  forever, so `TransferCompletes` is checked without loss. The hazard
  list records this consequence.
- The order of static destruction at exit. `~RequestBroker` runs when
  `Connection::sm_request_broker` is destroyed. The broker's own statics are
  in another translation unit, and the relative order depends on link
  order. Using a destroyed mutex or queue is undefined behaviour. `Broker`
  assumes that those statics outlive `stopWorkers`.
- The uploader's shutdown by signal. It is the environment's `Kill` in
  `FileTransfer`.
- Offering several files in one uploader run. With one file the erase and
  the main loop's `empty()` test are separate steps (`ClientHandle`,
  `ClientExit`); with several, the unlocked concurrent use of the
  `std::map` is undefined behaviour that TLC cannot represent.
- A re-offer of a changed file under the same name. `createIfNotExist`
  keeps the old sidecar header, so the receiver checks the new content
  against the old size and hash and never completes. `FileTransfer` offers
  one fixed file; the hazard list records this.
- The uuid file and socket options, which are pure I/O. Descriptor leaks
  are modelled only in `PollGroup` (`fdOpen`). `EMFILE` from `accept()` is
  not modelled.

## 5. Further work

1. The spec's empty-file scenario (`FileSize` = 0) as a run of its own.
2. The codec's 32-bit `file_size` through a scaled byte base, and parsing of
   hostile frames (undefined behaviour as a nondeterministic read).
3. A second file content under one name, to show the stale-sidecar re-offer.
