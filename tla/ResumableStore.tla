--------------------------- MODULE ResumableStore ---------------------------
(***************************************************************************)
(* What the receiver promises about one file, whatever the interleaving of *)
(* its workers and its crashes: progress is durable and truthful.          *)
(*                                                                         *)
(*  - held:      the chunks whose bytes are in the destination file;       *)
(*  - recorded:  the chunks the receiver has recorded as received (and     *)
(*               will therefore never ask for again);                      *)
(*  - completed: some uploader has been told the transfer is complete.     *)
(*                                                                         *)
(* A chunk is written, then recorded; nothing written or recorded is ever  *)
(* lost; completion is announced only when every chunk is recorded. Any    *)
(* of these steps may never happen (a crash, a killed uploader), so the    *)
(* specification has no fairness.                                          *)
(***************************************************************************)
EXTENDS FiniteSets

CONSTANT Chunks    \* the chunks of the file

VARIABLES held, recorded, completed

storeVars == <<held, recorded, completed>>

StoreTypeOK ==
    /\ held \subseteq Chunks
    /\ recorded \subseteq held
    /\ completed \in BOOLEAN

StoreInit ==
    /\ held = {}
    /\ recorded = {}
    /\ completed = FALSE

\* The bytes of chunk k reach the destination file.
Write(k) ==
    /\ k \notin held
    /\ held' = held \cup {k}
    /\ UNCHANGED <<recorded, completed>>

\* Chunk k, already on disk, is recorded as received.
Record(k) ==
    /\ k \in held \ recorded
    /\ recorded' = recorded \cup {k}
    /\ UNCHANGED <<held, completed>>

\* Completion is announced to an uploader.
Complete ==
    /\ recorded = Chunks
    /\ completed' = TRUE
    /\ UNCHANGED <<held, recorded>>

StoreNext ==
    \/ \E k \in Chunks : Write(k) \/ Record(k)
    \/ Complete

StoreSpec == StoreInit /\ [][StoreNext]_storeVars
=============================================================================
