--------------------------- MODULE MC_FileTransfer ---------------------------
(* Model values for the receiver's worker threads and the symmetry between *)
(* them (used by the safety runs only).                                    *)
EXTENDS FileTransfer, TLC

CONSTANTS w1, w2

WorkerSymmetry == Permutations(Workers)
=============================================================================
