------------------------------ MODULE MC_Broker ------------------------------
(* Two workers and three requests: enough for a worker blocked while the  *)
(* other handles, and for requests left in the queue at shutdown.         *)
EXTENDS Broker

CONSTANTS w1, w2, r1, r2, r3

MC_Workers == {w1, w2}
MC_Reqs == {r1, r2, r3}
=============================================================================
