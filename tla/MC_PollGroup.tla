---------------------------- MODULE MC_PollGroup ----------------------------
(* PollGroup with a listener and three clients. MaxPollables is set per    *)
(* run: 3 in the removal and shift runs (the group fills, a client is      *)
(* refused, and two connections sit side by side) and 2 in the leak run.   *)
EXTENDS PollGroup

CONSTANTS l, c1, c2, c3

MC_Conns == {c1, c2, c3}
=============================================================================
