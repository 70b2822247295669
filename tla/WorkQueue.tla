------------------------------ MODULE WorkQueue ------------------------------
(***************************************************************************)
(* What the request broker promises its users, with no threads, locks or  *)
(* condition variable: requests are accepted while the owner runs, taken  *)
(* in the order they were accepted, each taken at most once and finished  *)
(* once taken; after the broker is stopped nothing more is taken, and what *)
(* is still waiting is dropped. A taken request is always finished, even  *)
(* after the stop.                                                         *)
(***************************************************************************)
EXTENDS Sequences

CONSTANT Reqs

VARIABLES
    pending,   \* accepted, not yet taken, in acceptance order
    inHand,    \* taken, handler not yet returned
    done,      \* handler returned
    open,      \* the owner still submits requests
    stopped    \* the broker has been told to stop

qvars == <<pending, inHand, done, open, stopped>>

\* Requests the broker has seen in any form.
Seen == {pending[i] : i \in DOMAIN pending} \cup inHand \cup done

QInit ==
    /\ pending = <<>>
    /\ inHand = {}
    /\ done = {}
    /\ open = TRUE
    /\ stopped = FALSE

Submit(r) ==
    /\ open
    /\ r \notin Seen
    /\ pending' = Append(pending, r)
    /\ UNCHANGED <<inHand, done, open, stopped>>

\* Only the oldest waiting request can be taken, and only before the stop.
TakeHead ==
    /\ ~stopped
    /\ pending # <<>>
    /\ inHand' = inHand \cup {Head(pending)}
    /\ pending' = Tail(pending)
    /\ UNCHANGED <<done, open, stopped>>

Finish(r) ==
    /\ r \in inHand
    /\ inHand' = inHand \ {r}
    /\ done' = done \cup {r}
    /\ UNCHANGED <<pending, open, stopped>>

Close ==
    /\ open
    /\ open' = FALSE
    /\ UNCHANGED <<pending, inHand, done, stopped>>

Stop ==
    /\ ~open
    /\ ~stopped
    /\ stopped' = TRUE
    /\ UNCHANGED <<pending, inHand, done, open>>

QNext ==
    \/ \E r \in Reqs : Submit(r) \/ Finish(r)
    \/ TakeHead \/ Close \/ Stop

\* A waiting request is taken unless the broker stops first; a taken one
\* is finished. Closing and stopping are the owner's business.
QueueSpec ==
    /\ QInit /\ [][QNext]_qvars
    /\ WF_qvars(TakeHead)
    /\ \A r \in Reqs : WF_qvars(Finish(r))
=============================================================================
