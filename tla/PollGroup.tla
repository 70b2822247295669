----------------------------- MODULE PollGroup -----------------------------
(***************************************************************************)
(* The receiver's readiness loop (src/src/loop/ft_poll_grp.cpp) with its   *)
(* ConnectionListener (netwrk/ft_conn_listener.cpp) and the Connections it *)
(* accepts (netwrk/ft_conn.cpp, handleEvent's reads only).                 *)
(*                                                                         *)
(* `pollables` is PollGroup::pollables; cached_pollfd is rebuilt from it   *)
(* on every add/remove, except its revents, which poll() fills and which   *)
(* stay where they are. The data of a connection is left out: `sock` only  *)
(* says what the peer has done to the socket.                              *)
(***************************************************************************)
EXTENDS Naturals, Sequences, SequencesExt

CONSTANTS
    Listener,       \* the ConnectionListener pollable
    Conns,          \* client connections that may be accepted
    MaxPollables    \* PollGroup::max_pollables

ASSUME MaxPollables \in Nat \ {0} /\ Listener \notin Conns

VARIABLES
    pollables,  \* PollGroup::pollables, in order
    sock,       \* per connection: the socket as the peer left it
    backlog,    \* connections waiting in the listen queue, in order
    fdOpen      \* connections whose accepted socket the receiver holds open

vars == <<pollables, sock, backlog, fdOpen>>

\* "none": not connected; "idle": connected, nothing to read; "data":
\* bytes to read; "eof": peer closed (FIN); "reset": peer reset (RST);
\* "fdinv": handleEvent set fd = -1; "gone": the Connection was destroyed.
SockStates == {"none", "idle", "data", "eof", "reset", "fdinv", "gone"}

Healthy == {"idle", "data"}

InGroup(c) == c \in Range(pollables)

TypeOK ==
    /\ pollables \in Seq({Listener} \cup Conns)
    /\ Len(pollables) <= MaxPollables
    /\ sock \in [Conns -> SockStates]
    /\ backlog \in Seq(Conns)
    /\ fdOpen \subseteq Conns

Init ==
    /\ pollables = <<Listener>>
    /\ sock = [c \in Conns |-> "none"]
    /\ backlog = <<>>
    /\ fdOpen = {}

-----------------------------------------------------------------------------
(* One call of pollAndHandle: the loop's state is a record with the        *)
(* pollables, the revents array, sockets and backlog.                      *)

\* revents poll() reports for a pollable (only POLLIN is requested; POLLERR
\* and POLLHUP are always reported).
Revents(h, s, bl) ==
    IF h = Listener THEN (IF bl # <<>> THEN {"in"} ELSE {})
    ELSE CASE s[h] = "data"  -> {"in"}
         []   s[h] = "eof"   -> {"in"}
         []   s[h] = "reset" -> {"in", "err", "hup"}
         []   OTHER          -> {}

\* Mutant of AcceptAll: add() without its capacity check.
RECURSIVE AcceptAllNoLimit(_)
AcceptAllNoLimit(st) ==
    IF st.backlog = <<>> THEN st
    ELSE AcceptAllNoLimit([st EXCEPT !.backlog = Tail(@),
                                     !.pl = Append(@, Head(st.backlog)),
                                     !.open = @ \cup {Head(st.backlog)},
                                     !.rev = Append(@, {})])

\* ConnectionListener::handleEvent: accept() until the backlog is empty and
\* add each Connection; add() appends a pollable and a zeroed pollfd. When
\* the group is full add() throws: the new Connection is destroyed (its
\* destructor closes the fd) and the exception ends the accept loop.
RECURSIVE AcceptAll(_)
AcceptAll(st) ==
    IF st.backlog = <<>> THEN st
    ELSE LET c   == Head(st.backlog)
             st1 == [st EXCEPT !.backlog = Tail(@)]
         IN  IF Len(st.pl) >= MaxPollables
             THEN [st1 EXCEPT !.sock[c] = "gone"]
             ELSE AcceptAll([st1 EXCEPT !.pl = Append(@, c),
                                        !.open = @ \cup {c},
                                        !.rev = Append(@, {})])

\* Connection::handleEvent: recv until EAGAIN; recv() = 0 (peer closed) or
\* a failure other than EAGAIN/EINTR (reset) sets fd = -1.
HandleEvent(st, h) ==
    IF h = Listener THEN AcceptAll(st)
    ELSE CASE st.sock[h] \in {"data", "idle"} -> [st EXCEPT !.sock[h] = "idle"]
         []   st.sock[h] \in {"eof", "reset"} -> [st EXCEPT !.sock[h] = "fdinv"]
         []   OTHER                           -> st

\* ~Connection: shutdown and close the fd, only if it is still >= 0.
ClosesFd(st, h) == st.sock[h] # "fdinv"

\* PollGroup::remove: erase the pollable, resize cached_pollfd (dropping
\* its last entry) and rewrite fd/events of the rest; revents untouched.
\* The Connection is destroyed with its last reference.
RemovePollable(st, i) ==
    LET h == st.pl[i] IN
    [st EXCEPT !.pl   = RemoveAt(@, i),
               !.rev  = SubSeq(@, 1, Len(@) - 1),
               !.sock = IF h = Listener THEN @ ELSE [@ EXCEPT ![h] = "gone"],
               !.open = IF h # Listener /\ ClosesFd(st, h)
                        THEN @ \ {h} ELSE @]

\* Mutant of IsDead: the fd == -1 test is missing.
IsDeadNoFdCheck(st, rv, h) == rv \cap {"err", "hup"} # {}

\* The removal test of pollAndHandle, after the handler ran.
IsDead(st, rv, h) ==
    \/ rv \cap {"err", "hup"} # {}
    \/ h # Listener /\ st.sock[h] = "fdinv"

\* The for loop of pollAndHandle over i, with i-- after a removal.
RECURSIVE Iterate(_, _)
Iterate(st, i) ==
    IF i > Len(st.pl) THEN st
    ELSE IF st.rev[i] = {} THEN Iterate(st, i + 1)
    ELSE LET h   == st.pl[i]
             rv  == st.rev[i]
             st2 == IF "in" \in rv THEN HandleEvent(st, h) ELSE st
         IN  IF IsDead(st2, rv, h)
             THEN Iterate(RemovePollable(st2, i), i)
             ELSE Iterate(st2, i + 1)

\* pollAndHandle: poll() fills revents for every pollable, then the loop;
\* the state the pass leaves behind.
Pass ==
    LET st0 == [pl |-> pollables, sock |-> sock, backlog |-> backlog,
                open |-> fdOpen,
                rev |-> [i \in 1 .. Len(pollables) |->
                            Revents(pollables[i], sock, backlog)]]
    IN  Iterate(st0, 1)

PollAndHandle ==
    LET st == Pass IN
    /\ pollables' = st.pl
    /\ sock' = st.sock
    /\ backlog' = st.backlog
    /\ fdOpen' = st.open

-----------------------------------------------------------------------------
(* The peers                                                               *)

Connect(c) ==
    /\ sock[c] = "none"
    /\ sock' = [sock EXCEPT ![c] = "idle"]
    /\ backlog' = Append(backlog, c)
    /\ UNCHANGED <<pollables, fdOpen>>

Send(c) ==
    /\ sock[c] = "idle"
    /\ sock' = [sock EXCEPT ![c] = "data"]
    /\ UNCHANGED <<pollables, backlog, fdOpen>>

PeerClose(c) ==
    /\ sock[c] \in Healthy
    /\ sock' = [sock EXCEPT ![c] = "eof"]
    /\ UNCHANGED <<pollables, backlog, fdOpen>>

PeerReset(c) ==
    /\ sock[c] \in Healthy \cup {"eof"}
    /\ sock' = [sock EXCEPT ![c] = "reset"]
    /\ UNCHANGED <<pollables, backlog, fdOpen>>

Next ==
    \/ PollAndHandle
    \/ \E c \in Conns : Connect(c) \/ Send(c) \/ PeerClose(c) \/ PeerReset(c)

\* PollAndHandle is total and deterministic, so <<PollAndHandle>>_vars is
\* enabled exactly when a pass would change the state.
PassChanges ==
    LET st == Pass IN <<st.pl, st.sock, st.backlog, st.open>> # vars

\* The server's main loop calls pollAndHandle over and over: weak fairness
\* of PollAndHandle, with its ENABLED written out as PassChanges.
PollFairness == <>[]PassChanges => []<><<PollAndHandle>>_vars

Spec == Init /\ [][Next]_vars /\ PollFairness

-----------------------------------------------------------------------------
(* Properties                                                              *)

(* A call of pollAndHandle removes only connections whose peer has closed  *)
(* or reset them: a connection that is still healthy when the call starts  *)
(* stays in the group (spec 4.5: removal during iteration must not disturb *)
(* the other handles).                                                     *)
HealthyNeverRemoved ==
    [][\A c \in Conns : InGroup(c) /\ sock[c] \in Healthy => InGroup(c)']_vars

(* A connection whose peer has closed or reset it is eventually removed   *)
(* from the group (and destroyed), even when other removals in the same   *)
(* call shift the revents it is judged on.                                 *)
DeadEventuallyRemoved ==
    \A c \in Conns : (InGroup(c) /\ sock[c] \in {"eof", "reset"}) ~> ~InGroup(c)

(* Every socket the receiver has accepted and still holds open belongs to  *)
(* a connection in the group: a Connection removed from the PollGroup and  *)
(* destroyed has closed its fd, whichever way its peer went away (FIN,     *)
(* RST, or a read error), so the process does not leak descriptors.        *)
SocketsReleased == \A c \in fdOpen : InGroup(c)
=============================================================================
