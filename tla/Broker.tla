------------------------------ MODULE Broker -------------------------------
(***************************************************************************)
(* The request broker (src/src/request/ft_req_brkr.cpp): a FIFO of        *)
(* requests, a terminate flag, one mutex and one condition variable shared *)
(* by the loop thread (queueRequest, and stopWorkers from the broker's     *)
(* destructor) and the worker threads (RequestBrokerWorker::run).          *)
(*                                                                         *)
(* Each action is one critical region or one unlocked step. The condition *)
(* variable is explicit: a worker that finds the queue empty blocks and    *)
(* only a notify_all wakes it. The handler is one step: handleRequest      *)
(* runs to completion or throws, and the worker catches and goes on.       *)
(*                                                                         *)
(* The receiver's main() (src/src/ft_server.cpp) drives the shutdown: a    *)
(* termination signal makes the SignalHandler's signalfd readable          *)
(* (src/src/loop/ft_signal.cpp), pollAndHandle runs its handleEvent, which *)
(* sets terminate_signal, and the main loop ends. The broker outlives      *)
(* main(): Connection::sm_request_broker still holds it, so its destructor *)
(* (stopWorkers) runs among the static destructors at exit.                *)
(***************************************************************************)
EXTENDS Naturals, Sequences, FiniteSets

CONSTANTS
    Workers,   \* RequestBrokerWorker threads (n_workers)
    Reqs,      \* requests the loop thread may queue, each once
    None       \* no request (RequestPtr is empty)

VARIABLES
    queue,      \* sm_req_list
    terminate,  \* sm_terminate
    wpc,        \* per worker: where its thread is
    wreq,       \* per worker: the request it handles
    handled,    \* requests whose handleRequest has run
    main,       \* the main thread: running, exiting, joining, done
    joined,     \* workers stopWorkers has joined so far
    sigPending, \* a termination signal is queued on the signalfd
    terminate_signal  \* SignalHandler::terminate_signal

vars == <<queue, terminate, wpc, wreq, handled, main, joined,
          sigPending, terminate_signal>>
sigVars == <<sigPending, terminate_signal>>

ASSUME None \notin Reqs

\* Requests the loop thread has queued so far.
Queued == handled \cup {queue[i] : i \in DOMAIN queue}
             \cup {wreq[w] : w \in {v \in Workers : wpc[v] = "handle"}}

TypeOK ==
    /\ queue \in Seq(Reqs)
    /\ terminate \in BOOLEAN
    /\ wpc \in [Workers -> {"top", "recheck", "lock", "blocked", "handle", "exited"}]
    /\ wreq \in [Workers -> Reqs \cup {None}]
    /\ handled \subseteq Reqs
    /\ main \in {"running", "exiting", "joining", "done"}
    /\ joined \subseteq Workers
    /\ sigPending \in BOOLEAN
    /\ terminate_signal \in BOOLEAN

\* RequestBroker constructor: startWorkers clears the flag and starts the
\* threads, each entering run(); the SignalHandler constructor blocks the
\* termination signals and opens the signalfd with the flag clear.
Init ==
    /\ queue = <<>>
    /\ terminate = FALSE
    /\ wpc = [w \in Workers |-> "top"]
    /\ wreq = [w \in Workers |-> None]
    /\ handled = {}
    /\ main = "running"
    /\ joined = {}
    /\ sigPending = FALSE
    /\ terminate_signal = FALSE

\* notify_all: every worker blocked in sm_req_list_cv.wait wakes and
\* competes for the mutex again.
WakeAll(pc) == [w \in Workers |-> IF pc[w] = "blocked" THEN "lock" ELSE pc[w]]

\* Mutant of QueueRequest: the request is queued without notify_all.
QueueRequestNoNotify(r) ==
    /\ main = "running"
    /\ r \notin Queued
    /\ queue' = Append(queue, r)
    /\ UNCHANGED <<terminate, wpc, wreq, handled, main, joined, sigVars>>

\* queueRequest (loop thread, under the mutex): push_back and notify_all.
QueueRequest(r) ==
    /\ main = "running"
    /\ r \notin Queued
    /\ queue' = Append(queue, r)
    /\ wpc' = WakeAll(wpc)
    /\ UNCHANGED <<terminate, wreq, handled, main, joined, sigVars>>

\* A termination signal (INT, QUIT, TERM, TSTP, HUP) reaches the process;
\* blocked by sigprocmask, it waits on the signalfd. Signals coalesce.
Signal ==
    /\ main = "running"
    /\ ~sigPending
    /\ sigPending' = TRUE
    /\ UNCHANGED <<queue, terminate, wpc, wreq, handled, main, joined, terminate_signal>>

\* pollAndHandle finds the signalfd readable: SignalHandler::handleEvent
\* reads every queued siginfo, then sets terminate_signal.
SignalEvent ==
    /\ main = "running"
    /\ sigPending
    /\ sigPending' = FALSE
    /\ terminate_signal' = TRUE
    /\ UNCHANGED <<queue, terminate, wpc, wreq, handled, main, joined>>

\* while(pollAndHandle() && !receivedTermSignal()): after the pass in which
\* the flag was set (connections later in that pass may still queue
\* requests) the loop ends and main() returns. The broker is not yet
\* destroyed: its workers go on taking and handling requests.
LoopExit ==
    /\ main = "running"
    /\ terminate_signal
    /\ main' = "exiting"
    /\ UNCHANGED <<queue, terminate, wpc, wreq, handled, joined, sigVars>>

\* ~RequestBroker at exit (the last reference, Connection::sm_request_broker,
\* is a static) calls stopWorkers; first block, under the mutex: set the
\* flag, notify_all.
StopWorkers ==
    /\ main = "exiting"
    /\ terminate' = TRUE
    /\ wpc' = WakeAll(wpc)
    /\ main' = "joining"
    /\ UNCHANGED <<queue, wreq, handled, joined, sigVars>>

\* stopWorkers, the join loop: join() returns once the thread has left
\* run(); after the last one the vector is cleared.
Join(w) ==
    /\ main = "joining"
    /\ w \notin joined
    /\ wpc[w] = "exited"
    /\ joined' = joined \cup {w}
    /\ main' = IF joined' = Workers THEN "done" ELSE main
    /\ UNCHANGED <<queue, terminate, wpc, wreq, handled, sigVars>>

\* Mutant of Top: the loop condition does not test the flag.
TopNoFlagCheck(w) ==
    /\ wpc[w] \in {"top", "recheck"}
    /\ wpc' = [wpc EXCEPT ![w] = "lock"]
    /\ UNCHANGED <<queue, terminate, wreq, handled, main, joined, sigVars>>

\* while(!sm_terminate), read without the mutex: a data race. Besides the
\* current value it may return a stale FALSE, except after `continue`
\* ("recheck"): the worker has just read TRUE under the lock and cannot
\* read an older value again (read-read coherence).
Top(w) ==
    /\ wpc[w] \in {"top", "recheck"}
    /\ \E seen \in IF wpc[w] = "recheck" THEN {terminate} ELSE {terminate, FALSE} :
         wpc' = [wpc EXCEPT ![w] = IF seen THEN "exited" ELSE "lock"]
    /\ UNCHANGED <<queue, terminate, wreq, handled, main, joined, sigVars>>

\* Mutant of Lock: the flag is not tested under the mutex.
LockNoTerminateCheck(w) ==
    /\ wpc[w] = "lock"
    /\ IF queue = <<>>
       THEN /\ wpc' = [wpc EXCEPT ![w] = IF terminate THEN "recheck" ELSE "blocked"]
            /\ UNCHANGED <<queue, wreq>>
       ELSE /\ wreq' = [wreq EXCEPT ![w] = Head(queue)]
            /\ queue' = Tail(queue)
            /\ wpc' = [wpc EXCEPT ![w] = "handle"]
    /\ UNCHANGED <<terminate, handled, main, joined, sigVars>>

\* The locked region: wait while the queue is empty and the flag is clear;
\* with the flag set, `continue` leaves the loop; else pop the front.
Lock(w) ==
    /\ wpc[w] = "lock"
    /\ IF terminate
       THEN /\ wpc' = [wpc EXCEPT ![w] = "recheck"]
            /\ UNCHANGED <<queue, wreq>>
       ELSE IF queue = <<>>
       THEN /\ wpc' = [wpc EXCEPT ![w] = "blocked"]
            /\ UNCHANGED <<queue, wreq>>
       ELSE /\ wreq' = [wreq EXCEPT ![w] = Head(queue)]
            /\ queue' = Tail(queue)
            /\ wpc' = [wpc EXCEPT ![w] = "handle"]
    /\ UNCHANGED <<terminate, handled, main, joined, sigVars>>

\* sm_req_hndlr->handleRequest(req), exceptions caught.
Handle(w) ==
    /\ wpc[w] = "handle"
    /\ handled' = handled \cup {wreq[w]}
    /\ wpc' = [wpc EXCEPT ![w] = "top"]
    /\ wreq' = [wreq EXCEPT ![w] = None]
    /\ UNCHANGED <<queue, terminate, main, joined, sigVars>>

\* The process has stopped its workers and goes on to exit.
Exited ==
    /\ main = "done"
    /\ UNCHANGED vars

WorkerStep(w) == Top(w) \/ Lock(w) \/ Handle(w)

Next ==
    \/ \E r \in Reqs : QueueRequest(r)
    \/ Signal \/ SignalEvent \/ LoopExit
    \/ StopWorkers
    \/ \E w \in Workers : Join(w) \/ WorkerStep(w)
    \/ Exited

\* Threads are scheduled: every worker and the main thread keep moving. The
\* main loop calls pollAndHandle again and again (poll times out after
\* 500 ms), so a readable signalfd is handled and the loop test is made;
\* returning from main() runs the static destructors. Whether a peer queues
\* a request and whether a signal comes is up to the environment, so
\* QueueRequest and Signal get no fairness.
Spec ==
    /\ Init /\ [][Next]_vars
    /\ \A w \in Workers : WF_vars(WorkerStep(w)) /\ WF_vars(Join(w))
    /\ WF_vars(SignalEvent) /\ WF_vars(LoopExit) /\ WF_vars(StopWorkers)

-----------------------------------------------------------------------------
(* Properties                                                              *)

\* The refinement mapping: the broker's deque is the waiting line, the
\* requests of workers inside handleRequest are in hand, the main loop
\* running is the queue open, and sm_terminate is the stop.
Queue == INSTANCE WorkQueue WITH
    Reqs    <- Reqs,
    pending <- queue,
    inHand  <- {wreq[w] : w \in {v \in Workers : wpc[v] = "handle"}},
    done    <- handled,
    open    <- main = "running",
    stopped <- terminate

(* The broker implements the work queue: requests leave the deque in the  *)
(* order queueRequest put them there, each reaches exactly one worker's    *)
(* handleRequest, none is popped once sm_terminate is set under the mutex  *)
(* (whatever stale value a worker's unlocked read of it saw), a handler    *)
(* already running completes after the stop, and a request waiting while   *)
(* the broker runs is taken: queueRequest's notify_all wakes a worker      *)
(* blocked on the condition variable.                                      *)
BrokerRefinement == Queue!QueueSpec

(* A termination signal stops the receiver: the signal handler's event     *)
(* ends the main loop, the broker's destructor sets sm_terminate, and every *)
(* worker, whether blocked on the condition variable, handling a request   *)
(* or past a stale unlocked read of the flag, leaves run() and is joined.  *)
TermSignalStopsServer == sigPending ~> main = "done"
=============================================================================
