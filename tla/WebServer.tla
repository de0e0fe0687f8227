------------------------------ MODULE WebServer ------------------------------
(***************************************************************************)
(* The web server of a Phantom: the WebServer object in the main thread,   *)
(* and the master and worker threads of mongoose that accept connections,  *)
(* queue them and serve them.  A worker calls WebServer::handleRequest,    *)
(* which puts a WebServerResponse on its own stack, lists it in            *)
(* m_pendingResponses, sends it to the script with the queued signal       *)
(* newRequest and sleeps until the response is closed.                     *)
(*                                                                         *)
(* A connection carries one request (keep-alive is off by default), so     *)
(* connections, requests and responses share their numbers, given in the   *)
(* order of accept().  Use of a response after its worker has returned is  *)
(* undefined: the process dies or goes on.                                 *)
(***************************************************************************)
EXTENDS Naturals, Sequences, FiniteSets

CONSTANTS
    Workers,         \* the worker threads (NUM_THREADS, 10 by default)
    QueueSize,       \* ARRAY_SIZE(ctx->queue), 20 in the code
    MaxConnections,  \* bound: connections accepted in a behaviour
    MaxListens       \* bound: successful calls of listenOnPort

ASSUME WebServerAssumption ==
    /\ IsFiniteSet(Workers)
    /\ QueueSize \in Nat \ {0}
    /\ MaxConnections \in Nat
    /\ MaxListens \in Nat

Connections == 1..MaxConnections

VARIABLES
    \* WebServer, main thread
    mpc,       \* "js", or in close(): "closing" holds m_mutex, "stopping" spins
    up,        \* m_ctx is not 0
    listens,   \* calls of listenOnPort so far
    closing,   \* m_closing
    pending,   \* m_pendingResponses
    toClose,   \* what the loop of close() has not reached yet
    events,    \* newRequest signals posted to the main thread
    handled,   \* responses the script has got
    scripted,  \* history: responses the script has closed
    \* WebServerResponse
    alive,     \* responses whose worker is still in handleRequest
    released,  \* per response, what its semaphore holds
    \* mongoose
    stop,      \* ctx->stop_flag
    threads,   \* ctx->num_threads
    slot,      \* ctx->queue
    head,      \* ctx->sq_head
    tail,      \* ctx->sq_tail
    apc,       \* where master_thread is
    accepted,  \* connections accepted so far
    fifo,      \* history: connections queued and not taken, in order
    wpc,       \* where each worker_thread is
    conn,      \* the connection each worker serves
    \* undefined behaviour
    fault,     \* history: a response was used after its end
    crashed    \* the process is dead

scriptVars   == <<up, listens, handled, scripted>>
responseVars == <<closing, pending, alive, released>>
masterVars   == <<apc, accepted>>
queueVars    == <<slot, head, tail, fifo>>
vars == <<mpc, scriptVars, responseVars, toClose, events, stop, threads,
          masterVars, queueVars, wpc, conn, fault, crashed>>

TypeOK ==
    /\ mpc \in {"js", "closing", "stopping"}
    /\ up \in BOOLEAN
    /\ listens \in 0..MaxListens
    /\ closing \in BOOLEAN
    /\ pending \in Seq(Connections)
    /\ toClose \in Seq(Connections)
    /\ events \in Seq(Connections)
    /\ handled \subseteq Connections
    /\ scripted \subseteq handled
    /\ alive \subseteq Connections
    /\ released \in [Connections -> Nat]
    /\ stop \in 0..2
    /\ threads \in 0..Cardinality(Workers)
    /\ slot \in [0..QueueSize - 1 -> 0..MaxConnections]
    /\ head \in 0..2 * QueueSize /\ tail \in 0..QueueSize
    /\ apc \in {"loop", "select", "produce", "full", "leave", "join", "exited"}
    /\ accepted \in 0..MaxConnections
    /\ fifo \in Seq(Connections)
    /\ wpc \in [Workers -> {"loop", "consume", "committed", "waiting", "request",
                            "emit", "acquire", "woken", "leaving", "exited"}]
    /\ conn \in [Workers -> 0..MaxConnections]
    /\ fault \in BOOLEAN
    /\ crashed \in BOOLEAN

OnePermit == 1   \* mutant
\* QSemaphore wait(0)
Permits == 0

Init ==
    /\ mpc = "js"
    /\ up = FALSE
    /\ listens = 0
    /\ closing = FALSE
    /\ pending = <<>>
    /\ toClose = <<>>
    /\ events = <<>>
    /\ handled = {}
    /\ scripted = {}
    /\ alive = {}
    /\ released = [r \in Connections |-> Permits]
    /\ stop = 0
    /\ threads = 0
    /\ slot = [i \in 0..QueueSize - 1 |-> 0]
    /\ head = 0
    /\ tail = 0
    /\ apc = "exited"
    /\ accepted = 0
    /\ fifo = <<>>
    /\ wpc = [w \in Workers |-> "exited"]
    /\ conn = [w \in Workers |-> 0]
    /\ fault = FALSE
    /\ crashed = FALSE

-----------------------------------------------------------------------------
(* Helpers *)

\* response->close(): m_close->release(), on a response that may be gone.
Close(r) ==
    \/ /\ r \in alive
       /\ released' = [released EXCEPT ![r] = @ + 1]
       /\ UNCHANGED <<fault, crashed>>
    \/ /\ r \notin alive
       /\ fault' = TRUE
       /\ crashed' \in BOOLEAN
       /\ UNCHANGED released

NoFault == UNCHANGED <<fault, crashed>>

\* Nobody holds ctx->mutex; a worker about to sleep on sq_full holds it.
MutexFree == \A w \in Workers : wpc[w] # "committed"

MoveTo(w, place) == wpc' = [wpc EXCEPT ![w] = place]

-----------------------------------------------------------------------------
(* The script, in the main thread *)

\* mg_start: a context of zeros, the master and the workers.
StartThreads ==
    /\ stop' = 0
    /\ threads' = Cardinality(Workers)
    /\ slot' = [i \in 0..QueueSize - 1 |-> 0]
    /\ head' = 0 /\ tail' = 0
    /\ fifo' = <<>>
    /\ apc' = "loop"
    /\ wpc' = [w \in Workers |-> "loop"]

\* listenOnPort without a context.  (With one, it calls close first.)
ListenOnPort ==
    /\ ~crashed /\ mpc = "js" /\ ~up
    /\ listens < MaxListens
    /\ up' = TRUE
    /\ listens' = listens + 1
    /\ StartThreads
    /\ UNCHANGED <<mpc, handled, scripted, responseVars, toClose, events,
                   accepted, conn>>
    /\ NoFault

\* The event loop delivers newRequest: the script gets the response.
NewRequest ==
    /\ mpc = "js"
    /\ events # <<>>
    /\ handled' = handled \cup {Head(events)}
    /\ events' = Tail(events)
    /\ \/ Head(events) \in alive /\ NoFault
       \/ Head(events) \notin alive /\ fault' = TRUE /\ crashed' \in BOOLEAN
    /\ UNCHANGED <<mpc, up, listens, scripted, responseVars, toClose>>

\* The script closes a response, once, when it has written its answer.
ScriptCloses(r) ==
    /\ mpc = "js"
    /\ r \in handled \ scripted
    /\ scripted' = scripted \cup {r}
    /\ Close(r)
    /\ UNCHANGED <<mpc, up, listens, handled, closing, pending, alive, toClose,
                   events>>

\* WebServer::close, up to the lock of m_mutex ...
CloseServer ==
    /\ mpc = "js" /\ up
    /\ closing' = TRUE
    /\ mpc' = "closing"
    /\ toClose' = pending
    /\ UNCHANGED <<scriptVars, pending, alive, released, events>>
    /\ NoFault

\* ... its loop ...
CloseResponse ==
    /\ mpc = "closing" /\ toClose # <<>>
    /\ Close(Head(toClose))
    /\ toClose' = Tail(toClose)
    /\ UNCHANGED <<mpc, scriptVars, closing, pending, alive, events, stop>>

\* ... the unlock, and mg_stop, which sets stop_flag and spins ...
StopServer ==
    /\ mpc = "closing" /\ toClose = <<>>
    /\ mpc' = "stopping"
    /\ stop' = 1
    /\ UNCHANGED <<scriptVars, responseVars, toClose, events>>
    /\ NoFault

\* ... until the master has finished; then the context is freed.
ServerStopped ==
    /\ mpc = "stopping" /\ stop = 2
    /\ mpc' = "js"
    /\ up' = FALSE
    /\ UNCHANGED <<listens, handled, scripted, responseVars, toClose, events,
                   stop>>
    /\ NoFault

-----------------------------------------------------------------------------
(* master_thread *)

\* while (ctx->stop_flag == 0) ...
MasterLoop ==
    /\ apc = "loop"
    /\ apc' = IF stop = 0 THEN "select" ELSE "leave"
    /\ UNCHANGED <<stop, accepted, queueVars, wpc>>

\* ... select returns after 200 ms without a connection ...
SelectTimeout ==
    /\ apc = "select"
    /\ apc' = "loop"
    /\ UNCHANGED <<stop, accepted, queueVars, wpc>>

\* ... or with one, which is accepted.
AcceptNewConnection ==
    /\ apc = "select"
    /\ accepted < MaxConnections
    /\ accepted' = accepted + 1
    /\ apc' = "produce"
    /\ UNCHANGED <<stop, queueVars, wpc>>

FullTooLate == head - tail > QueueSize   \* mutant
Full == head - tail >= QueueSize

\* produce_socket with a full queue waits for sq_empty.
QueueFull ==
    /\ apc = "produce" /\ MutexFree /\ Full
    /\ apc' = "full"
    /\ UNCHANGED <<stop, accepted, queueVars, wpc>>

NoSignal == UNCHANGED wpc   \* mutant
\* pthread_cond_signal(&ctx->sq_full)
SignalFull ==
    \/ \E w \in Workers : wpc[w] = "waiting" /\ MoveTo(w, "consume")
    \/ (\A w \in Workers : wpc[w] # "waiting") /\ UNCHANGED wpc


\* produce_socket with room copies the socket and signals sq_full.
ProduceSocket ==
    /\ apc = "produce" /\ MutexFree /\ ~Full
    /\ slot' = [slot EXCEPT ![head % QueueSize] = accepted]
    /\ head' = head + 1
    /\ fifo' = Append(fifo, accepted)
    /\ apc' = "loop"
    /\ SignalFull
    /\ UNCHANGED <<stop, accepted, tail>>

\* Out of the loop: pthread_cond_broadcast(&ctx->sq_full), without the mutex.
StopWorkers ==
    /\ apc = "leave"
    /\ wpc' = [w \in Workers |-> IF wpc[w] = "waiting" THEN "consume" ELSE wpc[w]]
    /\ apc' = "join"
    /\ UNCHANGED <<stop, accepted, queueVars>>

WorkersForgotten == TRUE   \* mutant
WorkersGone == threads = 0

\* When the last worker has left, mg_stop may return.
MasterExits ==
    /\ apc = "join" /\ MutexFree /\ WorkersGone
    /\ stop' = 2
    /\ apc' = "exited"
    /\ UNCHANGED <<accepted, queueVars, wpc>>

-----------------------------------------------------------------------------
(* worker_thread and, from "request" to "woken", WebServer::handleRequest *)

poolVars == <<threads, masterVars, queueVars, conn>>

\* while (ctx->stop_flag == 0 && ...
WorkerLoop(w) ==
    /\ wpc[w] = "loop"
    /\ MoveTo(w, IF stop = 0 THEN "consume" ELSE "leaving")
    /\ UNCHANGED <<responseVars, events, poolVars>>

\* consume_socket with an empty queue: the test, under the mutex ...
QueueEmpty(w) ==
    /\ wpc[w] = "consume" /\ MutexFree /\ head = tail /\ stop = 0
    /\ MoveTo(w, "committed")
    /\ UNCHANGED <<responseVars, events, poolVars>>

\* ... and pthread_cond_wait(&ctx->sq_full), which gives up the mutex.
WaitForSocket(w) ==
    /\ wpc[w] = "committed"
    /\ MoveTo(w, "waiting")
    /\ UNCHANGED <<responseVars, events, poolVars>>

\* consume_socket after a wakeup, or at once, when the server stops.
StopConsuming(w) ==
    /\ wpc[w] = "consume" /\ MutexFree /\ stop # 0
    /\ MoveTo(w, "leaving")
    /\ UNCHANGED <<responseVars, events, poolVars>>

NoWrap == 0   \* mutant
\* What both pointers are reduced by once sq_tail has passed the array.
Wrap == IF tail + 1 > QueueSize THEN QueueSize ELSE 0

\* consume_socket takes the oldest socket, wraps the pointers and signals
\* sq_empty.
ConsumeSocket(w) ==
    /\ wpc[w] = "consume" /\ MutexFree /\ head # tail /\ stop = 0
    /\ conn' = [conn EXCEPT ![w] = slot[tail % QueueSize]]
    /\ tail' = tail + 1 - Wrap
    /\ head' = head - Wrap
    /\ fifo' = Tail(fifo)
    /\ apc' = IF apc = "full" THEN "produce" ELSE apc
    /\ MoveTo(w, "request")
    /\ UNCHANGED <<responseVars, events, threads, accepted, slot>>

NeverRefuses == FALSE   \* mutant: m_closing is not looked at under m_mutex
Refuses == closing

\* handleRequest of a server that is closing, or has been closed before,
\* returns false: mongoose answers 404.
RefuseRequest(w) ==
    /\ wpc[w] = "request" /\ Refuses
    /\ MoveTo(w, "loop")
    /\ UNCHANGED <<responseVars, events, poolVars>>

\* The response is created and listed, under m_mutex.
ListResponse(w) ==
    /\ wpc[w] = "request" /\ ~Refuses
    /\ pending' = Append(pending, conn[w])
    /\ alive' = alive \cup {conn[w]}
    /\ MoveTo(w, "emit")
    /\ UNCHANGED <<closing, released, events, poolVars>>

\* newRequest(requestObject, &responseObject), posted to the main thread.
EmitNewRequest(w) ==
    /\ wpc[w] = "emit"
    /\ events' = Append(events, conn[w])
    /\ MoveTo(w, "acquire")
    /\ UNCHANGED <<responseVars, poolVars>>

\* wait.acquire()
Acquire(w) ==
    /\ wpc[w] = "acquire"
    /\ released[conn[w]] > 0
    /\ released' = [released EXCEPT ![conn[w]] = @ - 1]
    /\ MoveTo(w, "woken")
    /\ UNCHANGED <<closing, pending, alive, events, poolVars>>

Kept(s, r) == s   \* mutant
\* QList::removeOne: the first r of the list, if there is one, is removed.
Without(s, r) ==
    LET First == {k \in 1..Len(s) : s[k] = r /\ \A j \in 1..k - 1 : s[j] # r}
    IN  IF First = {} THEN s
        ELSE LET k == CHOOSE k \in First : TRUE
             IN  SubSeq(s, 1, k - 1) \o SubSeq(s, k + 1, Len(s))

\* handleRequest returns, and its response ends.  Under m_mutex the response
\* leaves the list, but not when the server is closing.
FinishRequest(w) ==
    /\ wpc[w] = "woken"
    /\ pending' = IF closing THEN pending ELSE Without(pending, conn[w])
    /\ alive' = alive \ {conn[w]}
    /\ MoveTo(w, "loop")
    /\ UNCHANGED <<closing, released, events, poolVars>>

\* A worker that leaves is no longer counted; under ctx->mutex.
WorkerExits(w) ==
    /\ wpc[w] = "leaving" /\ MutexFree
    /\ threads' = threads - 1
    /\ MoveTo(w, "exited")
    /\ UNCHANGED <<responseVars, events, masterVars, queueVars, conn>>

-----------------------------------------------------------------------------
\* The main thread touches of mongoose only stop_flag, except to start it.
CloseStep ==
    /\ ~crashed
    /\ CloseResponse \/ StopServer \/ ServerStopped
    /\ UNCHANGED <<wpc, poolVars>>

Script ==
    /\ ~crashed
    /\ NewRequest \/ CloseServer \/ \E r \in Connections : ScriptCloses(r)
    /\ UNCHANGED <<stop, wpc, poolVars>>

Master ==
    /\ ~crashed
    /\ \/ MasterLoop \/ SelectTimeout \/ AcceptNewConnection \/ QueueFull
       \/ ProduceSocket \/ StopWorkers \/ MasterExits
    /\ UNCHANGED <<mpc, scriptVars, responseVars, toClose, events, threads, conn>>
    /\ NoFault

Worker(w) ==
    /\ ~crashed
    /\ \/ WorkerLoop(w) \/ QueueEmpty(w) \/ WaitForSocket(w) \/ StopConsuming(w)
       \/ ConsumeSocket(w) \/ RefuseRequest(w) \/ ListResponse(w)
       \/ EmitNewRequest(w) \/ Acquire(w) \/ FinishRequest(w) \/ WorkerExits(w)
    /\ UNCHANGED <<mpc, scriptVars, toClose, stop>>
    /\ NoFault

Next == \/ ListenOnPort \/ Script \/ CloseStep \/ Master
        \/ \E w \in Workers : Worker(w)

Spec == Init /\ [][Next]_vars

\* Every thread runs: the scheduler is fair to workers and master, and the main
\* thread runs close() to its end once it has entered it.  Scripts and clients
\* do what they like.
Fairness == WF_vars(CloseStep) /\ WF_vars(Master)
            /\ \A w \in Workers : WF_vars(Worker(w))

FairSpec == Spec /\ Fairness

-----------------------------------------------------------------------------
(* Properties *)

\* m_pendingResponses lists each response that is still on the stack of a worker
\* exactly once and nothing else, until the server is closed; and the first time
\* it is, close() meets a response that has ended only if the script closed it.
PendingAlive ==
    /\ ~closing => /\ {pending[k] : k \in 1..Len(pending)} = alive
                   /\ Len(pending) = Cardinality(alive)
    /\ listens = 1 /\ mpc = "closing" =>
           \A k \in 1..Len(toClose) : toClose[k] \in alive \cup scripted

\* Until the server is closed, a script that closes every response once, as
\* webserver.h asks, never uses a response that has ended.
ScriptUsesLiveResponses == ~closing => ~fault

\* The wrapping pointers of the socket queue keep it first in, first out, and
\* never let it overflow.
QueueIsFIFO ==
    /\ head - tail = Len(fifo) /\ Len(fifo) <= QueueSize
    /\ \A i \in 1..Len(fifo) : slot[(tail + i - 1) % QueueSize] = fifo[i]

\* When mg_stop returns and frees the context, no thread uses it any more.
StopJoins == ~up => apc = "exited" /\ \A w \in Workers : wpc[w] = "exited"

\* close() wakes every worker that waits for a response.
ResponsesReleased ==
    (mpc = "stopping") ~>
        (crashed \/ \A w \in Workers : wpc[w] \notin {"emit", "acquire", "woken"})

\* A worker takes every accepted connection, unless the server stops or all
\* workers wait for the script.
ConnectionsServed ==
    \A r \in Connections :
        (apc = "produce" /\ accepted = r) ~>
            \/ \E w \in Workers : conn[w] = r
            \/ \A w \in Workers : wpc[w] = "acquire"
            \/ stop # 0
            \/ crashed

\* webserver.cpp, in close(): the pending responses are woken "such that
\* mg_stop() can be called without deadlocking".
CloseReturns == (mpc = "stopping") ~> (mpc = "js" \/ crashed)
=============================================================================
