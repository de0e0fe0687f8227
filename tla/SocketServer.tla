---------------------------- MODULE SocketServer ----------------------------
(***************************************************************************)
(* The network front end of PhantomJS: SocketServer and SocketClient run   *)
(* in a server thread, Main and the Phantom instances in the main (GUI)    *)
(* thread.  The server thread serves one TCP client at a time.  For every  *)
(* client it asks the main thread to create a Phantom, waits until one     *)
(* appears in Main::phantomInstancesMap, evaluates the client's scripts in *)
(* the page of that Phantom by posting events to the main thread, and      *)
(* finally posts the deletion of the Phantom.                              *)
(*                                                                         *)
(* MULTIPLE_THREADS is defined nowhere, so SocketClient::threadId is       *)
(* always 0 and phantomInstancesMap has at most the key 0: `mapped' says   *)
(* whether the key is there and `mapVal' is its value.  A session is one   *)
(* SocketClient object; sessions are numbered in the order in which the    *)
(* server accepts them, instances in the order in which main creates them. *)
(* 0 stands for the NULL pointer.                                          *)
(*                                                                         *)
(* A dereference of a freed or uninitialised object is undefined: the      *)
(* process dies, or goes on and the access has no effect on the others.    *)
(*                                                                         *)
(* Beside the instances of the map lives the singleton of                  *)
(* Phantom::instance(): the first page that is constructed asks for it.    *)
(* Its page is given to no session and evaluates no script.                *)
(***************************************************************************)
EXTENDS Naturals, Sequences

CONSTANTS
    MaxSessions,  \* bound: connections the server accepts in a behaviour
    MaxRequests,  \* bound: scripts one client sends
    MaxBacklog,   \* bound: connections waiting in the listening socket
    MaxNesting    \* bound: scripts running inside one another (processEvents)

ASSUME SocketServerAssumption ==
    /\ MaxSessions \in Nat
    /\ MaxRequests \in Nat
    /\ MaxBacklog \in Nat
    /\ MaxNesting \in Nat

Sessions  == 1..MaxSessions
Instances == 0..MaxSessions

VARIABLES
    \* server thread: SocketServer and the SocketClient of the current session
    pc,          \* where SocketServer::doWork / SocketClient::doWork is
    backlog,     \* connections completed by the kernel and not yet accepted
    session,     \* number of SocketClient objects constructed so far
    phantom,     \* SocketClient::phantom of the current session
    webpage,     \* SocketClient::webpage: the instance whose page it is
    requested,   \* history: scripts each session has read completely
    \* shared by the two threads
    mapped,      \* phantomInstancesMap.contains(0)
    mapVal,      \* phantomInstancesMap.value(0)
    queue,       \* events posted to the main thread, oldest first
    \* main thread: Main, the Phantom instances and their pages
    assigning,   \* main is between operator[] and the assignment to it
    created,     \* number of Phantom instances constructed so far
    destroyed,   \* history: calls of deletePhantomJSInstance completed
    live,        \* numbered instances that are constructed and not deleted
    singleton,   \* phantomInstance, which no session owns, is constructed
    pages,       \* instances whose m_page is not deleted
    socketOf,    \* Phantom::socketClient, 0 while it is uninitialised
    running,     \* instances whose scripts are on the stack, innermost first
    exited,      \* history: instances whose script called phantom.exit()
    evaluated,   \* history: per instance, the scripts evaluated in its page
    \* undefined behaviour
    fault,       \* history: the kinds of invalid access that happened
    crashed      \* the process is dead

serverVars == <<pc, backlog, session, phantom, webpage, requested>>
mainVars   == <<assigning, created, destroyed, live, singleton, pages, socketOf,
                running, exited, evaluated>>
vars       == <<serverVars, mapped, mapVal, queue, mainVars, fault, crashed>>

Event == [op : {"create", "delete", "eval"},
          inst : Instances, by : Sessions, req : 0..MaxRequests]

Script == [by : Sessions, req : 1..MaxRequests]

FaultKind == {"nullInstance", "freedInstance", "noPage", "freedSocket",
              "wildSocket", "socketRace", "freedFrame", "mapRace"}

TypeOK ==
    /\ pc \in {"wait", "poll", "value", "attach", "serve", "free"}
    /\ backlog \in 0..MaxBacklog
    /\ session \in 0..MaxSessions
    /\ phantom \in Instances
    /\ webpage \in Instances
    /\ requested \in [Sessions -> 0..MaxRequests]
    /\ mapped \in BOOLEAN
    /\ mapVal \in Instances
    /\ queue \in Seq(Event)
    /\ assigning \in BOOLEAN
    /\ created \in 0..MaxSessions
    /\ destroyed \in 0..MaxSessions
    /\ live \in SUBSET Sessions
    /\ singleton \in BOOLEAN
    /\ pages \in SUBSET Sessions
    /\ socketOf \in [Sessions -> 0..MaxSessions]
    /\ running \in Seq(Sessions)
    /\ exited \in SUBSET Sessions
    /\ evaluated \in [Sessions -> Seq(Script)]
    /\ fault \in SUBSET FaultKind
    /\ crashed \in BOOLEAN

Init ==
    /\ pc = "wait"
    /\ backlog = 0
    /\ session = 0
    /\ phantom = 0
    /\ webpage = 0
    /\ requested = [s \in Sessions |-> 0]
    /\ mapped = FALSE
    /\ mapVal = 0
    /\ queue = <<>>
    /\ assigning = FALSE
    /\ created = 0
    /\ destroyed = 0
    /\ live = {}
    /\ singleton = FALSE
    /\ pages = {}
    /\ socketOf = [s \in Sessions |-> 0]
    /\ running = <<>>
    /\ exited = {}
    /\ evaluated = [s \in Sessions |-> <<>>]
    /\ fault = {}
    /\ crashed = FALSE

-----------------------------------------------------------------------------
(* Helpers *)

\* Mutant of Post: client_disconnected forgets to post the deletion.
PostNoDelete(op, inst, req) ==
    IF op = "delete"
    THEN queue
    ELSE Append(queue, [op |-> op, inst |-> inst, by |-> session, req |-> req])

\* Mutant of Post: client_disconnected also runs for the signal disconnected().
PostDeleteTwice(op, inst, req) ==
    LET e == [op |-> op, inst |-> inst, by |-> session, req |-> req]
    IN  queue \o IF op = "delete" THEN <<e, e>> ELSE <<e>>

\* An event posted with Qt::QueuedConnection to an object of the main thread.
Post(op, inst, req) ==
    Append(queue, [op |-> op, inst |-> inst, by |-> session, req |-> req])

\* The SocketClient of session s has not been deleted.
SocketAlive(s) == s = session /\ pc # "wait"

NoFault == UNCHANGED <<fault, crashed>>

\* An access to memory that is not the object any more.
Undefined(kind) ==
    /\ fault' = fault \cup {kind}
    /\ crashed' \in BOOLEAN

\* An access through a NULL pointer always kills the process.
NullAccess(kind) ==
    /\ fault' = fault \cup {kind}
    /\ crashed' = TRUE

-----------------------------------------------------------------------------
(* The clients *)

\* The kernel completes a connection while the listening socket is open.
Connect ==
    /\ ~crashed
    /\ pc = "wait"
    /\ backlog < MaxBacklog
    /\ session < MaxSessions
    /\ backlog' = backlog + 1
    /\ UNCHANGED <<pc, session, phantom, webpage, requested, mapped, mapVal,
                   queue, mainVars>>
    /\ NoFault

-----------------------------------------------------------------------------
(* The server thread *)

\* Mutant of Accept: an instance that is in the map is used again.
AcceptReusesInstance ==
    /\ ~crashed
    /\ pc = "wait"
    /\ backlog > 0
    /\ session < MaxSessions
    /\ backlog' = 0
    /\ session' = session + 1
    /\ queue' = IF mapped THEN queue
                ELSE Append(queue, [op |-> "create", inst |-> 0,
                                    by |-> session + 1, req |-> 0])
    /\ pc' = "poll"
    /\ UNCHANGED <<phantom, webpage, requested, mapped, mapVal, mainVars>>
    /\ NoFault

\* waitForNewConnection accepts every connection of the backlog,
\* nextPendingConnection takes the first, server->close() destroys the others;
\* SocketClient::setup posts the creation of the client's Phantom.
Accept ==
    /\ ~crashed
    /\ pc = "wait"
    /\ backlog > 0
    /\ session < MaxSessions
    /\ backlog' = 0
    /\ session' = session + 1
    /\ queue' = Append(queue, [op |-> "create", inst |-> 0,
                               by |-> session + 1, req |-> 0])
    /\ pc' = "poll"
    /\ UNCHANGED <<phantom, webpage, requested, mapped, mapVal, mainVars>>
    /\ NoFault

\* while (!main->phantomInstancesMap.contains(threadId)) sleep(1);
FindInstance ==
    /\ ~crashed
    /\ pc = "poll"
    /\ mapped
    /\ pc' = "value"
    /\ UNCHANGED <<backlog, session, phantom, webpage, requested, mapped, mapVal,
                   queue, mainVars>>
    /\ NoFault

\* Mutant of FetchInstance: setup takes the page at once and never stores
\* itself in phantom->socketClient.
FetchWithoutAttaching ==
    /\ ~crashed
    /\ pc = "value"
    /\ phantom' = IF mapped THEN mapVal ELSE 0
    /\ webpage' = phantom'
    /\ pc' = "serve"
    /\ UNCHANGED <<backlog, session, requested, mapped, mapVal, queue, mainVars>>
    /\ NoFault

\* phantom = main->phantomInstancesMap.value(threadId), NULL without the key.
FetchInstance ==
    /\ ~crashed
    /\ pc = "value"
    /\ phantom' = IF mapped THEN mapVal ELSE 0
    /\ pc' = "attach"
    /\ UNCHANGED <<backlog, session, webpage, requested, mapped, mapVal, queue,
                   mainVars>>
    /\ NoFault

\* No lock protects the map: a read that overlaps the insertion or removal of
\* a node may follow a dangling link.  (If it does not, it returns the value
\* before or after, as in the two actions above.)
MapRace ==
    /\ ~crashed
    /\ pc \in {"poll", "value"}
    /\ ~assigning
    /\ queue # <<>>
    /\ Head(queue).op \in {"create", "delete"}
    /\ fault' = fault \cup {"mapRace"}
    /\ crashed' = TRUE
    /\ UNCHANGED <<serverVars, mapped, mapVal, queue, mainVars>>

\* phantom->socketClient = this; webpage = phantom->m_page; connect(...)
\* ~Phantom and doExit leave m_page = 0, reused memory leaves anything.
AttachInstance ==
    /\ ~crashed
    /\ pc = "attach"
    /\ pc' = "serve"
    /\ \/ /\ phantom = 0
          /\ NullAccess("nullInstance")
          /\ UNCHANGED <<socketOf, webpage>>
       \/ /\ phantom \in live
          /\ socketOf' = [socketOf EXCEPT ![phantom] = session]
          /\ webpage' = IF phantom \in pages THEN phantom ELSE 0
          /\ NoFault
       \/ /\ phantom # 0
          /\ phantom \notin live
          /\ Undefined("freedInstance")
          /\ webpage' \in {0, phantom}
          /\ UNCHANGED socketOf
    /\ UNCHANGED <<backlog, session, phantom, requested, mapped, mapVal, queue,
                   assigning, created, destroyed, live, singleton, pages, running,
                   exited, evaluated>>

\* doWork has read one request and posts its evaluation to webpage->mainFrame().
EvaluateRequest ==
    /\ ~crashed
    /\ pc = "serve"
    /\ requested[session] < MaxRequests
    /\ requested' = [requested EXCEPT ![session] = @ + 1]
    /\ \/ /\ webpage \in pages
          /\ queue' = Post("eval", webpage, requested[session] + 1)
          /\ NoFault
       \/ /\ webpage = 0
          /\ NullAccess("noPage")
          /\ UNCHANGED queue
       \/ /\ webpage # 0
          /\ webpage \notin pages
          /\ Undefined("noPage")
          /\ UNCHANGED queue
    /\ UNCHANGED <<pc, backlog, session, phantom, webpage, mapped, mapVal,
                   mainVars>>

\* client_disconnected: the peer left, sent a header without newline, or stayed
\* silent for ten waits of 30 s, which the server itself counts.  The socket is closed, the deletion posted.
ClientDisconnected ==
    /\ ~crashed
    /\ pc = "serve"
    /\ queue' = Post("delete", 0, 0)
    /\ pc' = "free"
    /\ UNCHANGED <<backlog, session, phantom, webpage, requested, mapped, mapVal,
                   mainVars>>
    /\ NoFault

\* SocketServer::disconnect: delete socketClient; server->listen(...).
Disconnect ==
    /\ ~crashed
    /\ pc = "free"
    /\ pc' = "wait"
    /\ phantom' = 0
    /\ webpage' = 0
    /\ UNCHANGED <<backlog, session, requested, mapped, mapVal, queue, mainVars>>
    /\ NoFault

-----------------------------------------------------------------------------
(* The main thread: the event loop, and Main's and Phantom's handlers *)

MainReady == ~crashed /\ ~assigning /\ queue # <<>>

\* createPhantomJSInstance: new Phantom, init(), whose WebPage constructs the
\* singleton if it is the first, and operator[] of the assignment, which
\* inserts the key with a NULL value if it is absent.
CreateInstance ==
    /\ MainReady
    /\ Head(queue).op = "create"
    /\ queue' = Tail(queue)
    /\ created' = created + 1
    /\ live' = live \cup {created + 1}
    /\ singleton' = TRUE
    /\ pages' = pages \cup {created + 1}
    /\ mapped' = TRUE
    /\ mapVal' = IF mapped THEN mapVal ELSE 0
    /\ assigning' = TRUE
    /\ UNCHANGED <<serverVars, destroyed, socketOf, running, exited, evaluated>>
    /\ NoFault

\* ... and the assignment itself.
AssignInstance ==
    /\ ~crashed
    /\ assigning
    /\ assigning' = FALSE
    /\ mapVal' = created
    /\ UNCHANGED <<serverVars, mapped, queue, created, destroyed, live,
                   singleton, pages, socketOf, running, exited, evaluated>>
    /\ NoFault

\* deletePhantomJSInstance: the instance of the map, whichever it is, leaves
\* the map and is deleted with its pages; deleting NULL does nothing.
DeleteInstance ==
    /\ MainReady
    /\ Head(queue).op = "delete"
    /\ queue' = Tail(queue)
    /\ mapped' = FALSE
    /\ mapVal' = 0
    /\ LET victim == IF mapped THEN mapVal ELSE 0
       IN  /\ live' = live \ {victim}
           /\ pages' = pages \ {victim}
    /\ destroyed' = destroyed + 1
    /\ UNCHANGED <<serverVars, assigning, created, singleton, socketOf, running,
                   exited, evaluated>>
    /\ NoFault

\* The frame evaluates a script.  Events run inside a script that takes long
\* (shouldInterruptJavaScript calls processEvents), so scripts can nest.
EvaluateJavaScript ==
    /\ MainReady
    /\ Head(queue).op = "eval"
    /\ Len(running) < MaxNesting
    /\ LET e == Head(queue)
       IN  /\ e.inst \in pages
           /\ running' = <<e.inst>> \o running
           /\ evaluated' = [evaluated EXCEPT
                  ![e.inst] = Append(@, [by |-> e.by, req |-> e.req])]
    /\ queue' = Tail(queue)
    /\ UNCHANGED <<serverVars, mapped, mapVal, assigning, created, destroyed,
                   live, singleton, pages, socketOf, exited>>
    /\ NoFault

\* Qt removes the events posted to an object when it destroys the object.
DropEvaluation ==
    /\ MainReady
    /\ Head(queue).op = "eval"
    /\ Head(queue).inst \notin pages
    /\ queue' = Tail(queue)
    /\ UNCHANGED <<serverVars, mapped, mapVal, mainVars>>
    /\ NoFault

\* The innermost script returns, to the frame that runs it.  Its page may have
\* been deleted meanwhile: by phantom.exit(), or by a deletion that a script
\* running inside this one has let in.
ScriptReturns ==
    /\ ~crashed
    /\ ~assigning
    /\ running # <<>>
    /\ running' = Tail(running)
    /\ IF Head(running) \in pages THEN NoFault ELSE Undefined("freedFrame")
    /\ UNCHANGED <<serverVars, mapped, mapVal, queue, assigning, created,
                   destroyed, live, singleton, pages, socketOf, exited, evaluated>>

\* A script, a timer or a loaded page of an instance that has run code writes
\* to the console: Phantom::copyJsConsoleMessageToClientSocket passes it on to
\* socketClient in the main thread, where the write to the QTcpSocket races
\* with the server thread that uses it.
ConsoleMessage(i) ==
    /\ ~crashed
    /\ ~assigning
    /\ i \in pages
    /\ evaluated[i] # <<>>
    /\ \/ /\ SocketAlive(socketOf[i])
          /\ NoFault \/ Undefined("socketRace")
       \/ /\ ~SocketAlive(socketOf[i])
          /\ Undefined(IF socketOf[i] = 0 THEN "wildSocket" ELSE "freedSocket")
    /\ UNCHANGED <<serverVars, mapped, mapVal, queue, mainVars>>

\* The innermost script calls phantom.exit(): doExit deletes the pages.  The
\* queued aboutToExit signal is not delivered, the server thread runs no event
\* loop inside doWork.
PhantomExit ==
    /\ ~crashed
    /\ ~assigning
    /\ running # <<>>
    /\ Head(running) \in pages
    /\ pages' = pages \ {Head(running)}
    /\ exited' = exited \cup {Head(running)}
    /\ UNCHANGED <<serverVars, mapped, mapVal, queue, assigning, created,
                   destroyed, live, singleton, socketOf, running, evaluated>>
    /\ NoFault

-----------------------------------------------------------------------------
ServerThread == \/ Accept \/ FindInstance \/ FetchInstance \/ MapRace
                \/ AttachInstance \/ EvaluateRequest
                \/ ClientDisconnected \/ Disconnect

MainThread == \/ CreateInstance \/ AssignInstance \/ DeleteInstance
              \/ EvaluateJavaScript \/ DropEvaluation \/ ScriptReturns
              \/ \E i \in Sessions : ConsoleMessage(i)
              \/ PhantomExit

Next == Connect \/ ServerThread \/ MainThread

Spec == Init /\ [][Next]_vars

\* The threads keep running: the server thread goes through setup and
\* disconnect without waiting for anyone, the main thread empties its event
\* queue, and every script returns.  Clients need not connect or send anything,
\* but then the session ends: its waits for data run out (SocketProtocol).
Fairness ==
    /\ WF_vars(Accept)
    /\ WF_vars(FindInstance)
    /\ WF_vars(FetchInstance)
    /\ WF_vars(AttachInstance)
    /\ WF_vars(ClientDisconnected)
    /\ WF_vars(Disconnect)
    /\ WF_vars(CreateInstance \/ AssignInstance \/ DeleteInstance
                \/ EvaluateJavaScript \/ DropEvaluation)
    /\ WF_vars(ScriptReturns)

FairSpec == Spec /\ Fairness

-----------------------------------------------------------------------------
(* Properties *)

\* A page only ever evaluates scripts of the client it was created for, even
\* when a session attaches to the instance its predecessor left behind.
Isolation ==
    \A i \in Sessions : \A k \in 1..Len(evaluated[i]) : evaluated[i][k].by = i

\* The creations and deletions posted by the server thread alternate: of the
\* instances made for sessions only the one created last is ever alive, beside
\* the singleton, so that main never keeps more than two, ...
AtMostOneInstance == live \subseteq {created} /\ (live # {} => singleton)

\* ... and deletePhantomJSInstance always finds an instance in the map.
DeleteFindsInstance ==
    queue # <<>> /\ Head(queue).op = "delete" /\ ~assigning
        => mapped /\ mapVal \in live

\* Both: no creation or deletion overtakes another (main.cpp).
OneInstance == AtMostOneInstance /\ DeleteFindsInstance

\* The constructor leaves Phantom::socketClient uninitialised, but no console
\* message reaches it before a session has stored its SocketClient there.
SocketPointerInitialised == "wildSocket" \notin fault

\* A session that got the instance created for it and whose script did not
\* call phantom.exit() meets no freed, null or uninitialised object.  What is
\* left is the unlocked use of its QTcpSocket, and the scripts of its
\* predecessors that return to their deleted pages.
OwnSessionIsSafe ==
    [][pc = "serve" /\ phantom = session /\ session \notin exited
           => fault' \subseteq fault \cup {"socketRace", "freedFrame"}]_vars

\* The busy wait of SocketClient::setup ends.
SetupTerminates == (pc = "poll") ~> (pc = "serve" \/ crashed)

\* Every session ends, and its instance is deleted in the end.
InstancesReclaimed ==
    \A s \in Sessions :
        (session = s) ~> (crashed \/ (destroyed >= s /\ s \notin live))
=============================================================================
