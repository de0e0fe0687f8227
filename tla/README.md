# A TLA+ verification of PhantomJS (socket server edition)

PhantomJS is a headless WebKit browser that runs JavaScript. This repository's
edition is a server: `main()` starts a thread with a TCP server, every client
gets a `Phantom` instance of its own, and the scripts the client sends are
evaluated in the page of that instance. This directory models that program in
TLA+: specifications, TLC configurations, and proofs checked by TLAPS. File
names are those of the repository's `src/` directory.

    tlc -config SocketServer.cfg   SocketServerRefinement
    tlc -config SocketProtocol.cfg SocketProtocol
    tlc -config WebServer.cfg      WebServer
    tlc -config NetworkAccess.cfg  NetworkAccess
    tlc -config CookieJar.cfg      MCCookieJar
    tlc -config PageLoad.cfg       PageLoad
    tlc -config GhostSession.cfg   GhostSession
    tlapm SocketServerProofs.tla
    tlapm SocketServerRefinementProofs.tla
    tlapm SocketProtocolProofs.tla
    tlapm WebServerProofs.tla
    tlapm NetworkAccessProofs.tla
    tlapm CookieJarProofs.tla
    tlapm PageLoadProofs.tla
    tlapm GhostSessionProofs.tla

## 1. Inventory

| Component | State | Operations | Interacts with |
|---|---|---|---|
| Socket server: `socketserver.cpp`, `socketclient.cpp`, `main.cpp` | listening socket, current `SocketClient`, `Main::phantomInstancesMap` | accept, `setup`, `doWork`, `client_disconnected`, `disconnect`; `createPhantomJSInstance`, `deletePhantomJSInstance` | two threads: queued calls from the server thread to main, the map and `QTcpSocket` without a lock |
| Phantom: `phantom.cpp` | pages, servers, cookie jar, `socketClient` | constructor, `init`, `createWebPage`, `exit`, console messages, destructor | created and deleted by main, used by the server thread and by scripts |
| WebServer: `webserver.cpp`, with the thread pool of `mongoose.c` | `m_ctx`, `m_closing`, `m_pendingResponses`; socket queue, `stop_flag`, threads | `listenOnPort`, `handleRequest`, `close`, `response.close` | worker threads block on a semaphore that the script releases in the main thread |
| NetworkAccessManager | `m_ids`, `m_started`, `m_idCounter`, `m_authAttempts` | `createRequest`, `handleStarted`, `handleFinished`, `handleTimeout`, `provideAuthentication` | callbacks from Qt, signals to `WebPage` |
| WebPage: `webpage.cpp`, `modules/webpage.js` | frames, `m_currentFrame`, `m_loadingProgress`, handlers, the slot `_onPageOpenFinished` | `open`, `stop`, `close`, `setContent`, `switchToFrame`, ... | signals of WebKit, taken with queued connections; callbacks of scripts; nested event loops |
| CookieJar over `QNetworkCookieJar` | cookies, `m_enabled` | set, add, delete, clear, list, restore, enable, disable | pages, `phantom`, network |
| GhostDriver (JavaScript) | sessions, windows, current window, one-shot callbacks | WebDriver commands, polling of loads, script time-outs, session clean-up | a `WebServer`, `WebPage`s, timers |
| FileSystem, ChildProcess, module loader (`bootstrap.js`) | open files; a process; module cache and stubs | tree copy and removal; spawn, exit; `require` | operating system, scripts |
| Config, REPL, terminal, encodings, environment | options | parsing, conversion | none concurrent |
| Vendored Qt/WebKit, Breakpad, CoffeeScript, linenoise, giflib | | | third-party code |

What is hard: in the socket server two threads share objects without a lock,
events outlive the objects they are meant for, and a script can run the event
loop and so be overtaken by its own deletion. In the session protocol the
stream is cut anywhere and a wait sees only new data. In the web server three
kinds of threads share a list of pointers into the stacks of the workers, and a
vendored thread pool with condition variables. In the other components
callbacks arrive late, twice, or for an object that has been replaced.
`PROJECT.json` lists these hazards line by line.

What makes each component correct:

* Socket server: a client's scripts run only in the page made for it; at most
  one instance of a session is alive, beside the one that `Phantom::instance()`
  keeps; each is deleted in the end; setup and sessions end;
  no use of freed objects.
* Session protocol: scripts are framed exactly, no byte is lost or doubled,
  no request sits unread in a buffer.
* WebServer: each pending response is alive and listed once; `close` wakes
  every worker and frees the context only when all threads are gone; every
  accepted connection reaches a worker.
* NetworkAccessManager: what a script is told about a request carries the id it
  was announced with; its end is told once, and a time-out brings it about; no
  entry of a former reply is left when its address is used again.
* PageLoad: the callback of `open` runs once, for its own load; the current
  frame does not outlive its document.
* CookieJar: one cookie per name, domain and path; listing, restoring and
  deleting agree with what is sent.
* GhostDriver: one answer per request, success not before its load has ended, and an
  answer in the end; a session calls only pages that exist.

## 2. Modules

| Module | Models | Built on |
|---|---|---|
| `SocketServer` | server thread, main thread, event queue, instance map | |
| `Sandboxes` | abstract: one private sandbox per client | |
| `SocketServerRefinement` | `SocketServer` implements `Sandboxes`; what the sources promise and the server does not keep | `SocketServer`, `Sandboxes` |
| `SocketServerProofs` | invariants and action property, proved | `SocketServer` |
| `SocketServerRefinementProofs` | the refinement of `Sandboxes`, proved | `SocketServerRefinement`, `SocketServerProofs` |
| `SocketProtocol` | the byte stream of one session | |
| `WebServer` | web server, master and workers of mongoose | |
| `NetworkAccess` | requests and replies of a page, and what its script is told | |
| `CookieJar`, `MCCookieJar` | a cookie jar and the rules of Qt under it; the cookies and URLs of the run | |
| `PageLoad` | `page.open`, loads, frames, queued slots of a page | |
| `GhostSession` | commands and windows of a WebDriver session | |
| `SocketProtocolProofs`, `WebServerProofs`, `NetworkAccessProofs`, `CookieJarProofs`, `PageLoadProofs`, `GhostSessionProofs` | invariants and action properties of these six, proved | the component of the same name |

### SocketServer

A session is one `SocketClient`. `MULTIPLE_THREADS` is defined nowhere, so
`threadId` is 0 and the map has at most one key: `mapped` and `mapVal`. `pc` is
the place of the server thread in `SocketServer::doWork` and the
`SocketClient` it serves: `Accept` (accept, close the listening socket, post the
creation), `FindInstance` and `FetchInstance` (two unlocked reads of the map),
`AttachInstance`, `EvaluateRequest` (a complete request; `SocketProtocol` has
the bytes), `ClientDisconnected` (the client has left, or ten waits for it have
failed), `Disconnect`. `queue` holds the events posted
to the main thread, which handles them in order: `CreateInstance` and
`AssignInstance` (one statement, `map[id] = phantom`, seen in two steps by the
other thread), `DeleteInstance`, `EvaluateJavaScript`, or `DropEvaluation` when
the page is gone. `running` is the stack of scripts: a long script runs the
event loop (`shouldInterruptJavaScript`), so any event can be handled inside it.
`PhantomExit` and `ConsoleMessage` are what scripts do to their instance.
`singleton` says whether `Phantom::instance()` has been called: the construction
of the first instance does so, and makes a second one that is in no map and is
never deleted.

Undefined behaviour is explicit. An access to a freed or uninitialised object
records its kind in `fault`, and the process dies or goes on; a null access, and
a read of the map that overlaps its modification, ends the process. After a
fault that the process survives the other variables are as the code would leave
them if the access had no effect on other objects: corrupted memory itself is
not modelled.

### SocketProtocol

`SocketClient::doWork` from the byte stream up: the network (`wire`), the read
buffer of `QTcpSocket`, which grows only inside `waitForReadyRead`, and
`request_data`. A byte is a message and a position in it; the digits of a header
are one byte, the newline is another, and scripts may contain newlines. Any wait
can fail (30 s), the client can close or die, and the end of the stream can get
lost. `Pipelining` says whether the client sends before the previous script has
been evaluated. `disturbed` records that bytes were late or lost. A line that does
not start with a header (the rest of a late script) gives any length: `atoi`
makes of it what it will. `MaxRead` >= 2 is the one assumption about sizes: a
header fits into one `read`. In the code it has at most 12 bytes and `read`
takes 80.

### WebServer

The main thread: `ListenOnPort`, `NewRequest` (the queued signal),
`ScriptCloses`, and `close()` in four steps, `CloseServer`, `CloseResponse`,
`StopServer`, `ServerStopped`, because workers run in between. `MasterLoop` to
`MasterExits` are `master_thread` with `accept_new_connection` and
`produce_socket`; `WorkerLoop` to `WorkerExits` are `worker_thread` with
`consume_socket`, and from `request` to `woken` `WebServer::handleRequest`.
mongoose's mutex is represented by the atomicity of the actions, except in the
one place where it matters: a worker that has decided to wait (`committed`)
still holds it, and `StopServer` and `StopWorkers` do not ask for it. `slot`,
`head` and `tail` are the queue with its wrapping pointers, `fifo` what it should
contain. A connection carries one request (keep-alive is off by default).
`m_mutex` needs no variable: what `handleRequest` does under it is one action,
and the loop of `close()` does not read the list again.

### NetworkAccess

`createRequest` emits `resourceRequested` in its middle, `handleTimeout` and
`provideAuthentication` call the reply after emitting, and a script that runs
for long processes events. So these three are split at their handlers
(`Request`/`Created`, `TimeoutFires` or `RefuseAuthentication`/`AbortReply`), and
`calls` is the stack of those that wait; the other handlers come last in their
functions and are part of one action. A reply is an address: `life` is what the
object there is doing, and `Delete` frees the address for another reply, while
`ids` and `started` (`m_ids`, `m_started`) keep what they hold. A reply can be
synchronous, dropped by WebKit when it redirects, kept by the page as a download,
cancelled, refused, or timed out. `told` is what the script heard. Using a reply
that a handler has let go is `crashed`. The network may do nothing.

### CookieJar

The state is the list `jar`, in Qt's order, `enabled` and a clock. `Accepted`,
`Completed`, `MakeRoom`, `SetCookieFromUrl`, `Visible` and `CookiesForUrl` are the
rules of `QNetworkCookieJar`; `Added`, `HasCookie` (`contains`), `AddedAll`,
`CookiesToMap`, `Deleted` and `Restored` are PhantomJS's, with the direction of their
loops and the map that `cookiesToMap` uses for all cookies. Hosts are sequences
of labels, paths a depth, dates numbers. `Chosen` takes the cookies at some places
of a list in their order; it stands for the loops that remove the others.

### PageLoad

WebKit changes frames and loads at once; `WebPage::switchToMainFrame` and `finish`
are queued, and `queue` holds them. `DeliverFinish` begins an emission of
`loadFinished`: the handlers of the script come first, and may do anything,
nested events included; `CallBack` ends it with the callback of `page.open`, if
the one that was connected when the emission began still is. `setContent` and
`about:blank` replace the document at once, as WebKit does with substitute data.
`current` (`m_currentFrame`) is a bare pointer; using it after its frame is gone
is `UseDeletedFrame`. `idle`, `nested` and `unsafe` are history variables that the
properties speak of.

### GhostSession

A command is a record: its kind, the window it was given to, whether a timer of it is
set (the next poll of `checkLoadingFinished`, or the time-out of `execute`), its polls
and its answers. The kinds are those of the handlers: `"load"` (`url`, `click`,
`submit`), `"history"` (`refresh`, `back`, `forward`, whose time-out reports success),
`"execute"` and `"async"`. `RunCode` begins the code of a command, `CodeReturns` is what
its handler does after that: until then a command that loads has no timer. `stack` holds
the evaluations inside one another: requests are handled inside a long one
(`shouldInterruptJavaScript`). Timers hardly are: around that call WebKit defers loading
for all pages and suspends their timers, GhostDriver's included, so that only a timer
set since then can fire (`suspended`), and none does inside code that a timer has started
(`Firing`). `load` says what started the load of a window. A window's page is closed by
`deleteLater`, and `closedAt` says within how many evaluations that was asked for:
Qt deletes no earlier than it returns to that level. `known` is `_windows`, which the
`closing` signal of a page takes it out of. Commands that answer at once appear
by what they do to windows (`CloseWindow`, `SwitchToWindow`, `DeleteSession`).

## 3. Runs

Every property has a mutant in `PROJECT.json`: a definition of the model with a
plausible mistake (kept in the modules, marked `mutant`), under which TLC finds
the property violated.

| Run | Bounds | Shows |
|---|---|---|
| `socket_server` | 2 sessions, 2 scripts each, backlog 2, nesting 2 | `Isolation`, `OneInstance`, `SocketPointerInitialised`, `OwnSessionIsSafe`, `SetupTerminates`, `InstancesReclaimed`, and `ImplementsSandboxes`: the server is a refinement of `Sandboxes` |
| `socket_protocol` | 2 messages of up to 3 bytes, reads of 2 bytes, 2 waits | `BytesConserved`, `ExactFraming`, `NeverWaitsInVain`, `SessionEnds`, `ScriptsEvaluated` for clients that wait for their script |
| `web_server` | 2 workers, queue of 2, 3 connections, 1 `listen` | `PendingAlive`, `ScriptUsesLiveResponses`, `QueueIsFIFO`, `StopJoins`, `ResponsesReleased`, `ConnectionsServed` |
| `network_access` | 2 addresses, 2 requests, nesting 2, 1 attempt | `EndsOnce`, `Attributed`, `NoStaleEntries`, `TimedRequestsEnd` |
| `cookie_jar` | 6 cookies, 3 URLs, paths of depth 2, 2 clock steps, 2 cookies beside a new one | `UniqueKeys`, `RestoreKeepsCookies`, `AddedIsSent`, `PageCleared` |
| `page_load` | 2 calls of `open`, 1 other load, 1 child frame, emissions of depth 2 | `CalledOnce`, `ToldItsOwnLoad`, `SwitchedInTime`, `EndIsTold` |
| `ghost_session` | 2 commands of all kinds, 2 windows, 1 poll before the time-out, nesting 3, 1 event of a page's own | `AnsweredOnce`, `FollowsItsLoad`, `Answered` |
| `requests_executed` | violated | a script can vanish without a trace |
| `exit_ends_session` | violated | requests are served after `phantom.exit()` |
| `pipelined_framing` | violated | surplus bytes are evaluated with the script |
| `close_returns` | violated | `close()` can hang in `mg_stop` |
| `closers_answered` | violated | a command whose window is gone is never answered |

Why the bounds are enough: every hazard of the socket server involves a session
and its predecessor, so two sessions show it (the proofs cover all numbers); two
scripts are needed for one to run inside another and for order within a session;
nesting 2 is one script inside another. In the protocol, two messages show the
border between messages, scripts of 3 need several reads of 2 and are cut at
every place, and two waits distinguish the last from the others. In the web server two workers
and a queue of two make a lost wake-up, a full queue and a wrap of the pointers
possible with three connections; with `MaxListens = 2` the run also passes, in
four minutes instead of one. In the network two requests at two addresses run inside
one another or use one address in turn, and one attempt separates an answer from
a refusal. The cookies are chosen to collide: same name with and without a
domain, with and without its dot, in a subdomain, on a longer path, secure,
expiring at either tick, and one of a top-level domain, which is refused;
a room of 2 (49 in Qt) is exceeded by three of them. Two calls of `open`
and one more load give an old, a stopped and a new load; emissions
of depth 2 are one handler inside another. In a WebDriver session two commands
overlap or nest, and with two windows one can load while the other is closed;
nesting 3 is a command whose code runs inside that of another and code of the page
inside both. What pages do by themselves (open or close a window, load, run a timer)
is counted by `events`: with `MaxEvents = 2` and nesting 2 the safety properties pass too, in
2.6 million states.

`CHECK_DEADLOCK FALSE` where the system may stop: clients may send nothing more, the
process may have died, and a session, a page or a server may have ended. Only the
cookie jar never stops.

### Fairness

* `SocketServer`: the steps of the server thread that wait for nobody, the
  handling of events by the main thread, and the return of scripts are weakly
  fair, each justified by an OS scheduler that runs both threads and by scripts
  that end. So is `ClientDisconnected`: `doWork` ends the session of a silent
  client after ten failed waits of 30 s (`SessionEnds` of `SocketProtocol`).
  `EvaluateRequest`, `ConsoleMessage`, `PhantomExit` and connections are not fair.
* `SocketProtocol`: `doWork` is weakly fair, since each of its waits ends after
  30 s at the latest. Client and network are not.
* `WebServer`: workers, master and the steps of `close()` that can run are weakly fair.
  Scripts need not close their responses, clients need not connect.
* `NetworkAccess`: handlers return (`Return`) and each active timer fires; the
  network owes nothing, not even an end.
* `PageLoad`: the event loop delivers what is queued, and handlers return. Servers
  owe nothing, so loads need not end.
* `GhostSession`: the timers of commands are strongly fair, because a long evaluation
  suspends them and its end resumes them, and WebKit fires timers in the order of
  their times: one that is due again and again cannot be passed over for ever. That scripts
  return is not assumed of the model but is the premise of `Answered`
  (`ScriptsReturn`: again and again none runs). Loads need not end.

### Findings

* *Scripts that vanish.* `setup` waits for *an* instance in the map. If the
  deletion of the previous session's instance has not been handled, the new
  session attaches to the old instance, and its scripts are dropped when that is
  deleted. Isolation survives this: the events of a session are queued behind
  the deletion. That is the content of the inductive invariant below.
* *`phantom.exit()`.* The connection that should end the session
  ("Listen for Phantom exit(ing)") is queued to a thread that never returns to
  its event loop: requests are still read, and their scripts posted to the page that
  is gone, until the client leaves or does not send anything for ten waits.
* *Pipelining.* `doWork` evaluates all of `request_data` instead of its first
  `request_length` bytes.
* *`WebServer::close`.* Its comment says that `mg_stop` cannot deadlock once the
  responses are woken. It can, for two reasons in mongoose: the broadcast
  without the mutex, and the master in `produce_socket`.
* *GhostDriver's closed windows.* `checkLoadingFinished` resets the callbacks of a
  page that may have been deleted and explains why this is wrapped in a `try`. The
  same call in the branch of the time-out is not wrapped: when another window
  still loads then, the command is never answered.

Known and modelled, without a run of their own, and nearly all promised by nobody: NULL fetched
between insertion and assignment in the map, the unlocked map and socket, the
clients of the backlog that `server->close()` drops, a `WebServer` that answers 404
to everything after its second `listen` (`m_closing` stays set), and ended
responses in `m_pendingResponses`: one that the script closed just before
`server.close()` may end while the loop of `close()` still has to reach it, and
all that ended that way are met again by a second `close()`
(`PendingAlive` says that nothing else is met). Not modelled: the cookie jars of sessions
have `Phantom::instance()` as their parent (`networkaccessmanager.cpp:133`), which is
never deleted, so they are not freed with their session.
Also:

* `NetworkAccess`: a reply that WebKit drops for a redirect is never reported as
  ended and stays in `m_started`; so does the id of a synchronous reply; a request
  made by a handler of `resourceRequested` takes over the id of the outer one; an
  error of a refused reply has the id 0; authentication attempts are shared by all
  replies; `abort()` and `close()` may use a deleted reply.
* `CookieJar`: listed cookies of a single host come back as cookies of a domain, and
  a session cookie takes the expiry of the cookie listed before it; `contains` compares
  domains as texts, so that `ba.com` passes for `a.com`, where `DomainFits` compares whole
  labels (no two domains of the run differ that way).
* `PageLoad`: a call of `open` during a load is told of the load it stops, one that is
  refused of the next; `m_currentFrame` can point to a deleted frame when the page
  removes that frame itself, or the script chose it while a new document was on
  its way.
* `GhostSession`: the time-out of an `execute` does not limit its script,
  as the comment at `session_request_handler.js:353` has it: its timer belongs to a page of the same process, and
  WebKit suspends the timers of all pages whenever the script lets events be processed
  (`Chrome.cpp:339`), so it fires after the script, if at all, unless the script runs
  inside another one; a handler of a click that never returns leaves the click without an
  answer; a second `execute_async` of a window takes the first one's callback;
  an `execute` without a window leaves its timer armed, which answers again; a page
  that calls `callPhantom` with a string that is not JSON during an `execute_async` has it
  answered twice, since `respondBasedOnResult` does not return after the first error;
  `refresh`, `back` and `forward` report success at their time-out too; a navigation that
  a click has only scheduled may begin after the click has been answered, and counts as
  a load of the page's own (`PageLoads`); a page
  that closes after its session is gone can open a window nobody finds; a page can
  be deleted under its own evaluation.

## 4. Proofs

### SocketServerProofs

It proves, for all values of the constants and under
`SocketServerAssumption` only (the bounds are natural numbers):

| Theorem | States |
|---|---|
| `Invariance` | `Spec => []IInv` |
| `TypeCorrect`, `IsolationHolds`, `OneInstanceHolds`, `SocketPointerInitialisedHolds` | `Spec => []P` for the properties of the run |
| `AtMostOneInstanceHolds`, `DeleteFindsInstanceHolds` | the two halves of `OneInstance` |
| `OwnSessionIsSafeHolds` | the action property, from `IInv` |

None of the properties is inductive: `Isolation` depends on where evaluations
and deletions stand in the queue. `IInv` says that the queue is sorted by
session, within a session the creation first and the deletion last
(`QueueSorted`); that its events are neither handled already nor from the future
(`QueueBounds`); and that every creation and deletion posted and not handled is
still in it (`PendingCreates`, `PendingDeletes`). Hence the oldest event is
always the next of create 1, delete 1, create 2, ... (`HeadCreate`, `HeadDelete`),
and the counters alone determine the live instance (`Counters`) and the map
(`MapInv`). An evaluation that session s posted to an instance i < s lies behind
delete i, and is dropped; one whose page is alive has i = s. `Attached` and
`SocketInv` follow the pointers between `Phantom` and `SocketClient`. There is one
lemma per action, and under it one step per conjunct the action can disturb.

### SocketServerRefinementProofs

`ImplementsSandboxesHolds`: under `SocketServerAssumption`, `Spec => ImplementsSandboxes`.
The initial state maps to that of `Sandboxes`, and each action to an action of
`Sandboxes` or to a stutter; the fairness that the specification of the run adds plays
no part, since `Sandboxes` promises only safety. `IInv` has what happens in one
instance; the order between instances is a second invariant, `OrderInvariance`: pages have
been created and destroyed in the order of the sessions, and the creations
and deletions left in the queue complete that order. It is what makes the creation of
a page the `Open` of its session and not of a later one.

### SocketProtocolProofs

Two inductive invariants, under `SocketProtocolAssumption`. The first one
(`Invariance`) needs nothing about the client: every byte between the network and the
scripts is one of a message that was sent, and the bytes taken, buffered, and still on
their way are, in this order, the stream. `TypeCorrect` and `BytesConservedHolds`
follow, for all sizes of messages and reads. The second one (`FramingInvariance`) assumes
`~Pipelining` as well, since with a client that pipelines the property is false
(run `pipelined_framing`). It says what the buffers hold at each place of `doWork` as
long as no byte was late or lost: nothing, one whole message, or the rest of the
script whose header has been read. The newline that ends a header is the first one
of its line, although scripts may contain newlines, because a header has none
(`MaxRead >= 2`). `ExactFramingHolds` and `NeverWaitsInVainHolds` follow.

### WebServerProofs

One inductive invariant, under `WebServerAssumption`, for any number of workers,
connections, queue places and listens. `sq_head` and `sq_tail` stay within twice the
queue size, so places less than a queue size apart are different slots
(`DistinctSlots`) and the ring agrees with `fifo` (`QueueIsFIFOHolds`). `Arrivals`:
connections are numbered in the order of `accept`, the queue keeps that order and a
worker takes the oldest, so every connection taken is older than all that nobody has
taken and no two workers serve the same (`ServedOnceHolds`). `Threads`: `num_threads` is
the number of workers that have not returned, and `stop_flag` is 2 only when all
threads have (`StopJoinsHolds`). `Responses`, `ScriptKnows` and `Closing`: the living
responses are those of the workers inside `handleRequest`, and until `close()` runs
`m_pendingResponses` lists exactly these; before the first `close()` a response ends only
after the script has closed it, and what `close()` has still to close is alive or was closed by
the script (`PendingAliveHolds`, `ScriptUsesLiveResponsesHolds`).

### NetworkAccessProofs

Under `NetworkAccessAssumption` (bounds are natural numbers, addresses finitely
many), for any number of requests, addresses, nested handlers and attempts:
`Invariance`, `TypeCorrect`, `EndsOnceHolds`, `AttributedHolds`, `NoStaleEntriesHolds`. The
last three properties are about what was told, the tables only about now; `IInv` connects
them. `Owners`: living replies belong to one announced request each. `Calls`:
nothing has been told of a request whose `createRequest` still waits for its
handler, and it is the last one, or another was started inside it. `Table`: a
living reply has an entry in `m_ids` exactly as long as the end of its request
has not been told, the entry is the number of that request unless its handler
started another, and a reply that still works without an entry waits
for the handler in which it was refused: so it cannot start again and be told a
start with the id 0. `Telling` has the properties themselves, one request at a
time. Most actions are instances of three lemmas: a reply ends (`EndingStep`), one
more thing is told (`NotingStep`), a call returns (`ReturningStep`). `TypeCorrect` adds the bounds
(`Bounded`): the invariant itself does without them.

### CookieJarProofs

Under `CookieJarAssumption` (cookies and URLs are records of their fields; a path
has a depth up to `MaxPath`), for any cookies, URLs and limits: `Invariance`,
`TypeCorrect`, `UniqueKeysHolds`, `PageClearedHolds`, `AddedIsSentHolds`,
`RestoreKeepsCookiesHolds`. The invariant `Good` has, beside types and unique keys, two
parts that only `RestoreKeepsCookies` needs. `Sited`: no cookie with a dot before its
domain is one of a top-level domain, so that none is refused when it is written
back. `Roomy`: before each cookie there are at most `MaxForDomain` related ones. Being
related is not transitive, and a cookie can in the end have many more related ones than that
after it; but those that one host sees are pairwise related (`SeenAreRelated`), so the
last of them had room for the others and none of them is crowded out on
their way back (`SeenAreFew`, `MakeRoomTail`). What is not seen may be.

Lists are dealt with by their places: `Nth` of a set of places is there and
increasing (`NthIsThere`, `NthIncreasing`), hence `Chosen` keeps order and keys
(`ChosenGood`, `ChosenTail`); the rank of a cookie in a listing is a bijection (`AllRanks`,
`ListedInOrder`). `AddedAll` is a recursive function; that it exists and what it
passes through is shown by its least counterexample (`PassesExist`, `AddedAllGood`,
`WriteAllBack`), which replaces the induction theorems of the library.

### PageLoadProofs

Under `PageLoadAssumption`: `Invariance`, `TypeCorrect`, `CalledOnceHolds`,
`LoadInvariance`, `ToldItsOwnLoadHolds`, `SwitchedInTimeHolds`.
`CalledOnce` is not inductive, since a callback that has been called might still
be in the slot. `SlotUntold` says that it is not: `open` puts a new callback
there, and the emission that calls it takes it out first. `LoadInvariance` strengthens
`IInv` by two parts. `OwnLoad`: the finish that an idle page's `open` waits for is the end
of the load it started, wherever that is, in WebKit, in the queue, or in an emission that
has begun. `SwitchOnItsWay`: when the current frame has been replaced, the queued
`switchToMainFrame` has not run yet.

### GhostSessionProofs

Under `GhostSessionAssumption`: `Invariance`, `AnsweredOnceHolds`, `TypeCorrect`,
`FollowsItsLoadHolds`. `IInv` has four parts. `Typed`: every command is a record of its
kind, and only commands that have arrived run code or wait for a callback. `PagesExist`:
the session knows, and evaluations run in, pages that exist, unless the program has
crashed. `Settled`: which timer and answers a command of each kind can have. One that loads has
neither while its code runs, and a timer only while it is unanswered or has
failed already; the timer of an executed script, which answers without looking, is set only
while there is no answer, or the command has found no window. That is why each is
answered once: the exceptions of `AnsweredOnce` are the two cases in which the code does not
see to it. `Followed`: for a command answered with success no window that it can see
loads. It survives because a load begins only while the code of its command
runs, when by `Settled` there is no answer yet, and windows are added only when nothing
loads in them for a command (`PagesExist`: what has not been opened loads nothing).

### Only model-checked

Every safety property that a run checks is also proved, and so are the action properties and
the refinement. The liveness properties are only model-checked: `SetupTerminates`,
`InstancesReclaimed`, `SessionEnds`, `ScriptsEvaluated`, `ResponsesReleased`,
`ConnectionsServed`, `TimedRequestsEnd`, `EndIsTold`, `Answered`. They rest on
fairness, and TLAPS does not treat `ENABLED`. The violations of the five other runs
are counterexamples, which no proof can add to; `ExactFraming` and `NeverWaitsInVain` are proved for
clients that do not pipeline, as the run checks them.

## 5. Not modelled

Within the modelled parts: the command line; the settings and file system entry
points of `Phantom`; `page.close()` of the instance's own page by a
script; failure of `listen` on the port of the socket server; spurious wake-ups of
`pthread_cond_wait` (they lead back to the test that precedes the wait); contents
of HTTP messages, slow HTTP clients that block a worker while it reads a request,
keep-alive; a `listen` on a server that is up (`close`, then the modelled one); a
start that overlaps a stop; the internal state of a `QTcpSocket` used from two
threads. Of the network, headers, SSL, proxies, and the end of the page under a
handler. Of cookies, `httpOnly`, the text of dates (exact to the second in UTC; a
number in `expires` is milliseconds, where a comment says seconds), and the purge,
save and load functions, which only the destructor reaches or which are commented
out. Of a page, `includeJs`, the loads of child frames (which WebKit reports as the
page's when the main frame has none), the tables of downloads (`m_uc_ids`), the
handlers that only pass a value to the script, rendering, geometry and input. Of
GhostDriver, routing and error formats, element location with its implicit wait,
inputs, frames and the hub.

Out altogether: `FileSystem` (sequential wrappers of Qt's files; `copyTree` and
`removeTree` stop at the first failure and promise nothing about the rest), the
module loader and `ChildProcess` (next in the plan), configuration, REPL, terminal,
encodings and environment (no state that several actors share), and third-party
code, of which only the parts that the modules above rest on are modelled. That
code is nearly all of the repository: Qt and WebKit make up more than nine tenths of
its lines.

## 6. Plan

Done: `SocketServer`, `Sandboxes` and the refinement; `SocketProtocol`; `WebServer`;
`CookieJar`; `NetworkAccess`, `PageLoad` and `GhostSession`; the proofs of their safety.

Next:

1. `Modules`: `require`, its cache, stubs and cycles; `ChildProcess`: the exit of a
   process that crashes. Two modules with a cycle, one process.
2. The composition of `PageLoad` with `NetworkAccess` through the notifications of a
   page, and of `GhostSession` with the responses of `WebServer`.

Proofs to come: with these modules, the invariants that their compositions need, and
safety lemmas on which the liveness properties rest (which step is enabled in every
state that is not final).
