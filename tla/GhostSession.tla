---------------------------- MODULE GhostSession ----------------------------
(***************************************************************************)
(* A WebDriver session of GhostDriver: its windows, which are web pages,   *)
(* and the commands that run code of a page, or whose answers wait: for    *)
(* the windows to have loaded ("load": url, click and submit; "history":   *)
(* refresh, back and forward), for a script to return ("execute"), or for  *)
(* the page to call back ("async": execute_async).                         *)
(*                                                                         *)
(* All of it runs in one thread, but the code of a page that runs for long *)
(* makes WebKit ask shouldInterruptJavaScript, and WebPage answers by      *)
(* processing events: requests are handled and timers fire while that code *)
(* is on the stack.  Not every timer: WebKit suspends the timers of all    *)
(* pages, GhostDriver's own among them, while it asks, so that only timers *)
(* set meanwhile can fire; and none fires inside code a timer has started. *)
(*                                                                         *)
(* Commands that answer at once appear by what they do to the windows.     *)
(* The status of a load is left out: no command looks at it.               *)
(***************************************************************************)
EXTENDS Naturals, SequencesExt

CONSTANTS
    Windows,       \* window handles
    First,         \* the window a session starts with
    Offered,       \* the kinds of commands that its client sends
    MaxCommands,   \* bound: commands of the kinds above
    MaxPolls,      \* bound: polls of checkLoadingFinished before the time-out
    MaxNesting,    \* bound: evaluations running inside one another
    MaxEvents      \* bound: loads, timers, opened and closed windows of pages

ASSUME GhostSessionAssumption ==
    /\ First \in Windows /\ Offered \subseteq {"load", "history", "execute", "async"}
    /\ MaxCommands \in Nat /\ MaxPolls \in Nat \ {0}
    /\ MaxNesting \in Nat /\ MaxEvents \in Nat

VARIABLES
    session,    \* "live" or "deleted": _sessions of the session manager
    window,     \* each window's page: "unborn", "open", "closing" or "deleted"
    closedAt,   \* how many evaluations were running when its deletion was posted
    known,      \* _windows
    current,    \* _currentWindowHandle
    load,       \* what started the load of a window: a command, ByPage, or 0
    callback,   \* onCallbackOneShot of a window: its command or 0
    commands,   \* the commands
    stack,      \* the evaluations of page code that run: whose, and in which window
    suspended,  \* the commands whose timers WebKit has suspended
    crashed,    \* a page was deleted under the evaluation of its script
    events      \* what pages have done by themselves, for MaxEvents

windows == <<session, window, closedAt, known, current>>
vars == <<windows, load, callback, commands, stack, suspended, crashed, events>>

Loading == {"load", "history"}
Kinds == Loading \cup {"execute", "async"}
ByPage == MaxCommands + 1
Commands == 1..MaxCommands
Alive(w) == window[w] \in {"open", "closing"}

\* A session knows only windows whose pages exist, for it calls them unchecked.
TypeOK ==
    /\ session \in {"live", "deleted"}
    /\ window \in [Windows -> {"unborn", "open", "closing", "deleted"}]
    /\ known \subseteq {w \in Windows : Alive(w)} /\ current \in Windows
    /\ load \in [Windows -> 0..ByPage] /\ callback \in [Windows -> 0..MaxCommands]
    /\ Len(commands) <= MaxCommands
    /\ \A c \in DOMAIN commands :
           commands[c].kind \in Kinds /\ commands[c].polls \in 0..MaxPolls
    /\ \A i \in DOMAIN stack :
           stack[i].who \in DOMAIN commands \cup {ByPage} /\ stack[i].window \in Windows
    /\ suspended \subseteq DOMAIN commands
    /\ crashed \in BOOLEAN /\ events \in 0..MaxEvents

Init ==
    /\ session = "live"
    /\ window = [w \in Windows |-> IF w = First THEN "open" ELSE "unborn"]
    /\ closedAt = [w \in Windows |-> 0]
    /\ known = {First} /\ current = First
    /\ load = [w \in Windows |-> 0] /\ callback = [w \in Windows |-> 0]
    /\ commands = <<>> /\ stack = <<>> /\ suspended = {} /\ crashed = FALSE
    /\ events = 0

-----------------------------------------------------------------------------
(* Evaluations of page code *)

\* What a page does of which no command is the cause.
ByItself == events < MaxEvents /\ events' = events + 1

Armed == {c \in DOMAIN commands : commands[c].timer}

\* The first long evaluation has every timer set before it suspended; those
\* nested in it find all pages suspended, and change nothing.
Evaluate(who, w, timers) ==
    /\ Len(stack) < MaxNesting
    /\ stack' = Append(stack, [who |-> who, window |-> w])
    /\ suspended' = IF stack = <<>> THEN timers ELSE suspended

Return ==
    /\ stack' = Front(stack)
    /\ suspended' = IF Len(stack) = 1 THEN {} ELSE suspended

\* The outermost evaluation asks once more whether to interrupt it.
Interrupt ==
    /\ ~crashed /\ Len(stack) = 1 /\ suspended' = Armed
    /\ UNCHANGED <<windows, load, callback, commands, stack, crashed, events>>

\* Code that a timer of a page has started is running.
Firing == \E i \in DOMAIN stack : stack[i].who = ByPage

PageTimer(w) ==
    /\ ~crashed /\ Alive(w) /\ ByItself /\ ~Firing /\ Evaluate(ByPage, w, Armed)
    /\ UNCHANGED <<windows, load, callback, commands, crashed>>

-----------------------------------------------------------------------------
(* Commands *)

NewCommand == Len(commands) + 1

\* The command that arrives and what becomes of it in its handler.
Arrives(kind, timer, answers) ==
    /\ ~crashed /\ session = "live" /\ NewCommand \in Commands
    /\ commands' = Append(commands,
           [kind |-> kind, window |-> current, timer |-> timer, polls |-> 0,
            missing |-> current \notin known, aborted |-> FALSE, answers |-> answers])

\* getSessionCurrWindow throws and the router answers; an execute command has
\* set its timer before it looks for the window, and leaves it set.
NoSuchWindow(kind) ==
    /\ current \notin known /\ Arrives(kind, kind = "execute", <<"error">>)
    /\ UNCHANGED <<windows, load, callback, stack, suspended, crashed, events>>

\* back or forward at the end of the history: that is ok.
NowhereToGo ==
    /\ "history" \in Offered
    /\ current \in known /\ Arrives("history", FALSE, <<"success">>)
    /\ UNCHANGED <<windows, load, callback, stack, suspended, crashed, events>>

\* The command runs code of its page: the script or the handlers of the click,
\* or those of the document that is left.  An execute command sets its timer
\* before, an execute_async replaces the callback of an earlier one.
RunCode(kind) ==
    /\ current \in known /\ Arrives(kind, kind = "execute", <<>>)
    /\ Evaluate(NewCommand, current,
                Armed \cup {c \in {NewCommand} : kind = "execute"})
    /\ callback' = IF kind = "async" THEN [callback EXCEPT ![current] = NewCommand]
                                     ELSE callback
    /\ UNCHANGED <<windows, load, crashed, events>>

\* Its window begins to load while the code of the command runs.
LoadStarts ==
    /\ ~crashed /\ stack # <<>>
    /\ LET top == Last(stack)
       IN  /\ top.who # ByPage /\ commands[top.who].kind \in Loading
           /\ load' = [load EXCEPT ![top.window] = top.who]
    /\ UNCHANGED <<windows, callback, commands, stack, suspended, crashed, events>>

NeverTimedOut(c) == FALSE   \* mutant
\* Only firing turns the timer of a running script off.
TimedOut(c) == ~commands[c].timer

\* What a command does when its code has returned.  Those that load look in
\* 10 ms whether they still do; a click or submit that has failed, with a report
\* or without, is answered now.  An execute command is, unless its time is out.
AfterCode(c) ==
    \/ commands[c].kind \in Loading /\ commands' = [commands EXCEPT ![c].timer = TRUE]
    \/ /\ commands[c].kind = "load"
       /\ \E report \in BOOLEAN :
              commands' = [commands EXCEPT ![c].timer = report, ![c].aborted = TRUE,
                                           ![c].answers = Append(@, "error")]
    \/ /\ commands[c].kind = "execute"
       /\ commands' = [commands EXCEPT ![c].timer = FALSE,
              ![c].answers = IF TimedOut(c) THEN @ ELSE Append(@, "reply")]
    \/ commands[c].kind = "async" /\ UNCHANGED commands

CodeReturns ==
    /\ ~crashed /\ stack # <<>> /\ Return
    /\ IF Last(stack).who = ByPage THEN UNCHANGED commands ELSE AfterCode(Last(stack).who)
    /\ UNCHANGED <<windows, load, callback, crashed, events>>

-----------------------------------------------------------------------------
(* Timers and callbacks *)

CurrentIsLoading == current \in known /\ load[current] # 0   \* mutant
IsLoading == \E w \in known : load[w] # 0

Unanswered(c) == commands[c].answers = <<>>

Fires(c) ==
    /\ ~crashed /\ c \in Armed \ suspended /\ ~Firing
    /\ UNCHANGED <<windows, load, callback, stack, suspended, crashed, events>>

Forgotten(c) == [commands EXCEPT ![c].timer = FALSE]   \* mutant
Retry(c) == [commands EXCEPT ![c].polls = @ + 1]

Stopped(c, answer) ==
    [commands EXCEPT ![c].timer = FALSE,
                     ![c].answers = IF commands[c].aborted THEN @ ELSE Append(@, answer)]

\* The time-out of a history command reports success: nobody cares.
TimeOutAnswer(c) == IF commands[c].kind = "history" THEN "success" ELSE "error"

\* checkLoadingFinished.  A page that is gone makes the reset of its one-shot
\* callbacks throw: this is caught when nothing loads, but not at the time-out.
CheckLoadingFinished(c) ==
    /\ Fires(c) /\ commands[c].kind \in Loading
    /\ \/ ~IsLoading /\ commands' = Stopped(c, "success")
       \/ IsLoading /\ commands[c].polls < MaxPolls /\ commands' = Retry(c)
       \/ /\ IsLoading /\ commands[c].polls > 0
          /\ commands' = IF window[commands[c].window] = "deleted"
                           THEN [commands EXCEPT ![c].timer = FALSE]
                           ELSE Stopped(c, TimeOutAnswer(c))

\* The timer of an execute command answers whatever has happened to it; the
\* response to one that found no window may be gone.
ScriptTimer(c) ==
    /\ Fires(c) /\ commands[c].kind = "execute"
    /\ \/ commands' = Stopped(c, "error")
       \/ commands[c].missing /\ commands' = [commands EXCEPT ![c].timer = FALSE]

\* respondBasedOnResult to the report of an execute_async script, or to what
\* any script of the page passes to callPhantom.  A string that is not JSON is
\* answered as invalid and, without a return, as a failure; if the response,
\* which the first answer has closed, is gone by then, the second throws, and
\* the one-shot callback stays, to no further effect.
CallPhantom(w) ==
    /\ ~crashed /\ Alive(w) /\ callback[w] # 0 /\ Unanswered(callback[w])
    /\ \E answers \in {<<"reply">>, <<"error", "error">>, <<"error">>} :
           /\ commands' = [commands EXCEPT ![callback[w]].answers = answers]
           /\ callback' = IF answers = <<"error">> THEN callback
                                                 ELSE [callback EXCEPT ![w] = 0]
    /\ UNCHANGED <<windows, load, stack, suspended, crashed, events>>

-----------------------------------------------------------------------------
(* Windows *)

\* Pages closed by the script or the session: deleteLater.
Closing(closed) ==
    /\ window' = [w \in Windows |-> IF w \in closed /\ Alive(w) THEN "closing" ELSE window[w]]
    /\ closedAt' = [w \in Windows |-> IF w \in closed /\ window[w] = "open"
                                        THEN Len(stack) ELSE closedAt[w]]

PagesStay == UNCHANGED <<load, callback, commands, stack, suspended, crashed>>

\* window.open(): onPageCreated adds the page, whatever became of the session.
OpenWindow(w, v) ==
    /\ ~crashed /\ Alive(w) /\ window[v] = "unborn" /\ ByItself /\ PagesStay
    /\ window' = [window EXCEPT ![v] = "open"] /\ known' = known \cup {v}
    /\ UNCHANGED <<session, closedAt, current>>

\* window.close() of a page.
PageCloses(w) ==
    /\ ~crashed /\ window[w] = "open" /\ ByItself /\ Closing({w}) /\ PagesStay
    /\ UNCHANGED <<session, known, current>>

CloseWindow(w) ==
    /\ ~crashed /\ session = "live" /\ w \in known /\ Closing({w}) /\ PagesStay
    /\ known' = known \ {w} /\ UNCHANGED <<session, current, events>>

SwitchToWindow(w) ==
    /\ ~crashed /\ session = "live" /\ w \in known /\ current # w /\ PagesStay
    /\ current' = w /\ UNCHANGED <<session, window, closedAt, known, events>>

\* By its DELETE command, or by the clean-up of sessions without windows.
DeleteSession ==
    /\ ~crashed /\ session = "live" /\ Closing(known) /\ PagesStay
    /\ session' = "deleted" /\ known' = {} /\ UNCHANGED <<current, events>>

\* The closing signal of a page takes it out of _windows.
StillKnown(w) == known   \* mutant
DeleteClosingPage(w) == known \ {w}

\* Qt deletes when the handler that asked has returned: not in an evaluation
\* that began after the request, but in one that was already running.
DeletePage(w) ==
    /\ ~crashed /\ window[w] = "closing" /\ Len(stack) <= closedAt[w]
    /\ window' = [window EXCEPT ![w] = "deleted"] /\ known' = DeleteClosingPage(w)
    /\ load' = [load EXCEPT ![w] = 0] /\ callback' = [callback EXCEPT ![w] = 0]
    /\ crashed' = (\E i \in DOMAIN stack : stack[i].window = w)
    /\ closedAt' = [closedAt EXCEPT ![w] = 0]
    /\ UNCHANGED <<session, current, commands, stack, suspended, events>>

\* A load that the code of no command begins.  Such is the one that a script has
\* only asked for (it submits a form): it begins when the script has returned.
PageLoads(w) ==
    /\ ~crashed /\ Alive(w) /\ ByItself /\ load' = [load EXCEPT ![w] = ByPage]
    /\ UNCHANGED <<windows, callback, commands, stack, suspended, crashed>>

LoadEnds(w) ==
    /\ ~crashed /\ load[w] # 0 /\ load' = [load EXCEPT ![w] = 0]
    /\ UNCHANGED <<windows, callback, commands, stack, suspended, crashed, events>>

Requests ==
    \/ \E kind \in Offered : NoSuchWindow(kind) \/ RunCode(kind)
    \/ NowhereToGo \/ DeleteSession
    \/ \E w \in Windows : CloseWindow(w) \/ SwitchToWindow(w)

Timers == \E c \in Commands : CheckLoadingFinished(c) \/ ScriptTimer(c)

Pages ==
    \/ LoadStarts \/ CodeReturns \/ Interrupt
    \/ \E w \in Windows :
           \/ PageTimer(w) \/ CallPhantom(w) \/ PageCloses(w) \/ DeletePage(w)
           \/ PageLoads(w) \/ LoadEnds(w)
           \/ \E v \in Windows : OpenWindow(w, v)

Next == Requests \/ Timers \/ Pages

\* Timers fire in the order of their times, so that one which is due again and
\* again, whenever no evaluation runs, fires in the end.  Scripts need not
\* return, pages need not finish loading.
Spec ==
    /\ Init /\ [][Next]_vars
    /\ \A c \in Commands : SF_vars(CheckLoadingFinished(c)) /\ SF_vars(ScriptTimer(c))

-----------------------------------------------------------------------------
(* Properties *)

\* A command is answered at most once, though its time-out, the return of its
\* script and its failure race in nested event loops (session_request_handler.js
\* executeCommand, webelement_request_handler.js postClickCommand).  Two
\* exceptions: an execute command that found no window, and an execute_async
\* whose page calls back with a string that is not JSON.
AnsweredOnce ==
    \A c \in DOMAIN commands :
        \/ Len(commands[c].answers) <= 1
        \/ commands[c].kind = "execute" /\ commands[c].missing
        \/ commands[c].kind = "async" /\ commands[c].answers = <<"error", "error">>

\* When a command that loads is answered with success, the load that its code
\* began has ended, even if another command has moved on to another window
\* meanwhile (session.js isLoading).  Only a window the session has lost does
\* not count, nor a history command that has seen its window load: such a
\* command succeeds at its time-out too.
FollowsItsLoad ==
    \A c \in DOMAIN commands :
        /\ commands[c].kind \in Loading /\ commands[c].answers = <<"success">>
        /\ commands[c].kind = "history" => commands[c].polls = 0
        => \A w \in known : load[w] # c

WaitsForAnswer(c) ==
    c \in DOMAIN commands /\ commands[c].kind # "async" /\ Unanswered(c)

Released(c) ==
    ~WaitsForAnswer(c) \/ crashed \/ window[commands[c].window] = "deleted"

ScriptsReturn == []<>(stack = <<>>)

\* Provided that the scripts of the pages return, a command is answered in the
\* end, though pages may load for ever and its timer is suspended by every long
\* evaluation, unless its window is deleted or the program crashes
\* (execFuncAndWaitForLoad, executeCommand).
Answered == ScriptsReturn => \A c \in Commands : WaitsForAnswer(c) ~> Released(c)

\* The comment of checkLoadingFinished (session.js:191): a command that closes
\* its own window moves on and is answered.  It is not when another window still
\* loads at the time-out.
ClosersAnswered ==
    ScriptsReturn =>
        \A c \in Commands : WaitsForAnswer(c) ~> (~WaitsForAnswer(c) \/ crashed)
=============================================================================
