------------------------------ MODULE PageLoad ------------------------------
(***************************************************************************)
(* A web page as its script sees it: page.open and its callback, the loads *)
(* of the main frame, the current frame of the frame functions, and the    *)
(* signals of WebKit that WebPage takes with queued connections.  WebKit   *)
(* acts at once and the page's own slots run later, so each of them works  *)
(* on a page that may already have moved on.                               *)
(*                                                                         *)
(* One page and one level of child frames.  The loads of child frames,     *)
(* which WebKit also reports as loads of the page when the main frame has  *)
(* none, are left out.                                                     *)
(***************************************************************************)
EXTENDS Naturals, SequencesExt

CONSTANTS
    Frames,     \* the child frame objects, each created at most once
    Main,       \* m_mainFrame
    MaxOpens,   \* bound: calls of page.open
    MaxLoads,   \* bound: other loads (links, scripts of the page, reload, setContent)
    MaxDepth    \* bound: nested deliveries of loadFinished

ASSUME PageLoadAssumption ==
    /\ Main \notin Frames
    /\ MaxOpens \in Nat /\ MaxLoads \in Nat /\ MaxDepth \in Nat \ {0}

VARIABLES
    page,      \* "open", "closing" (deleteLater called), "deleted" or "crashed"
    load,      \* the load of the main frame: its state, and its page.open or 0
    frames,    \* each child frame: "unborn", "alive" or "deleted"
    current,   \* m_currentFrame, never cleared when its frame is deleted
    unsafe,    \* history: the script chose a frame of a document on its way
               \* out, or the page itself removed the chosen frame
    queue,     \* posted events of this page
    emitting,  \* the running emissions of loadFinished, innermost last
    slot,      \* handlers._onPageOpenFinished: the call of open it belongs to, or 0
    opens,     \* the calls of page.open
    loads      \* how many other loads there were

vars == <<page, load, frames, current, unsafe, queue, emitting, slot, opens, loads>>

NoLoad == [state |-> "none", of |-> 0]
SwitchEvent == [kind |-> "switchToMainFrame"]
FinishEvent(ok) == [kind |-> "finish", ok |-> ok]

Statuses == {"success", "fail"}
Misworded(ok) == IF ok THEN "success" ELSE "failure"   \* mutant
Status(ok) == IF ok THEN "success" ELSE "fail"
Switching == Contains(queue, SwitchEvent)
Finishing == \E ok \in BOOLEAN : Contains(queue, FinishEvent(ok))

TypeOK ==
    /\ page \in {"open", "closing", "deleted", "crashed"}
    /\ \A o \in DOMAIN opens : opens[o].outcome \in Statuses \cup {"loading", "refused"}
    /\ load \in [state : {"none", "provisional", "committed"}, of : 0..MaxOpens]
    /\ frames \in [Frames -> {"unborn", "alive", "deleted"}]
    /\ current \in Frames \cup {Main} /\ unsafe \in BOOLEAN
    /\ Len(emitting) <= MaxDepth
    /\ slot \in 0..Len(opens) /\ load.of <= Len(opens) /\ Len(opens) <= MaxOpens
    /\ loads \in 0..MaxLoads

Init ==
    /\ page = "open" /\ load = NoLoad
    /\ frames = [f \in Frames |-> "unborn"] /\ current = Main /\ unsafe = FALSE
    /\ queue = <<>> /\ emitting = <<>> /\ slot = 0 /\ opens = <<>> /\ loads = 0

-----------------------------------------------------------------------------
(* What WebKit does at once *)

Usable == page \in {"open", "closing"}

\* The end of the load in progress, if any, is signalled at once and queued.
FailureUnheard(ok) == IF load # NoLoad /\ ok THEN <<FinishEvent(ok)>> ELSE <<>>   \* mutant
EndOfLoad(ok) == IF load = NoLoad THEN <<>> ELSE <<FinishEvent(ok)>>
StopEvents == EndOfLoad(FALSE)

Settled(ok) ==
    [o \in DOMAIN opens |-> IF load # NoLoad /\ load.of = o
                              THEN [opens[o] EXCEPT !.outcome = Status(ok)]
                              ELSE opens[o]]

\* A new document takes the place of the old one, whose child frames go.
Replaced ==
    [f \in Frames |-> IF frames[f] = "alive" THEN "deleted" ELSE frames[f]]

\* The events of a load that starts: main frame first, then what follows at once.
StartForgotten == <<>>   \* mutant
StartEvents == <<SwitchEvent>>

-----------------------------------------------------------------------------
(* The script *)

\* A call of open that finds the page idle can only be told of its own load.
Idle == load = NoLoad /\ ~Finishing

\* page.open: the callback takes the slot, the load in progress is stopped, and
\* an unknown operation or a locked page returns without loading anything.
Open(how, callback) ==
    LET o == Len(opens) + 1 IN
    /\ Usable /\ Len(opens) < MaxOpens
    /\ slot' = IF callback THEN o ELSE slot
    /\ opens' = Append(Settled(FALSE),
                       [outcome |-> CASE how = "load" -> "loading"
                                      [] how = "blank" -> "success"
                                      [] how = "refused" -> "refused",
                        told |-> <<>>, idle |-> Idle])
    /\ load' = IF how = "load" THEN [state |-> "provisional", of |-> o] ELSE NoLoad
    /\ frames' = IF how = "blank" THEN Replaced ELSE frames
    /\ queue' = queue \o StopEvents \o
                    CASE how = "load" -> StartEvents
                      [] how = "blank" -> StartEvents \o <<FinishEvent(TRUE)>>
                      [] how = "refused" -> <<>>
    /\ UNCHANGED <<page, current, unsafe, emitting, loads>>

Stop ==
    /\ Usable /\ load # NoLoad
    /\ queue' = queue \o StopEvents /\ opens' = Settled(FALSE) /\ load' = NoLoad
    /\ UNCHANGED <<page, frames, current, unsafe, emitting, slot, loads>>

\* A load that is no page.open: a link, a script of the page, reload, goBack
\* or goForward.  With setContent the new document is there at once.
OtherLoad(state) ==
    /\ Usable /\ loads < MaxLoads
    /\ loads' = loads + 1
    /\ queue' = queue \o StopEvents \o StartEvents /\ opens' = Settled(FALSE)
    /\ load' = [state |-> state, of |-> 0]
    /\ frames' = IF state = "committed" THEN Replaced ELSE frames
    /\ UNCHANGED <<page, current, unsafe, emitting, slot>>

Navigate == OtherLoad("provisional")
SetContent == OtherLoad("committed")

\* A frame of a document that a load is about to replace.
OnItsWayOut == load.state = "provisional" /\ ~Switching

ChangeCurrentFrame(f) ==
    /\ current' = f /\ unsafe' = (f # Main /\ OnItsWayOut)
    /\ UNCHANGED <<page, load, frames, queue, emitting, slot, opens, loads>>

\* The functions that look at the current frame's family use the pointer.
UseDeletedFrame ==
    /\ Usable /\ current # Main /\ frames[current] = "deleted"
    /\ page' = "crashed"
    /\ UNCHANGED <<load, frames, current, unsafe, queue, emitting, slot, opens, loads>>

SwitchToFrame(f) == Usable /\ current = Main /\ frames[f] = "alive" /\ ChangeCurrentFrame(f)

SwitchToParentFrame ==
    Usable /\ current # Main /\ frames[current] = "alive" /\ ChangeCurrentFrame(Main)

SwitchToMainFrame == Usable /\ current # Main /\ ChangeCurrentFrame(Main)

SwitchToFocusedFrame(f) == Usable /\ frames[f] = "alive" /\ current # f /\ ChangeCurrentFrame(f)

\* close(), of the script or queued by window.close() of the page: deleteLater.
Close ==
    /\ page = "open" /\ page' = "closing"
    /\ UNCHANGED <<load, frames, current, unsafe, queue, emitting, slot, opens, loads>>

-----------------------------------------------------------------------------
(* The page and the loader *)

CreateFrame(f) ==
    /\ Usable /\ frames[f] = "unborn" /\ frames' = [frames EXCEPT ![f] = "alive"]
    /\ UNCHANGED <<page, load, current, unsafe, queue, emitting, slot, opens, loads>>

RemoveFrame(f) ==
    /\ Usable /\ frames[f] = "alive" /\ frames' = [frames EXCEPT ![f] = "deleted"]
    /\ unsafe' = (unsafe \/ f = current)
    /\ UNCHANGED <<page, load, current, queue, emitting, slot, opens, loads>>

Commit ==
    /\ Usable /\ load.state = "provisional"
    /\ load' = [load EXCEPT !.state = "committed"] /\ frames' = Replaced
    /\ UNCHANGED <<page, current, unsafe, queue, emitting, slot, opens, loads>>

EndLoad(ok) ==
    /\ Usable /\ load # NoLoad /\ (ok => load.state = "committed")
    /\ load' = NoLoad /\ queue' = queue \o EndOfLoad(ok) /\ opens' = Settled(ok)
    /\ UNCHANGED <<page, frames, current, unsafe, emitting, slot, loads>>

-----------------------------------------------------------------------------
(* The event loop, also nested in a handler that processes events *)

\* switchToMainFrame, queued by loadStarted.
DeliverSwitch ==
    /\ Usable /\ queue # <<>> /\ Head(queue) = SwitchEvent
    /\ queue' = Tail(queue) /\ current' = Main
    /\ UNCHANGED <<page, load, frames, unsafe, emitting, slot, opens, loads>>

\* finish emits loadFinished: to the handlers of the script first, which may do
\* anything above, then to the callback that held the slot when it began.
DeliverFinish ==
    /\ Usable /\ queue # <<>> /\ Head(queue).kind = "finish" /\ Len(emitting) < MaxDepth
    /\ queue' = Tail(queue)
    /\ emitting' = Append(emitting, [ok |-> Head(queue).ok, to |-> slot])
    /\ UNCHANGED <<page, load, frames, current, unsafe, slot, opens, loads>>

\* The deletion waits for the handlers outside of which it was asked for, and
\* may come between any two events after that; what the page had queued goes
\* with it, and its emissions end.
Delete ==
    /\ page = "closing" /\ page' = "deleted"
    /\ queue' = <<>> /\ emitting' = <<>> /\ load' = NoLoad /\ opens' = Settled(FALSE)
    /\ slot' = 0 /\ frames' = Replaced /\ current' = Main
    /\ UNCHANGED <<unsafe, loads>>

\* The callback that took part in an emission is called only while it is still
\* connected; it disconnects itself and then calls the script's function.
LatestTold(e) == slot # 0   \* mutant
Connected(e) == e.to # 0 /\ slot = e.to
NotCleared == slot   \* mutant
Cleared == 0

CallBack ==
    LET e == Last(emitting)
    IN  /\ Usable /\ emitting # <<>> /\ emitting' = Front(emitting)
        /\ IF Connected(e)
             THEN /\ slot' = Cleared
                  /\ opens' = [opens EXCEPT ![slot].told =
                                Append(@, [status |-> Status(e.ok), nested |-> Len(emitting) > 1])]
             ELSE UNCHANGED <<slot, opens>>
        /\ UNCHANGED <<page, load, frames, current, unsafe, queue, loads>>

Script ==
    \/ \E how \in {"load", "blank", "refused"}, callback \in BOOLEAN : Open(how, callback)
    \/ Stop \/ SetContent \/ SwitchToParentFrame \/ SwitchToMainFrame \/ Close
    \/ UseDeletedFrame
    \/ \E f \in Frames : SwitchToFrame(f) \/ SwitchToFocusedFrame(f)

WebKit ==
    \/ Navigate \/ Commit
    \/ \E f \in Frames : CreateFrame(f) \/ RemoveFrame(f)
    \/ \E ok \in BOOLEAN : EndLoad(ok)

EventLoop == DeliverSwitch \/ DeliverFinish \/ Delete \/ CallBack

Next == Script \/ WebKit \/ EventLoop

\* The event loop turns and the handlers return; nothing is assumed of servers.
Spec == Init /\ [][Next]_vars /\ WF_vars(EventLoop) /\ WF_vars(CallBack)

-----------------------------------------------------------------------------
(* Properties *)

\* A callback of page.open is called at most once, though the loads of the page
\* that come after its own, and events handled inside the handlers of
\* loadFinished, all emit the signal it was connected to (webpage.js page.open).
CalledOnce == \A o \in DOMAIN opens : Len(opens[o].told) <= 1

\* A callback given to an idle page is told how its own load ended, whatever the
\* page loads afterwards and even when open was called by a handler of the
\* loadFinished of an earlier load; only events handled inside another handler
\* of loadFinished can mix them up (webpage.js page.open, WebPage::openUrl).
ToldItsOwnLoad ==
    \A o \in DOMAIN opens :
        opens[o].idle /\ opens[o].told # <<>> /\ opens[o].outcome \in Statuses
            => opens[o].told[1].nested \/ opens[o].told[1].status = opens[o].outcome

\* A deleted frame stays the current one only until the queued switchToMainFrame
\* runs, unless the script chose it after that or the page removed it itself
\* (the WebPage constructor's connections, WebPage::changeCurrentFrame).
SwitchedInTime ==
    Usable /\ current # Main /\ frames[current] = "deleted"
        => unsafe \/ Switching

\* Once the load of a page.open has ended, its callback is called, unless
\* another call of open takes its slot or the page is deleted first.
EndIsTold ==
    \A o \in 1..MaxOpens :
        (slot = o /\ opens[o].outcome \in Statuses) ~> (slot # o \/ ~Usable)
=============================================================================
