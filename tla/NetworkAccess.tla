---------------------------- MODULE NetworkAccess ----------------------------
(***************************************************************************)
(* The NetworkAccessManager of a page: it numbers the requests of WebKit,  *)
(* tells the script about them (requested, start, end, error, timeout) and *)
(* answers authentication.  It finds the number of a reply in m_ids, by    *)
(* the address of the reply, and an address is used again once its reply   *)
(* has been deleted.                                                       *)
(*                                                                         *)
(* A long script runs the event loop (shouldInterruptJavaScript), so       *)
(* anything can happen inside a handler.  Where code follows the handler,  *)
(* the call that waits for it is on the stack "calls"; the other handlers  *)
(* are the last thing their callers do.                                    *)
(***************************************************************************)
EXTENDS Naturals, Sequences, FiniteSets

CONSTANTS
    Replies,      \* addresses of QNetworkReply objects
    MaxRequests,  \* bound: calls of createRequest
    MaxNesting,   \* bound: handlers inside one another
    MaxAttempts   \* m_maxAuthAttempts, 3 by default

ASSUME NetworkAccessAssumption ==
    /\ IsFiniteSet(Replies)
    /\ MaxRequests \in Nat /\ MaxNesting \in Nat /\ MaxAttempts \in Nat

Requests == 1..MaxRequests

VARIABLES
    idCounter,  \* m_idCounter
    ids,        \* m_ids; 0 is what value() returns for an absent key
    started,    \* m_started
    attempts,   \* m_authAttempts
    calls,      \* stack: createRequest, handleTimeout, provideAuthentication
    life,       \* the reply at each address
    owner,      \* the request it was created for, as announced
    timer,      \* addresses whose TimeoutTimer is active
    told,       \* history: per request, what was told about it after announcing it
    nested,     \* history: requests whose handler started another one
    leaked,     \* history: addresses whose last reply went without handleFinished
    crashed     \* a deleted reply has been used, and the process has died of it

tables == <<ids, started, attempts>>
vars == <<idCounter, tables, calls, life, owner, timer, told, nested, leaked,
          crashed>>

Call == [in : {"createRequest", "handleTimeout", "provideAuthentication"},
         request : Requests]

\* A reply works; it works for nobody but saveUnsupportedContent; it works
\* although WebKit has given it up; it has finished.
Lives == {"none", "running", "kept", "dropped", "finished"}

TypeOK ==
    /\ idCounter \in 0..MaxRequests
    /\ ids \in [Replies -> 0..MaxRequests]
    /\ started \subseteq Replies
    /\ attempts \in 0..MaxAttempts
    /\ calls \in Seq(Call) /\ Len(calls) <= MaxNesting
    /\ life \in [Replies -> Lives]
    /\ owner \in [Replies -> 0..MaxRequests]
    /\ timer \subseteq Replies
    /\ told \in [Requests -> Seq([stage : {"start", "end", "error", "timeout"},
                                  id : 0..MaxRequests])]
    /\ nested \subseteq Requests
    /\ leaked \subseteq Replies
    /\ crashed \in BOOLEAN

Init ==
    /\ idCounter = 0
    /\ ids = [r \in Replies |-> 0]
    /\ started = {}
    /\ attempts = 0
    /\ calls = <<>>
    /\ life = [r \in Replies |-> "none"]
    /\ owner = [r \in Replies |-> 0]
    /\ timer = {}
    /\ told = [q \in Requests |-> <<>>]
    /\ nested = {}
    /\ leaked = {}
    /\ crashed = FALSE

-----------------------------------------------------------------------------
(* Telling the script *)

Note(stage, id) == <<[stage |-> stage, id |-> id]>>

Tell(r, notes) == told' = [told EXCEPT ![owner[r]] = @ \o notes]

StaysStarted(r) == started   \* mutant
\* m_started once a reply has ended
StillStarted(r) == started \ {r}

Unchecked(r) == r \in Replies   \* mutant
\* m_ids.contains(reply)
Known(r) == ids[r] # 0

\* handleFinished: of a reply that m_ids knows, the end is told.
HandleFinished(r, before) ==
    \/ /\ Known(r)
       /\ Tell(r, before \o Note("end", ids[r]))
       /\ ids' = [ids EXCEPT ![r] = 0]
       /\ started' = StillStarted(r)
    \/ /\ ~Known(r)
       /\ Tell(r, before)
       /\ UNCHANGED <<ids, started>>

\* reply->abort() or close(), or the network, ends a reply: error(), which
\* handleNetworkError reports, and finished().
Ends(r, error) ==
    /\ life' = [life EXCEPT ![r] = "finished"]
    /\ HandleFinished(r, IF error THEN Note("error", ids[r]) ELSE <<>>)

Working(r) == life[r] \in {"running", "kept", "dropped"}

Push(function, q) == calls' = Append(calls, [in |-> function, request |-> q])

Top(function) == calls # <<>> /\ calls[Len(calls)].in = function
TopRequest == calls[Len(calls)].request
Pop == calls' = SubSeq(calls, 1, Len(calls) - 1)

-----------------------------------------------------------------------------
(* Requests *)

Asking == {k \in 1..Len(calls) : calls[k].in = "createRequest"}

\* createRequest up to its handler.  (A bound: an address remains for each.)
Request ==
    /\ idCounter < MaxRequests
    /\ Len(calls) < MaxNesting
    /\ Cardinality(Asking) < Cardinality({r \in Replies : life[r] = "none"})
    /\ idCounter' = idCounter + 1
    /\ Push("createRequest", idCounter + 1)
    /\ nested' = nested \cup {calls[k].request : k \in Asking}
    /\ UNCHANGED <<tables, life, owner, timer, told, leaked>>

EarlyId == idCounter - 1   \* mutant
\* the id a new reply is listed under
ReplyId == idCounter

\* ... and after it: the reply, its timer and its id.  A synchronous reply has
\* finished before anything is connected to it.
Created(r) ==
    /\ Top("createRequest")
    /\ life[r] = "none"
    /\ \/ life' = [life EXCEPT ![r] = "running"] /\ leaked' = leaked \ {r}
       \/ life' = [life EXCEPT ![r] = "finished"] /\ leaked' = leaked \cup {r}
    /\ owner' = [owner EXCEPT ![r] = TopRequest]
    /\ timer' \in {timer, timer \cup {r}}
    /\ ids' = [ids EXCEPT ![r] = ReplyId]
    /\ Pop
    /\ UNCHANGED <<idCounter, started, attempts, told, nested>>

\* The network waits for the answer of provideAuthentication.
Blocked(r) == \E k \in 1..Len(calls) :
    calls[k] = [in |-> "provideAuthentication", request |-> owner[r]]

\* handleStarted, for the first readyRead.  If the reply redirects, WebKit drops
\* it at once; content that WebKit cannot show is kept by the page.
ReadyRead(r) ==
    /\ Working(r) /\ ~Blocked(r)
    /\ r \notin started
    /\ started' = started \cup {r}
    /\ Tell(r, Note("start", ids[r]))
    /\ life' \in {life} \cup {[life EXCEPT ![r] = new] : new \in
                    IF life[r] = "running" THEN {"dropped", "kept"} ELSE {}}
    /\ UNCHANGED <<idCounter, ids, attempts, calls, owner, timer, nested, leaked>>

\* The end of a reply, well or not, or WebKit cancels it (abort).
Finish(r) ==
    /\ Working(r)
    /\ \E error \in BOOLEAN : Ends(r, error)
    /\ UNCHANGED <<idCounter, attempts, calls, owner, timer, nested, leaked>>

\* deleteLater.  The timer is a child of the reply.
Delete(r) ==
    /\ life[r] \in {"finished", "dropped"}
    /\ life' = [life EXCEPT ![r] = "none"]
    /\ owner' = [owner EXCEPT ![r] = 0]
    /\ timer' = timer \ {r}
    /\ leaked' = IF life[r] = "dropped" THEN leaked \cup {r} ELSE leaked
    /\ UNCHANGED <<idCounter, tables, calls, told, nested>>

-----------------------------------------------------------------------------
(* Time-outs and authentication *)

UntilStarted(r) == r \in timer \ started   \* mutant
\* The single shot of the timer is not stopped by anything but its deletion.
Expires(r) == r \in timer

\* handleTimeout up to its handler
TimeoutFires(r) ==
    /\ Expires(r)
    /\ Len(calls) < MaxNesting
    /\ timer' = timer \ {r}
    /\ Tell(r, Note("timeout", owner[r]))
    /\ Push("handleTimeout", owner[r])
    /\ UNCHANGED <<idCounter, tables, life, owner, nested, leaked>>

\* provideAuthentication with attempts left
ProvideAuthentication(r) ==
    /\ life[r] \in {"running", "kept"}
    /\ ids[r] # 0
    /\ attempts < MaxAttempts
    /\ attempts' = attempts + 1
    /\ UNCHANGED <<idCounter, ids, started, calls, life, owner, timer, told,
                   nested, leaked>>

CountsOn == attempts + 1   \* mutant
\* m_authAttempts once an answer has been refused
AfterRefusal == 0

\* ... and without: handleFinished(401), up to its handler
RefuseAuthentication(r) ==
    /\ life[r] \in {"running", "kept"}
    /\ ids[r] # 0
    /\ Len(calls) < MaxNesting
    /\ attempts >= MaxAttempts
    /\ attempts' = AfterRefusal
    /\ HandleFinished(r, <<>>)
    /\ Push("provideAuthentication", owner[r])
    /\ UNCHANGED <<idCounter, life, owner, timer, nested, leaked>>

\* What handleTimeout and provideAuthentication do after their handlers:
\* reply->abort(), reply->close().  The handler may have deleted the reply.
AbortReply ==
    /\ Top("handleTimeout") \/ Top("provideAuthentication")
    /\ Pop
    /\ \/ \E r \in Replies :
              /\ owner[r] = TopRequest /\ Working(r)
              /\ Ends(r, TRUE)
              /\ UNCHANGED crashed
       \/ /\ \E r \in Replies : owner[r] = TopRequest /\ life[r] = "finished"
          /\ UNCHANGED <<life, told, ids, started, crashed>>
       \/ /\ \A r \in Replies : owner[r] # TopRequest
          /\ crashed' \in BOOLEAN
          /\ UNCHANGED <<life, told, ids, started>>
    /\ UNCHANGED <<idCounter, attempts, owner, timer, nested, leaked>>

-----------------------------------------------------------------------------
Network(r) == \/ Created(r) \/ ReadyRead(r) \/ Finish(r) \/ Delete(r)
              \/ TimeoutFires(r) \/ ProvideAuthentication(r)
              \/ RefuseAuthentication(r)

Next ==
    /\ ~crashed
    /\ \/ AbortReply
       \/ /\ Request \/ \E r \in Replies : Network(r)
          /\ UNCHANGED crashed

Spec == Init /\ [][Next]_vars

\* Handlers return and timers fire.  The network owes nothing.
Return == AbortReply \/ \E r \in Replies : Created(r) /\ UNCHANGED crashed
Fairness ==
    /\ WF_vars(~crashed /\ Return)
    /\ \A r \in Replies : WF_vars(~crashed /\ TimeoutFires(r) /\ UNCHANGED crashed)

FairSpec == Spec /\ Fairness

-----------------------------------------------------------------------------
(* Properties *)

Says(q, k, stages) == told[q][k].stage \in stages

\* After the end of a request, told once, the script hears at most a late
\* time-out, and the error that closing a refused reply makes, with the id 0:
\* no second end and no start, also when addresses are used again.
EndsOnce ==
    \A q \in Requests : \A k, l \in 1..Len(told[q]) :
        k < l /\ Says(q, k, {"end"}) =>
            Says(q, l, {"timeout"}) \/ told[q][l] = [stage |-> "error", id |-> 0]

\* What is told about a request carries the id under which it was announced,
\* unless its own handler started another request.
Attributed ==
    \A q \in Requests \ nested : \A k \in 1..Len(told[q]) :
        \/ told[q][k].id = q
        \/ \E j \in 1..k - 1 : Says(q, j, {"end"}) /\ told[q][k].id = 0

\* An address is free of the ids and start marks of its former replies, so that
\* the next reply has its start told, unless the last one was dropped by a
\* redirect or was synchronous.
NoStaleEntries ==
    \A r \in Replies :
        life[r] = "none" /\ r \notin leaked => ids[r] = 0 /\ r \notin started

\* A request with a time-out comes to its end, whatever the network does: also a
\* download the page keeps, and one whose handler runs inside another.
TimedRequestsEnd ==
    \A r \in Replies : \A q \in Requests :
        (owner[r] = q /\ life[r] \in {"running", "kept"} /\ r \in timer) ~>
            \/ \E k \in 1..Len(told[q]) : Says(q, k, {"end"})
            \/ r \in leaked
            \/ crashed
=============================================================================
