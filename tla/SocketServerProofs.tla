-------------------------- MODULE SocketServerProofs ------------------------
(***************************************************************************)
(* Safety of the socket server for every number of sessions, requests and  *)
(* nested scripts.  The argument: the server thread posts create_1,        *)
(* delete_1, create_2, delete_2, ... in this order, with the evaluations   *)
(* of session s between create_s and delete_s (QueueSorted), and whatever  *)
(* it has posted and main has not handled is still queued (PendingCreates, *)
(* PendingDeletes).  So the oldest event is always the next in that order, *)
(* and a script that a session posted to the instance of a predecessor     *)
(* lies behind the deletion of that instance.                              *)
(***************************************************************************)
EXTENDS SocketServer, SequenceTheorems, TLAPS

\* Sessions whose deletion has been posted.
Ended == IF pc \in {"wait", "free"} THEN session ELSE session - 1

Counters ==
    /\ destroyed <= created
    /\ created <= destroyed + 1
    /\ created <= session
    /\ destroyed <= Ended
    /\ pc # "wait" => session >= 1
    /\ live = {i \in Sessions : destroyed < i /\ i <= created}
    /\ pages = live \ exited
    /\ \A i \in exited : i <= created

MapInv ==
    /\ mapped <=> destroyed < created
    /\ mapped /\ ~assigning => mapVal = created
    /\ assigning => mapped
    /\ ~mapped \/ assigning => mapVal = 0
    /\ singleton \/ created = 0

QueueSorted ==
    \A j, k \in 1..Len(queue) : j < k =>
        /\ queue[j].by <= queue[k].by
        /\ queue[j].by = queue[k].by
               => queue[j].op # "delete" /\ queue[k].op # "create"

QueueBounds ==
    \A k \in 1..Len(queue) :
        /\ queue[k].by <= session
        /\ queue[k].op = "create" => queue[k].by > created
        /\ queue[k].op = "delete" => queue[k].by > destroyed
                                     /\ queue[k].by <= Ended
        /\ queue[k].op = "eval" => /\ queue[k].inst \in Sessions
                                   /\ queue[k].req # 0
                                   /\ queue[k].inst <= created
                                   /\ queue[k].inst <= queue[k].by

Queued(q, op, s) == \E k \in 1..Len(q) : q[k].op = op /\ q[k].by = s

PendingCreates ==
    \A s \in Sessions : created < s /\ s <= session => Queued(queue, "create", s)

PendingDeletes ==
    \A s \in Sessions : destroyed < s /\ s <= Ended => Queued(queue, "delete", s)

Attached ==
    /\ phantom <= created
    /\ webpage <= created
    /\ pc = "serve" /\ phantom = session
           => socketOf[session] = session /\ webpage \in {0, session}
    /\ pc = "serve" /\ phantom = session /\ session \notin exited
           => webpage = session

\* Where a script has been, or can get to be, evaluated, a session is attached.
SocketInv ==
    /\ "wildSocket" \notin fault
    /\ webpage \in pages => socketOf[webpage] # 0
    /\ \A k \in 1..Len(queue) :
           queue[k].op = "eval" /\ queue[k].inst \in pages
               => socketOf[queue[k].inst] # 0
    /\ \A i \in Sessions : evaluated[i] # <<>> => i <= created
    /\ \A i \in pages : evaluated[i] # <<>> => socketOf[i] # 0

IInv ==
    /\ TypeOK
    /\ Counters
    /\ MapInv
    /\ QueueSorted
    /\ QueueBounds
    /\ PendingCreates
    /\ PendingDeletes
    /\ Attached
    /\ SocketInv
    /\ Isolation

-----------------------------------------------------------------------------
(* How posting and handling an event change the queue *)

LEMMA PostedEvent ==
    ASSUME NEW q \in Seq(Event), NEW e \in Event
    PROVE  /\ Append(q, e) \in Seq(Event)
           /\ Len(Append(q, e)) = Len(q) + 1
           /\ \A k \in 1..Len(q) : Append(q, e)[k] = q[k]
           /\ Append(q, e)[Len(q) + 1] = e
BY AppendProperties

LEMMA HandledEvent ==
    ASSUME NEW q \in Seq(Event), q # <<>>
    PROVE  /\ Head(q) = q[1]
           /\ Head(q) \in Event
           /\ Len(q) \in Nat /\ Len(q) >= 1
           /\ Tail(q) \in Seq(Event)
           /\ Len(Tail(q)) = Len(q) - 1
           /\ \A k \in 1..Len(Tail(q)) : Tail(q)[k] = q[k + 1]
BY HeadTailProperties

LEMMA InitIInv == Init => IInv
<1> SUFFICES ASSUME Init PROVE IInv
    OBVIOUS
<1> USE SocketServerAssumption DEF Init, SocketServerAssumption
<1>1. TypeOK
  <2>1. queue \in Seq(Event) /\ running \in Seq(Sessions)
    BY EmptySeq
  <2>2. evaluated \in [Sessions -> Seq(Script)]
    BY EmptySeq
  <2>3. requested \in [Sessions -> 0..MaxRequests]
        /\ socketOf \in [Sessions -> 0..MaxSessions]
    OBVIOUS
  <2>4. mapped \in BOOLEAN /\ assigning \in BOOLEAN /\ crashed \in BOOLEAN
        /\ singleton \in BOOLEAN
    OBVIOUS
  <2>5. /\ live \in SUBSET Sessions /\ pages \in SUBSET Sessions
        /\ exited \in SUBSET Sessions /\ fault \in SUBSET FaultKind
    OBVIOUS
  <2>6. /\ backlog \in 0..MaxBacklog /\ session \in 0..MaxSessions
        /\ phantom \in Instances /\ webpage \in Instances
        /\ mapVal \in Instances
        /\ created \in 0..MaxSessions /\ destroyed \in 0..MaxSessions
    BY DEF Instances
  <2>7. pc \in {"wait", "poll", "value", "attach", "serve", "free"}
    OBVIOUS
  <2> QED BY <2>1, <2>2, <2>3, <2>4, <2>5, <2>6, <2>7 DEF TypeOK
<1>2. Counters /\ MapInv /\ Attached
  BY DEF Counters, MapInv, Attached, Ended, Sessions
<1>3. QueueSorted /\ QueueBounds /\ PendingCreates /\ PendingDeletes
  BY DEF QueueSorted, QueueBounds, PendingCreates, PendingDeletes, Ended,
         Sessions
<1>4. SocketInv /\ Isolation
  BY DEF SocketInv, Isolation, Sessions
<1> QED BY <1>1, <1>2, <1>3, <1>4 DEF IInv

(* A conjunct of the invariant holds after a step that leaves its variables *)
(* alone.                                                                   *)

LEMMA Frame ==
    ASSUME IInv
    PROVE  /\ UNCHANGED <<destroyed, created, session, pc, live, pages, exited>>
                  => Counters'
           /\ UNCHANGED <<mapped, mapVal, assigning, created, destroyed, singleton>>
                  => MapInv'
           /\ UNCHANGED queue => QueueSorted'
           /\ UNCHANGED <<queue, session, created, destroyed, pc>>
                  => QueueBounds'
           /\ UNCHANGED <<queue, session, created>> => PendingCreates'
           /\ UNCHANGED <<queue, session, destroyed, pc>> => PendingDeletes'
           /\ UNCHANGED <<phantom, webpage, created, pc, session, socketOf,
                          exited>> => Attached'
           /\ UNCHANGED <<fault, webpage, pages, socketOf, queue, evaluated,
                          created>> => SocketInv'
           /\ UNCHANGED evaluated => Isolation'
<1>1. UNCHANGED <<destroyed, created, session, pc, live, pages, exited>>
          => Counters'
  BY DEF IInv, Counters, Ended
<1>2. UNCHANGED <<mapped, mapVal, assigning, created, destroyed, singleton>> => MapInv'
  BY DEF IInv, MapInv
<1>3. UNCHANGED queue => QueueSorted'
  BY DEF IInv, QueueSorted
<1>4. UNCHANGED <<queue, session, created, destroyed, pc>> => QueueBounds'
  BY DEF IInv, QueueBounds, Ended
<1>5. UNCHANGED <<queue, session, created>> => PendingCreates'
  BY DEF IInv, PendingCreates, Queued
<1>6. UNCHANGED <<queue, session, destroyed, pc>> => PendingDeletes'
  BY DEF IInv, PendingDeletes, Queued, Ended
<1>7. UNCHANGED <<phantom, webpage, created, pc, session, socketOf, exited>>
          => Attached'
  BY DEF IInv, Attached
<1>8. UNCHANGED <<fault, webpage, pages, socketOf, queue, evaluated, created>>
          => SocketInv'
  BY DEF IInv, SocketInv
<1>9. UNCHANGED evaluated => Isolation'
  BY DEF IInv, Isolation
<1> QED BY <1>1, <1>2, <1>3, <1>4, <1>5, <1>6, <1>7, <1>8, <1>9

LEMMA ConnectStep == IInv /\ Connect => IInv'
<1> SUFFICES ASSUME IInv, Connect PROVE IInv'
    OBVIOUS
<1>1. UNCHANGED <<pc, session, phantom, webpage, requested, mapped, mapVal,
                  queue, mainVars, fault, crashed>>
  BY DEF Connect, NoFault
<1>2. TypeOK'
  BY <1>1, SocketServerAssumption
     DEF SocketServerAssumption, IInv, TypeOK, Connect, mainVars
<1> QED BY <1>1, <1>2, Frame DEF IInv, mainVars

LEMMA FindInstanceStep == IInv /\ FindInstance => IInv'
<1> SUFFICES ASSUME IInv, FindInstance PROVE IInv'
    OBVIOUS
<1>1. /\ UNCHANGED <<backlog, session, phantom, webpage, requested, mapped,
                     mapVal, queue, mainVars, fault, crashed>>
      /\ pc = "poll" /\ pc' = "value"
  BY DEF FindInstance, NoFault
<1>2. TypeOK'
  BY <1>1 DEF IInv, TypeOK, mainVars
<1>3. Counters' /\ QueueBounds' /\ PendingDeletes' /\ Attached'
  BY <1>1 DEF IInv, Counters, QueueBounds, PendingDeletes, Attached, Ended,
              Queued, mainVars
<1> QED BY <1>1, <1>2, <1>3, Frame DEF IInv, mainVars

LEMMA FetchInstanceStep == IInv /\ FetchInstance => IInv'
<1> SUFFICES ASSUME IInv, FetchInstance PROVE IInv'
    OBVIOUS
<1>1. /\ UNCHANGED <<backlog, session, webpage, requested, mapped, mapVal,
                     queue, mainVars, fault, crashed>>
      /\ pc = "value" /\ pc' = "attach"
      /\ phantom' = IF mapped THEN mapVal ELSE 0
  BY DEF FetchInstance, NoFault
<1>2. TypeOK'
  BY <1>1, SocketServerAssumption
     DEF SocketServerAssumption, IInv, TypeOK, mainVars, Instances
<1>3. Counters' /\ QueueBounds' /\ PendingDeletes'
  BY <1>1 DEF IInv, Counters, QueueBounds, PendingDeletes, Ended, Queued,
              mainVars
<1>4. mapVal <= created
  BY DEF IInv, TypeOK, MapInv
<1>5. Attached'
  BY <1>1, <1>4 DEF IInv, TypeOK, Attached, mainVars
<1> QED BY <1>1, <1>2, <1>3, <1>5, Frame DEF IInv, mainVars

-----------------------------------------------------------------------------
(* The queue after posting and after handling an event *)

LEMMA AfterPost ==
    ASSUME IInv, NEW e \in Event, queue' = Append(queue, e)
    PROVE  /\ queue' \in Seq(Event)
           /\ Len(queue') = Len(queue) + 1
           /\ \A k \in 1..Len(queue) : queue'[k] = queue[k]
           /\ queue'[Len(queue) + 1] = e
           /\ (\A k \in 1..Len(queue) :
                  /\ queue[k].by <= e.by
                  /\ queue[k].by = e.by
                         => queue[k].op # "delete" /\ e.op # "create")
                  => QueueSorted'
           /\ \A op, t : Queued(queue, op, t) => Queued(queue', op, t)
           /\ Queued(queue', e.op, e.by)
<1>1. /\ queue' \in Seq(Event)
      /\ Len(queue') = Len(queue) + 1
      /\ Len(queue) \in Nat
      /\ \A k \in 1..Len(queue) : queue'[k] = queue[k]
      /\ queue'[Len(queue) + 1] = e
  BY PostedEvent, LenProperties DEF IInv, TypeOK
<1>2. ASSUME \A k \in 1..Len(queue) :
                /\ queue[k].by <= e.by
                /\ queue[k].by = e.by
                       => queue[k].op # "delete" /\ e.op # "create"
      PROVE  QueueSorted'
  <2> SUFFICES ASSUME NEW j \in 1..Len(queue'), NEW k \in 1..Len(queue'), j < k
               PROVE  /\ queue'[j].by <= queue'[k].by
                      /\ queue'[j].by = queue'[k].by
                             => queue'[j].op # "delete" /\ queue'[k].op # "create"
    BY DEF QueueSorted
  <2>1. j \in 1..Len(queue) /\ queue'[j] = queue[j]
    BY <1>1
  <2>2. CASE k \in 1..Len(queue)
    BY <1>1, <2>1, <2>2 DEF IInv, QueueSorted
  <2>3. CASE k = Len(queue) + 1
    BY <1>1, <1>2, <2>1, <2>3
  <2> QED BY <1>1, <2>2, <2>3
<1>3. \A op, t : Queued(queue, op, t) => Queued(queue', op, t)
  BY <1>1 DEF Queued
<1>4. Queued(queue', e.op, e.by)
  BY <1>1 DEF Queued
<1> QED BY <1>1, <1>2, <1>3, <1>4

LEMMA AfterHandle ==
    ASSUME IInv, queue # <<>>, queue' = Tail(queue)
    PROVE  /\ queue' \in Seq(Event)
           /\ Head(queue) \in Event
           /\ Len(queue) \in Nat /\ Len(queue) >= 1 /\ Head(queue) = queue[1]
           /\ Len(queue') = Len(queue) - 1
           /\ \A k \in 1..Len(queue') :
                  /\ k + 1 \in 1..Len(queue)
                  /\ queue'[k] = queue[k + 1]
           /\ QueueSorted'
           /\ \A op, t : Queued(queue, op, t)
                  => \/ Head(queue).op = op /\ Head(queue).by = t
                     \/ /\ Queued(queue', op, t)
                        /\ Head(queue).by <= t
                        /\ Head(queue).by = t
                               => Head(queue).op # "delete" /\ op # "create"
<1>1. /\ Head(queue) = queue[1]
      /\ Head(queue) \in Event
      /\ Len(queue) \in Nat /\ Len(queue) >= 1
      /\ queue' \in Seq(Event)
      /\ Len(queue') = Len(queue) - 1
      /\ \A k \in 1..Len(queue') : queue'[k] = queue[k + 1]
  BY HandledEvent DEF IInv, TypeOK
<1>2. \A k \in 1..Len(queue') :
          /\ k + 1 \in 1..Len(queue)
          /\ queue'[k] = queue[k + 1]
  BY <1>1
<1>3. QueueSorted'
  <2> SUFFICES ASSUME NEW j \in 1..Len(queue'), NEW k \in 1..Len(queue'), j < k
               PROVE  /\ queue'[j].by <= queue'[k].by
                      /\ queue'[j].by = queue'[k].by
                             => queue'[j].op # "delete" /\ queue'[k].op # "create"
    BY DEF QueueSorted
  <2>1. j + 1 \in 1..Len(queue) /\ k + 1 \in 1..Len(queue) /\ j + 1 < k + 1
    BY <1>1, <1>2
  <2> QED BY <1>2, <2>1 DEF IInv, QueueSorted
<1>4. ASSUME NEW op, NEW t, Queued(queue, op, t),
             ~(Head(queue).op = op /\ Head(queue).by = t)
      PROVE  /\ Queued(queue', op, t)
             /\ Head(queue).by <= t
             /\ Head(queue).by = t
                    => Head(queue).op # "delete" /\ op # "create"
  <2>1. PICK k \in 1..Len(queue) : queue[k].op = op /\ queue[k].by = t
    BY <1>4 DEF Queued
  <2>2. k # 1
    BY <1>1, <1>4, <2>1
  <2>3. k - 1 \in 1..Len(queue') /\ queue'[k - 1] = queue[k]
    BY <1>1, <2>2
  <2>4. 1 \in 1..Len(queue) /\ 1 < k
    BY <1>1, <2>2
  <2>5. /\ queue[1].by <= queue[k].by
        /\ queue[1].by = queue[k].by
               => queue[1].op # "delete" /\ queue[k].op # "create"
    BY <2>4 DEF IInv, QueueSorted
  <2> QED BY <1>1, <2>1, <2>3, <2>5 DEF Queued
<1> QED BY <1>1, <1>2, <1>3, <1>4

\* Nothing that is queued comes before the oldest event.
LEMMA QueueHead ==
    ASSUME IInv, queue # <<>>
    PROVE  /\ Head(queue) = queue[1] /\ 1 \in 1..Len(queue)
           /\ Head(queue) \in Event
           /\ \A op, t : Queued(queue, op, t)
                  => \/ Head(queue).op = op /\ Head(queue).by = t
                     \/ /\ Head(queue).by <= t
                        /\ Head(queue).by = t
                               => Head(queue).op # "delete" /\ op # "create"
<1>1. /\ Head(queue) = queue[1] /\ 1 \in 1..Len(queue)
      /\ Head(queue) \in Event
  BY HandledEvent DEF IInv, TypeOK
<1>2. ASSUME NEW op, NEW t, Queued(queue, op, t),
             ~(Head(queue).op = op /\ Head(queue).by = t)
      PROVE  /\ Head(queue).by <= t
             /\ Head(queue).by = t
                    => Head(queue).op # "delete" /\ op # "create"
  <2>1. PICK k \in 1..Len(queue) : queue[k].op = op /\ queue[k].by = t
    BY <1>2 DEF Queued
  <2>2. 1 < k
    BY <1>1, <1>2, <2>1
  <2> QED BY <1>1, <2>1, <2>2 DEF IInv, QueueSorted
<1> QED BY <1>1, <1>2

\* The next creation comes when every instance created before is deleted ...
LEMMA HeadCreate ==
    ASSUME IInv, queue # <<>>, Head(queue).op = "create"
    PROVE  /\ Head(queue).by = created + 1
           /\ created + 1 \in Sessions /\ created + 1 <= session
           /\ destroyed = created
<1> DEFINE c == Head(queue).by
<1>0. /\ created \in Nat /\ session \in Nat /\ destroyed \in Nat
      /\ session <= MaxSessions /\ MaxSessions \in Nat
      /\ created \in 0..MaxSessions
  BY SocketServerAssumption DEF SocketServerAssumption, IInv, TypeOK
<1>1. c > created /\ c <= session /\ c \in Sessions
  <2>1. Head(queue) = queue[1] /\ 1 \in 1..Len(queue) /\ Head(queue) \in Event
    BY QueueHead
  <2> QED BY <2>1 DEF IInv, QueueBounds, Event
<1>2. created + 1 \in Sessions /\ created + 1 <= session
  BY <1>0, <1>1 DEF Sessions
<1>3. Queued(queue, "create", created + 1)
  BY <1>0, <1>2 DEF IInv, PendingCreates
<1>4. c <= created + 1
  BY <1>0, <1>3, QueueHead
<1>5. c = created + 1
  BY <1>0, <1>1, <1>4 DEF Sessions
<1>6. destroyed = created
  <2> SUFFICES ASSUME destroyed # created PROVE FALSE
    OBVIOUS
  <2>1. destroyed < created /\ created \in Sessions /\ created <= session - 1
    BY <1>0, <1>2 DEF IInv, Counters, Sessions
  <2>2. created <= Ended
    BY <1>0, <2>1 DEF Ended
  <2>3. Queued(queue, "delete", created)
    BY <2>1, <2>2 DEF IInv, PendingDeletes
  <2>4. c <= created
    BY <2>3, QueueHead
  <2> QED BY <1>0, <1>5, <2>4
<1> QED BY <1>2, <1>5, <1>6

\* ... and the next deletion when its instance is alive and in the map.
LEMMA HeadDelete ==
    ASSUME IInv, queue # <<>>, Head(queue).op = "delete"
    PROVE  /\ Head(queue).by = destroyed + 1
           /\ destroyed + 1 \in Sessions /\ destroyed + 1 <= Ended
           /\ created = destroyed + 1
<1> DEFINE d == Head(queue).by
<1>0. /\ created \in Nat /\ session \in Nat /\ destroyed \in Nat
      /\ session <= MaxSessions /\ MaxSessions \in Nat
      /\ Ended \in Int /\ Ended <= session
  BY SocketServerAssumption DEF SocketServerAssumption, IInv, TypeOK, Ended
<1>1. d > destroyed /\ d <= Ended /\ d \in Sessions
  <2>1. Head(queue) = queue[1] /\ 1 \in 1..Len(queue) /\ Head(queue) \in Event
    BY QueueHead
  <2> QED BY <2>1 DEF IInv, QueueBounds, Event
<1>2. destroyed + 1 \in Sessions /\ destroyed + 1 <= Ended
  BY <1>0, <1>1 DEF Sessions
<1>3. Queued(queue, "delete", destroyed + 1)
  BY <1>0, <1>2 DEF IInv, PendingDeletes
<1>4. d <= destroyed + 1
  BY <1>0, <1>3, QueueHead
<1>5. d = destroyed + 1
  BY <1>0, <1>1, <1>4 DEF Sessions
<1>6. created = destroyed + 1
  <2> SUFFICES ASSUME created # destroyed + 1 PROVE FALSE
    OBVIOUS
  <2>1. created < d /\ d <= session
    BY <1>0, <1>1, <1>5 DEF IInv, Counters
  <2>2. Queued(queue, "create", d)
    BY <1>1, <2>1 DEF IInv, PendingCreates
  <2> QED BY <2>2, QueueHead
<1> QED BY <1>2, <1>5, <1>6

-----------------------------------------------------------------------------
(* Every action of the server thread preserves the invariant *)

LEMMA AcceptStep == IInv /\ Accept => IInv'
<1> SUFFICES ASSUME IInv, Accept PROVE IInv'
    OBVIOUS
<1> DEFINE e == [op |-> "create", inst |-> 0, by |-> session + 1, req |-> 0]
<1>1. /\ UNCHANGED <<phantom, webpage, requested, mapped, mapVal, mainVars,
                     fault, crashed>>
      /\ pc = "wait" /\ pc' = "poll"
      /\ backlog' = 0
      /\ session < MaxSessions /\ session' = session + 1
      /\ queue' = Append(queue, e)
  BY DEF Accept, NoFault
<1>2. /\ session \in Nat /\ session + 1 \in Sessions
      /\ session + 1 \in 0..MaxSessions /\ 0 \in 0..MaxBacklog
      /\ created \in Nat /\ created <= session
      /\ destroyed \in Nat
      /\ MaxBacklog \in Nat /\ MaxSessions \in Nat /\ MaxRequests \in Nat
  BY <1>1, SocketServerAssumption
     DEF SocketServerAssumption, IInv, TypeOK, Counters, Sessions
<1>3. e \in Event
  BY <1>2 DEF Event, Instances
<1>4. /\ queue' \in Seq(Event)
      /\ Len(queue') = Len(queue) + 1
      /\ \A k \in 1..Len(queue) : queue'[k] = queue[k]
      /\ queue'[Len(queue) + 1] = e
      /\ \A op, t : Queued(queue, op, t) => Queued(queue', op, t)
      /\ Queued(queue', "create", session + 1)
      /\ Len(queue) \in Nat
  <2>1. /\ queue' \in Seq(Event)
        /\ Len(queue') = Len(queue) + 1
        /\ \A k \in 1..Len(queue) : queue'[k] = queue[k]
        /\ queue'[Len(queue) + 1] = e
        /\ \A op, t : Queued(queue, op, t) => Queued(queue', op, t)
        /\ Queued(queue', e.op, e.by)
    BY <1>1, <1>3, AfterPost
  <2>2. Len(queue) \in Nat
    BY LenProperties DEF IInv, TypeOK
  <2> QED BY <2>1, <2>2
<1>5. TypeOK'
  BY <1>1, <1>2, <1>4 DEF IInv, TypeOK, mainVars
<1>6. Ended = session /\ Ended' = session
  BY <1>1, <1>2 DEF Ended
<1>7. Counters'
  BY <1>1, <1>2, <1>6 DEF IInv, Counters, mainVars
<1>8. QueueSorted'
  <2>1. \A k \in 1..Len(queue) : queue[k].by <= session /\ queue[k].by \in Nat
    <3> SUFFICES ASSUME NEW k \in 1..Len(queue)
                 PROVE  queue[k].by <= session /\ queue[k].by \in Nat
      OBVIOUS
    <3>1. queue[k] \in Event
      BY ElementOfSeq DEF IInv, TypeOK
    <3> QED BY <3>1 DEF IInv, QueueBounds, Event, Sessions
  <2>2. \A k \in 1..Len(queue) : queue[k].by < e.by
    BY <1>2, <2>1
  <2>3. \A k \in 1..Len(queue) : queue[k].by <= e.by /\ queue[k].by # e.by
    BY <1>2, <2>1, <2>2
  <2> QED BY <1>1, <1>3, <2>3, AfterPost
<1>9. QueueBounds'
  <2> SUFFICES ASSUME NEW k \in 1..Len(queue')
               PROVE  /\ queue'[k].by <= session'
                      /\ queue'[k].op = "create" => queue'[k].by > created'
                      /\ queue'[k].op = "delete" => queue'[k].by > destroyed'
                                                   /\ queue'[k].by <= Ended'
                      /\ queue'[k].op = "eval" =>
                             /\ queue'[k].inst \in Sessions
                             /\ queue'[k].req # 0
                             /\ queue'[k].inst <= created'
                             /\ queue'[k].inst <= queue'[k].by
    BY DEF QueueBounds
  <2>1. CASE k \in 1..Len(queue)
    <3>1. queue[k] \in Event /\ queue'[k] = queue[k]
      BY <1>4, <2>1, ElementOfSeq DEF IInv, TypeOK
    <3>2. queue[k].by <= session + 1
      BY <1>2, <2>1, <3>1 DEF IInv, QueueBounds, Event, Sessions
    <3> QED BY <1>1, <1>6, <2>1, <3>1, <3>2 DEF IInv, QueueBounds, mainVars
  <2>2. CASE k = Len(queue) + 1
    BY <1>1, <1>2, <1>4, <2>2 DEF mainVars
  <2> QED BY <1>4, <2>1, <2>2
<1>10. PendingCreates'
  <2> SUFFICES ASSUME NEW t \in Sessions, created < t, t <= session + 1
               PROVE  Queued(queue', "create", t)
    BY <1>1 DEF PendingCreates, mainVars
  <2>1. CASE t <= session
    BY <1>4, <2>1 DEF IInv, PendingCreates
  <2>2. CASE t = session + 1
    BY <1>4, <2>2
  <2> QED BY <1>2, <2>1, <2>2 DEF Sessions
<1>11. PendingDeletes'
  BY <1>1, <1>4, <1>6 DEF IInv, PendingDeletes, mainVars
<1>12. Attached'
  BY <1>1 DEF IInv, Attached, mainVars
<1>13. SocketInv'
  <2>1. \A k \in 1..Len(queue') :
           queue'[k].op = "eval" => k \in 1..Len(queue) /\ queue'[k] = queue[k]
    BY <1>4
  <2> QED BY <1>1, <2>1 DEF IInv, SocketInv, mainVars
<1> QED BY <1>1, <1>5, <1>7, <1>8, <1>9, <1>10, <1>11, <1>12, <1>13, Frame
        DEF IInv, mainVars

LEMMA MapRaceStep == IInv /\ MapRace => IInv'
<1> SUFFICES ASSUME IInv, MapRace PROVE IInv'
    OBVIOUS
<1>1. /\ UNCHANGED <<serverVars, mapped, mapVal, queue, mainVars>>
      /\ fault' = fault \cup {"mapRace"} /\ crashed' = TRUE
  BY DEF MapRace
<1>2. TypeOK'
  <2>1. crashed' \in BOOLEAN
    BY <1>1
  <2> QED BY <1>1, <2>1 DEF IInv, TypeOK, serverVars, mainVars, FaultKind
<1>3. SocketInv'
  BY <1>1 DEF IInv, SocketInv, serverVars, mainVars
<1> QED BY <1>1, <1>2, <1>3, Frame DEF IInv, serverVars, mainVars

LEMMA AttachInstanceStep == IInv /\ AttachInstance => IInv'
<1> SUFFICES ASSUME IInv, AttachInstance PROVE IInv'
    OBVIOUS
<1>1. /\ UNCHANGED <<backlog, session, phantom, requested, mapped, mapVal,
                     queue, assigning, created, destroyed, live, singleton,
                     pages, running, exited, evaluated>>
      /\ pc = "attach" /\ pc' = "serve"
  BY DEF AttachInstance
<1>2. /\ \/ phantom = 0 /\ socketOf' = socketOf /\ webpage' = webpage
            /\ fault' = fault \cup {"nullInstance"}
         \/ /\ phantom \in live
            /\ socketOf' = [socketOf EXCEPT ![phantom] = session]
            /\ webpage' = IF phantom \in pages THEN phantom ELSE 0
            /\ fault' = fault
         \/ /\ phantom # 0 /\ phantom \notin live
            /\ webpage' \in {0, phantom} /\ socketOf' = socketOf
            /\ fault' = fault \cup {"freedInstance"}
      /\ crashed' \in BOOLEAN
  <2>1. crashed' \in BOOLEAN
    BY DEF IInv, TypeOK, AttachInstance, Undefined, NullAccess, NoFault
  <2> QED BY <2>1 DEF AttachInstance, Undefined, NullAccess, NoFault
<1>3. /\ session \in Nat /\ session >= 1 /\ session \in 0..MaxSessions
      /\ session \in Sessions
      /\ phantom \in Nat /\ phantom <= created /\ created <= session
      /\ created \in Nat /\ destroyed \in Nat /\ destroyed <= session - 1
      /\ live \in SUBSET Sessions /\ pages \in SUBSET Sessions
      /\ pages = live \ exited
      /\ live = {i \in Sessions : destroyed < i /\ i <= created}
      /\ socketOf \in [Sessions -> 0..MaxSessions]
  BY <1>1, SocketServerAssumption
     DEF SocketServerAssumption, IInv, TypeOK, Counters, Attached, Ended,
         Instances, Sessions
<1>4. socketOf' \in [Sessions -> 0..MaxSessions]
  BY <1>2, <1>3
<1>5. fault' \in SUBSET FaultKind
  BY <1>2 DEF IInv, TypeOK, FaultKind
<1>6. webpage' \in Instances
  BY <1>2, SocketServerAssumption
     DEF SocketServerAssumption, IInv, TypeOK, Instances
<1>7. TypeOK'
  BY <1>1, <1>2, <1>4, <1>5, <1>6 DEF IInv, TypeOK
<1>8. Counters' /\ QueueBounds' /\ PendingDeletes'
  BY <1>1 DEF IInv, Counters, QueueBounds, PendingDeletes, Ended, Queued
<1>9. Attached'
  <2>1. phantom' <= created' /\ webpage' <= created'
    BY <1>1, <1>2, <1>3 DEF IInv, Attached
  <2>2. ASSUME phantom = session
        PROVE  /\ socketOf'[session] = session
               /\ webpage' = IF session \in exited THEN 0 ELSE session
    <3>1. phantom # 0 /\ phantom \in live
      BY <1>3, <2>2
    <3> QED BY <1>2, <1>3, <2>2, <3>1
  <2> QED BY <1>1, <2>1, <2>2 DEF Attached
<1>10. SocketInv'
  <2>1. \A i \in Sessions : socketOf[i] # 0 => socketOf'[i] # 0
    BY <1>2, <1>3
  <2>2. webpage' \in pages => socketOf'[webpage'] # 0
    BY <1>2, <1>3, <2>1 DEF IInv, SocketInv
  <2>3. "wildSocket" \notin fault'
    BY <1>2 DEF IInv, SocketInv
  <2> QED BY <1>1, <1>3, <2>1, <2>2, <2>3 DEF IInv, SocketInv
<1> QED BY <1>1, <1>7, <1>8, <1>9, <1>10, Frame DEF IInv

LEMMA EvaluateRequestStep == IInv /\ EvaluateRequest => IInv'
<1> SUFFICES ASSUME IInv, EvaluateRequest PROVE IInv'
    OBVIOUS
<1>1. /\ UNCHANGED <<pc, backlog, session, phantom, webpage, mapped, mapVal,
                     mainVars>>
      /\ pc = "serve"
      /\ requested[session] < MaxRequests
      /\ requested' = [requested EXCEPT ![session] = @ + 1]
  BY DEF EvaluateRequest
<1>2. /\ session \in Sessions /\ session \in Nat /\ created \in Nat
      /\ MaxRequests \in Nat /\ MaxSessions \in Nat
      /\ webpage \in Instances /\ webpage <= created /\ created <= session
      /\ pages \in SUBSET Sessions
      /\ requested \in [Sessions -> 0..MaxRequests]
  BY <1>1, SocketServerAssumption
     DEF SocketServerAssumption, IInv, TypeOK, Counters, Attached, Sessions
<1>3. requested' \in [Sessions -> 0..MaxRequests]
      /\ requested[session] + 1 \in 1..MaxRequests
  BY <1>1, <1>2
<1>4. CASE queue' = queue
  <2>1. fault' \in SUBSET FaultKind /\ "wildSocket" \notin fault'
        /\ crashed' \in BOOLEAN
    BY DEF IInv, TypeOK, SocketInv, EvaluateRequest, Undefined, NullAccess,
           NoFault, FaultKind
  <2>2. TypeOK'
    BY <1>1, <1>3, <1>4, <2>1 DEF IInv, TypeOK, mainVars
  <2>3. SocketInv'
    BY <1>1, <1>4, <2>1 DEF IInv, SocketInv, mainVars
  <2> QED BY <1>1, <1>4, <2>2, <2>3, Frame DEF IInv, mainVars
<1>5. CASE queue' # queue
  <2> DEFINE e == [op |-> "eval", inst |-> webpage, by |-> session,
                   req |-> requested[session] + 1]
  <2>1. /\ webpage \in pages /\ queue' = Append(queue, e)
        /\ fault' = fault /\ crashed' = crashed
    BY <1>5 DEF EvaluateRequest, Post, NoFault
  <2>2. e \in Event
    BY <1>2, <1>3 DEF Event
  <2>3. /\ queue' \in Seq(Event)
        /\ Len(queue') = Len(queue) + 1
        /\ \A k \in 1..Len(queue) : queue'[k] = queue[k]
        /\ queue'[Len(queue) + 1] = e
        /\ \A op, t : Queued(queue, op, t) => Queued(queue', op, t)
    BY <2>1, <2>2, AfterPost
  <2>4. Len(queue) \in Nat
    BY LenProperties DEF IInv, TypeOK
  <2>5. TypeOK'
    BY <1>1, <1>3, <2>1, <2>3 DEF IInv, TypeOK, mainVars
  <2>6. QueueSorted'
    <3>1. \A k \in 1..Len(queue) :
              /\ queue[k].by <= session
              /\ queue[k].op = "delete"
                     => queue[k].by # session
      BY <1>1, <1>2 DEF IInv, QueueBounds, Ended
    <3>2. e.by = session /\ e.op = "eval"
      OBVIOUS
    <3>3. \A k \in 1..Len(queue) :
             /\ queue[k].by <= e.by
             /\ queue[k].by = e.by => queue[k].op # "delete" /\ e.op # "create"
      BY <3>1, <3>2
    <3> HIDE DEF e
    <3> QED BY <2>1, <2>2, <3>3, AfterPost
  <2>7. /\ e.by <= session /\ e.op # "create" /\ e.op # "delete"
        /\ e.inst \in Sessions /\ e.req # 0
        /\ e.inst <= created /\ e.inst <= e.by
    BY <1>2, <1>3, <2>1 DEF Sessions
  <2>8. \A k \in 1..Len(queue') :
            \/ k \in 1..Len(queue) /\ queue'[k] = queue[k]
            \/ queue'[k] = e
    BY <2>3, <2>4
  <2>9. QueueBounds'
    BY <1>1, <2>7, <2>8 DEF IInv, QueueBounds, mainVars, Ended
  <2>10. PendingCreates' /\ PendingDeletes'
    BY <1>1, <2>3 DEF IInv, PendingCreates, PendingDeletes, mainVars, Ended
  <2>11. SocketInv'
    BY <1>1, <2>1, <2>8 DEF IInv, SocketInv, mainVars
  <2> QED BY <1>1, <2>5, <2>6, <2>9, <2>10, <2>11, Frame DEF IInv, mainVars
<1> QED BY <1>4, <1>5

LEMMA ClientDisconnectedStep == IInv /\ ClientDisconnected => IInv'
<1> SUFFICES ASSUME IInv, ClientDisconnected PROVE IInv'
    OBVIOUS
<1> DEFINE e == [op |-> "delete", inst |-> 0, by |-> session, req |-> 0]
<1>1. /\ UNCHANGED <<backlog, session, phantom, webpage, requested, mapped,
                     mapVal, mainVars, fault, crashed>>
      /\ pc = "serve" /\ pc' = "free"
      /\ queue' = Append(queue, e)
  BY DEF ClientDisconnected, Post, NoFault
<1>2. /\ session \in Sessions /\ session \in Nat
      /\ MaxRequests \in Nat /\ MaxSessions \in Nat
      /\ destroyed \in Nat /\ destroyed <= session - 1
  BY <1>1, SocketServerAssumption
     DEF SocketServerAssumption, IInv, TypeOK, Counters, Sessions, Ended
<1>3. e \in Event
  BY <1>2 DEF Event, Instances
<1>4. /\ queue' \in Seq(Event)
      /\ Len(queue') = Len(queue) + 1
      /\ \A k \in 1..Len(queue) : queue'[k] = queue[k]
      /\ queue'[Len(queue) + 1] = e
      /\ \A op, t : Queued(queue, op, t) => Queued(queue', op, t)
      /\ Queued(queue', e.op, e.by)
  BY <1>1, <1>3, AfterPost
<1>5. Len(queue) \in Nat
  BY LenProperties DEF IInv, TypeOK
<1>6. TypeOK'
  BY <1>1, <1>4 DEF IInv, TypeOK, mainVars
<1>7. Ended = session - 1 /\ Ended' = session
  BY <1>1 DEF Ended
<1>8. Counters'
  BY <1>1, <1>2, <1>7 DEF IInv, Counters, mainVars
<1>9. QueueSorted'
  <2>1. \A k \in 1..Len(queue) :
            /\ queue[k].by <= session
            /\ queue[k].op = "delete"
                   => queue[k].by # session
    BY <1>2, <1>7 DEF IInv, QueueBounds
  <2>2. e.by = session /\ e.op = "delete"
    OBVIOUS
  <2>3. \A k \in 1..Len(queue) :
           /\ queue[k].by <= e.by
           /\ queue[k].by = e.by => queue[k].op # "delete" /\ e.op # "create"
    BY <2>1, <2>2
  <2> HIDE DEF e
  <2> QED BY <1>1, <1>3, <2>3, AfterPost
<1>10. \A k \in 1..Len(queue') :
           \/ k \in 1..Len(queue) /\ queue'[k] = queue[k]
           \/ queue'[k] = e
  BY <1>4, <1>5
<1>11. QueueBounds'
  <2>1. /\ e.by <= session /\ e.by > destroyed /\ e.op = "delete"
        /\ e.by <= Ended'
    BY <1>2, <1>7
  <2>2. \A k \in 1..Len(queue) : queue[k].op = "delete" => queue[k].by <= Ended'
    <3> SUFFICES ASSUME NEW k \in 1..Len(queue), queue[k].op = "delete"
                 PROVE  queue[k].by <= Ended'
      OBVIOUS
    <3>1. queue[k] \in Event
      BY ElementOfSeq DEF IInv, TypeOK
    <3> QED BY <1>2, <1>7, <3>1 DEF IInv, QueueBounds, Event
  <2> QED BY <1>1, <1>10, <2>1, <2>2 DEF IInv, QueueBounds, mainVars
<1>12. PendingCreates'
  BY <1>1, <1>4 DEF IInv, PendingCreates, mainVars
<1>13. PendingDeletes'
  <2> SUFFICES ASSUME NEW t \in Sessions, destroyed < t, t <= session
               PROVE  Queued(queue', "delete", t)
    BY <1>1, <1>7 DEF PendingDeletes, mainVars
  <2>1. CASE t <= session - 1
    BY <1>4, <1>7, <2>1 DEF IInv, PendingDeletes
  <2>2. CASE t = session
    BY <1>4, <2>2
  <2> QED BY <1>2, <2>1, <2>2 DEF Sessions
<1>14. Attached'
  BY <1>1 DEF IInv, Attached, mainVars
<1>15. SocketInv'
  BY <1>1, <1>10 DEF IInv, SocketInv, mainVars
<1> QED BY <1>1, <1>6, <1>8, <1>9, <1>11, <1>12, <1>13, <1>14, <1>15, Frame
        DEF IInv, mainVars

LEMMA DisconnectStep == IInv /\ Disconnect => IInv'
<1> SUFFICES ASSUME IInv, Disconnect PROVE IInv'
    OBVIOUS
<1>1. /\ UNCHANGED <<backlog, session, requested, mapped, mapVal, queue,
                     mainVars, fault, crashed>>
      /\ pc = "free" /\ pc' = "wait"
      /\ phantom' = 0 /\ webpage' = 0
  BY DEF Disconnect, NoFault
<1>2. /\ created \in Nat /\ MaxSessions \in Nat /\ pages \in SUBSET Sessions
      /\ 0 \notin pages
  BY SocketServerAssumption DEF SocketServerAssumption, IInv, TypeOK, Sessions
<1>3. TypeOK'
  BY <1>1, <1>2 DEF IInv, TypeOK, mainVars, Instances
<1>4. Counters' /\ QueueBounds' /\ PendingDeletes'
  BY <1>1 DEF IInv, Counters, QueueBounds, PendingDeletes, Ended, Queued,
              mainVars
<1>5. Attached' /\ SocketInv'
  BY <1>1, <1>2 DEF IInv, Attached, SocketInv, mainVars
<1> QED BY <1>1, <1>3, <1>4, <1>5, Frame DEF IInv, mainVars

-----------------------------------------------------------------------------
(* Every action of the main thread preserves the invariant *)

LEMMA CreateInstanceStep == IInv /\ CreateInstance => IInv'
<1> SUFFICES ASSUME IInv, CreateInstance PROVE IInv'
    OBVIOUS
<1>1. /\ UNCHANGED <<serverVars, destroyed, socketOf, running, exited,
                     evaluated, fault, crashed>>
      /\ queue # <<>> /\ queue' = Tail(queue)
      /\ Head(queue).op = "create"
      /\ ~assigning /\ assigning' = TRUE
      /\ created' = created + 1
      /\ live' = live \cup {created + 1} /\ singleton' = TRUE
      /\ pages' = pages \cup {created + 1}
      /\ mapped' = TRUE
      /\ mapVal' = IF mapped THEN mapVal ELSE 0
  BY DEF CreateInstance, MainReady, NoFault
<1>2. /\ created + 1 \in Sessions /\ created + 1 <= session
      /\ destroyed = created /\ Head(queue).by = created + 1
  BY <1>1, HeadCreate
<1>3. /\ created \in Nat /\ session \in Nat /\ MaxSessions \in Nat
      /\ mapVal' = 0 /\ ~mapped
  BY <1>1, <1>2, SocketServerAssumption
     DEF SocketServerAssumption, IInv, TypeOK, MapInv
<1>4. /\ queue' \in Seq(Event)
      /\ \A k \in 1..Len(queue') :
             /\ k + 1 \in 1..Len(queue)
             /\ queue'[k] = queue[k + 1]
             /\ queue[k + 1] \in Event
      /\ QueueSorted'
  BY <1>1, AfterHandle, ElementOfSeq DEF IInv, TypeOK
<1>5. TypeOK'
  <2>1. mapped' \in BOOLEAN /\ assigning' \in BOOLEAN /\ singleton' \in BOOLEAN
    BY <1>1
  <2>2. mapVal' \in Instances /\ created' \in 0..MaxSessions
        /\ live' \in SUBSET Sessions /\ pages' \in SUBSET Sessions
    BY <1>1, <1>2, <1>3 DEF IInv, TypeOK, Instances, Sessions
  <2> QED BY <1>1, <1>4, <2>1, <2>2 DEF IInv, TypeOK, serverVars
<1>6. Counters'
  <2>1. live = {} /\ pages = {} /\ created + 1 \notin exited
    <3>1. {i \in Sessions : destroyed < i /\ i <= created} = {}
      BY <1>2, <1>3 DEF Sessions
    <3>2. live = {} /\ pages = {}
      BY <3>1 DEF IInv, Counters
    <3>3. \A i \in exited : i <= created
      BY DEF IInv, Counters
    <3> QED BY <1>3, <3>2, <3>3
  <2>2. live' = {i \in Sessions : destroyed < i /\ i <= created + 1}
    BY <1>1, <1>2, <1>3, <2>1 DEF Sessions
  <2>3. pages' = live' \ exited /\ \A i \in exited : i <= created + 1
    BY <1>1, <1>3, <2>1 DEF IInv, TypeOK, Counters, Sessions
  <2> QED BY <1>1, <1>2, <1>3, <2>2, <2>3
          DEF IInv, Counters, Ended, serverVars
<1>7. MapInv'
  BY <1>1, <1>2, <1>3 DEF MapInv
<1>8. QueueBounds'
  <2> SUFFICES ASSUME NEW k \in 1..Len(queue')
               PROVE  /\ queue'[k].by <= session
                      /\ queue'[k].op = "create" => queue'[k].by > created + 1
                      /\ queue'[k].op = "delete" => queue'[k].by > destroyed
                                                   /\ queue'[k].by <= Ended
                      /\ queue'[k].op = "eval" =>
                             /\ queue'[k].inst \in Sessions
                             /\ queue'[k].req # 0
                             /\ queue'[k].inst <= created + 1
                             /\ queue'[k].inst <= queue'[k].by
    BY <1>1 DEF QueueBounds, serverVars, Ended
  <2>1. k + 1 \in 1..Len(queue) /\ queue'[k] = queue[k + 1]
        /\ queue[k + 1] \in Event
    BY <1>4
  <2>2. queue[k + 1].op = "create" => queue[k + 1].by > created + 1
    <3>1. Head(queue) = queue[1] /\ 1 \in 1..Len(queue) /\ 1 < k + 1
      BY <1>1, <2>1, AfterHandle
    <3>2. /\ queue[1].by <= queue[k + 1].by
          /\ queue[1].by = queue[k + 1].by => queue[k + 1].op # "create"
      BY <2>1, <3>1 DEF IInv, QueueSorted
    <3> QED BY <1>2, <1>3, <2>1, <3>1, <3>2 DEF Event, Sessions
  <2>3. queue[k + 1].op = "eval" => queue[k + 1].inst <= created + 1
    BY <1>3, <2>1 DEF IInv, QueueBounds, Event, Sessions
  <2> QED BY <2>1, <2>2, <2>3 DEF IInv, QueueBounds
<1>9. PendingCreates' /\ PendingDeletes'
  <2>1. \A t : Queued(queue, "delete", t) => Queued(queue', "delete", t)
    BY <1>1, AfterHandle
  <2>2. \A t \in Sessions : created + 1 < t /\ Queued(queue, "create", t)
            => Queued(queue', "create", t)
    BY <1>1, <1>2, <1>3, AfterHandle
  <2>3. \A t \in Sessions : created + 1 < t => created < t
    BY <1>3 DEF Sessions
  <2> QED BY <1>1, <2>1, <2>2, <2>3
          DEF IInv, PendingCreates, PendingDeletes, serverVars, Ended
<1>10. Attached'
  BY <1>1, <1>3, SocketServerAssumption
     DEF SocketServerAssumption, IInv, TypeOK, Attached, serverVars, Instances
<1>11. SocketInv'
  <2>1. webpage # created + 1
    BY <1>3 DEF IInv, Attached
  <2>2. \A k \in 1..Len(queue) :
            queue[k].op = "eval" => queue[k].inst # created + 1
    BY <1>3 DEF IInv, QueueBounds
  <2>3. evaluated[created + 1] = <<>>
    BY <1>2, <1>3 DEF IInv, SocketInv
  <2>4. \A i \in Sessions : i <= created => i <= created + 1
    BY <1>3 DEF Sessions
  <2> QED BY <1>1, <1>4, <2>1, <2>2, <2>3, <2>4 DEF IInv, SocketInv, serverVars
<1> QED BY <1>1, <1>4, <1>5, <1>6, <1>7, <1>8, <1>9, <1>10, <1>11, Frame
        DEF IInv

LEMMA AssignInstanceStep == IInv /\ AssignInstance => IInv'
<1> SUFFICES ASSUME IInv, AssignInstance PROVE IInv'
    OBVIOUS
<1>1. /\ UNCHANGED <<serverVars, mapped, queue, created, destroyed, live,
                     singleton, pages, socketOf, running, exited, evaluated, fault,
                     crashed>>
      /\ assigning /\ assigning' = FALSE
      /\ mapVal' = created
  BY DEF AssignInstance, NoFault
<1>2. TypeOK'
  <2>1. assigning' \in BOOLEAN
    BY <1>1
  <2>2. mapVal' \in Instances
    BY <1>1 DEF IInv, TypeOK, Instances
  <2> QED BY <1>1, <2>1, <2>2 DEF IInv, TypeOK, serverVars
<1>3. MapInv'
  BY <1>1 DEF IInv, MapInv
<1> QED BY <1>1, <1>2, <1>3, Frame DEF IInv, serverVars

LEMMA DeleteInstanceStep == IInv /\ DeleteInstance => IInv'
<1> SUFFICES ASSUME IInv, DeleteInstance PROVE IInv'
    OBVIOUS
<1>1. /\ UNCHANGED <<serverVars, assigning, created, singleton, socketOf, running,
                     exited, evaluated, fault, crashed>>
      /\ queue # <<>> /\ queue' = Tail(queue)
      /\ Head(queue).op = "delete"
      /\ ~assigning
      /\ destroyed' = destroyed + 1
      /\ mapped' = FALSE /\ mapVal' = 0
  BY DEF DeleteInstance, MainReady, NoFault
<1>2. /\ destroyed + 1 \in Sessions /\ destroyed + 1 <= Ended
      /\ created = destroyed + 1 /\ Head(queue).by = destroyed + 1
  BY <1>1, HeadDelete
<1>3. /\ created \in Nat /\ destroyed \in Nat /\ MaxSessions \in Nat
      /\ session \in Nat
      /\ mapped /\ mapVal = created
  BY <1>1, <1>2, SocketServerAssumption
     DEF SocketServerAssumption, IInv, TypeOK, MapInv
<1>4. live' = live \ {created} /\ pages' = pages \ {created}
  BY <1>3 DEF DeleteInstance
<1>5. /\ queue' \in Seq(Event)
      /\ \A k \in 1..Len(queue') :
             /\ k + 1 \in 1..Len(queue)
             /\ queue'[k] = queue[k + 1]
             /\ queue[k + 1] \in Event
      /\ QueueSorted'
  BY <1>1, AfterHandle, ElementOfSeq DEF IInv, TypeOK
<1>6. live' = {} /\ pages' = {}
  BY <1>2, <1>3, <1>4 DEF IInv, Counters, Sessions
<1>7. TypeOK'
  <2>1. mapped' \in BOOLEAN
    BY <1>1
  <2>2. mapVal' \in Instances /\ destroyed' \in 0..MaxSessions
    BY <1>1, <1>2, <1>3 DEF Instances, Sessions
  <2> QED BY <1>1, <1>5, <1>6, <2>1, <2>2 DEF IInv, TypeOK, serverVars
<1>8. Counters'
  <2>1. {i \in Sessions : destroyed + 1 < i /\ i <= created} = {}
    BY <1>2, <1>3 DEF Sessions
  <2> QED BY <1>1, <1>2, <1>3, <1>6, <2>1 DEF IInv, Counters, Ended, serverVars
<1>9. MapInv'
  BY <1>1, <1>2, <1>3 DEF IInv, MapInv
<1>10. QueueBounds'
  <2> SUFFICES ASSUME NEW k \in 1..Len(queue')
               PROVE  /\ queue'[k].by <= session
                      /\ queue'[k].op = "create" => queue'[k].by > created
                      /\ queue'[k].op = "delete" => queue'[k].by > destroyed + 1
                                                   /\ queue'[k].by <= Ended
                      /\ queue'[k].op = "eval" =>
                             /\ queue'[k].inst \in Sessions
                             /\ queue'[k].req # 0
                             /\ queue'[k].inst <= created
                             /\ queue'[k].inst <= queue'[k].by
    BY <1>1 DEF QueueBounds, serverVars, Ended
  <2>1. k + 1 \in 1..Len(queue) /\ queue'[k] = queue[k + 1]
        /\ queue[k + 1] \in Event
    BY <1>5
  <2>2. queue[k + 1].op = "delete" => queue[k + 1].by > destroyed + 1
    <3>1. Head(queue) = queue[1] /\ 1 \in 1..Len(queue) /\ 1 < k + 1
      BY <1>1, <2>1, AfterHandle
    <3>2. /\ queue[1].by <= queue[k + 1].by
          /\ queue[1].by = queue[k + 1].by => queue[1].op # "delete"
      BY <2>1, <3>1 DEF IInv, QueueSorted
    <3> QED BY <1>1, <1>2, <1>3, <2>1, <3>1, <3>2 DEF Event, Sessions
  <2> QED BY <2>1, <2>2 DEF IInv, QueueBounds
<1>11. PendingCreates' /\ PendingDeletes'
  <2>1. \A t : Queued(queue, "create", t) => Queued(queue', "create", t)
    BY <1>1, AfterHandle
  <2>2. \A t \in Sessions : destroyed + 1 < t /\ Queued(queue, "delete", t)
            => Queued(queue', "delete", t)
    BY <1>1, <1>2, <1>3, AfterHandle
  <2>3. \A t \in Sessions : destroyed + 1 < t => destroyed < t
    BY <1>3 DEF Sessions
  <2> QED BY <1>1, <2>1, <2>2, <2>3
          DEF IInv, PendingCreates, PendingDeletes, serverVars, Ended
<1>12. Attached'
  BY <1>1 DEF IInv, Attached, serverVars
<1>13. SocketInv'
  BY <1>1, <1>6 DEF IInv, SocketInv, serverVars
<1> QED BY <1>1, <1>5, <1>7, <1>8, <1>9, <1>10, <1>11, <1>12, <1>13, Frame
        DEF IInv

LEMMA EvaluateJavaScriptStep == IInv /\ EvaluateJavaScript => IInv'
<1> SUFFICES ASSUME IInv, EvaluateJavaScript PROVE IInv'
    OBVIOUS
<1> DEFINE e == Head(queue)
           script == [by |-> e.by, req |-> e.req]
<1>1. /\ UNCHANGED <<serverVars, mapped, mapVal, assigning, created, destroyed,
                     live, singleton, pages, socketOf, exited, fault, crashed>>
      /\ queue # <<>> /\ queue' = Tail(queue)
      /\ e.op = "eval"
      /\ e.inst \in pages
      /\ running' = <<e.inst>> \o running
      /\ evaluated' = [evaluated EXCEPT ![e.inst] = Append(@, script)]
  BY DEF EvaluateJavaScript, MainReady, NoFault
<1>2. /\ queue' \in Seq(Event)
      /\ \A k \in 1..Len(queue') :
             /\ k + 1 \in 1..Len(queue)
             /\ queue'[k] = queue[k + 1]
      /\ QueueSorted'
  BY <1>1, AfterHandle
<1>3. e \in Event /\ e = queue[1] /\ 1 \in 1..Len(queue)
  BY <1>1, AfterHandle
<1>4. /\ e.inst \in Sessions /\ e.by \in Sessions
      /\ e.req \in 1..MaxRequests
      /\ e.inst <= created /\ e.inst <= e.by /\ e.by <= session
      /\ destroyed < e.inst
      /\ socketOf[e.inst] # 0
  <2>1. e.inst \in Sessions /\ e.by \in Sessions /\ e.req \in 0..MaxRequests
    BY <1>1, <1>3 DEF IInv, QueueBounds, Event
  <2>2. /\ e.req # 0 /\ e.inst <= created /\ e.inst <= e.by /\ e.by <= session
    BY <1>1, <1>3 DEF IInv, QueueBounds
  <2>3. destroyed < e.inst
    BY <1>1 DEF IInv, Counters
  <2>4. socketOf[e.inst] # 0
    BY <1>1, <1>3 DEF IInv, SocketInv
  <2>5. e.req \in 1..MaxRequests
    BY <2>1, <2>2, SocketServerAssumption DEF SocketServerAssumption
  <2> QED BY <2>1, <2>2, <2>3, <2>4, <2>5
<1>5. e.inst = e.by
  \* Otherwise the deletion of the instance would have come first.
  <2> SUFFICES ASSUME e.inst < e.by PROVE FALSE
    BY <1>4, SocketServerAssumption DEF SocketServerAssumption, Sessions
  <2>1. session \in Nat /\ e.inst <= session - 1
    <3>1. session \in Nat
      BY DEF IInv, TypeOK
    <3>2. e.inst \in Int /\ e.by \in Int
      BY <1>4 DEF Sessions
    <3> QED BY <1>4, <3>1, <3>2
  <2>2. e.inst <= Ended
    BY <1>4, <2>1 DEF Ended, Sessions
  <2>3. Queued(queue, "delete", e.inst)
    BY <1>4, <2>2 DEF IInv, PendingDeletes
  <2>4. e.by <= e.inst
    BY <1>1, <2>3, AfterHandle
  <2> QED BY <1>4, <2>4 DEF Sessions
<1>6. script \in Script
  BY <1>4 DEF Script
<1>7. /\ evaluated \in [Sessions -> Seq(Script)]
      /\ evaluated[e.inst] \in Seq(Script)
      /\ evaluated'[e.inst] = Append(evaluated[e.inst], script)
      /\ \A i \in Sessions : i # e.inst => evaluated'[i] = evaluated[i]
  BY <1>1, <1>4 DEF IInv, TypeOK
<1> HIDE DEF script
<1>8. /\ Append(evaluated[e.inst], script) \in Seq(Script)
      /\ Len(evaluated[e.inst]) \in Nat
      /\ Len(Append(evaluated[e.inst], script)) = Len(evaluated[e.inst]) + 1
      /\ \A k \in 1..Len(evaluated[e.inst]) :
             Append(evaluated[e.inst], script)[k] = evaluated[e.inst][k]
      /\ Append(evaluated[e.inst], script)[Len(evaluated[e.inst]) + 1] = script
  BY <1>6, <1>7, AppendProperties, LenProperties
<1>9. TypeOK'
  <2>1. evaluated' \in [Sessions -> Seq(Script)]
    BY <1>1, <1>4, <1>7, <1>8
  <2>2. running' \in Seq(Sessions)
    <3>1. <<e.inst>> \in Seq(Sessions) /\ running \in Seq(Sessions)
      BY <1>4 DEF IInv, TypeOK
    <3> HIDE DEF e
    <3> QED BY <1>1, <3>1, ConcatProperties
  <2> QED BY <1>1, <1>2, <2>1, <2>2 DEF IInv, TypeOK, serverVars
<1>10. QueueBounds'
  BY <1>1, <1>2 DEF IInv, QueueBounds, serverVars, Ended
<1>11. PendingCreates' /\ PendingDeletes'
  <2>1. \A op, t : op # "eval" /\ Queued(queue, op, t) => Queued(queue', op, t)
    BY <1>1, AfterHandle
  <2> QED BY <1>1, <2>1
          DEF IInv, PendingCreates, PendingDeletes, serverVars, Ended
<1>12. Attached'
  BY <1>1 DEF IInv, Attached, serverVars
<1>13. SocketInv'
  <2>1. \A i \in Sessions : evaluated'[i] # <<>>
            => i <= created /\ (i \in pages => socketOf[i] # 0)
    BY <1>4, <1>7 DEF IInv, SocketInv
  <2>2. pages \in SUBSET Sessions
    BY DEF IInv, TypeOK
  <2> QED BY <1>1, <1>2, <2>1, <2>2 DEF IInv, SocketInv, serverVars
<1>14. Isolation'
  <2> SUFFICES ASSUME NEW i \in Sessions, NEW k \in 1..Len(evaluated'[i])
               PROVE  evaluated'[i][k].by = i
    BY DEF Isolation
  <2>1. CASE i # e.inst
    BY <1>7, <2>1 DEF IInv, Isolation
  <2>2. CASE i = e.inst /\ k \in 1..Len(evaluated[i])
    BY <1>7, <1>8, <2>2 DEF IInv, Isolation
  <2>3. CASE i = e.inst /\ k = Len(evaluated[i]) + 1
    BY <1>5, <1>7, <1>8, <2>3 DEF script
  <2> QED BY <1>7, <1>8, <2>1, <2>2, <2>3
<1> QED BY <1>1, <1>2, <1>9, <1>10, <1>11, <1>12, <1>13, <1>14, Frame
        DEF IInv, serverVars

LEMMA DropEvaluationStep == IInv /\ DropEvaluation => IInv'
<1> SUFFICES ASSUME IInv, DropEvaluation PROVE IInv'
    OBVIOUS
<1>1. /\ UNCHANGED <<serverVars, mapped, mapVal, mainVars, fault, crashed>>
      /\ queue # <<>> /\ queue' = Tail(queue)
      /\ Head(queue).op = "eval"
  BY DEF DropEvaluation, MainReady, NoFault
<1>2. /\ queue' \in Seq(Event)
      /\ \A k \in 1..Len(queue') :
             /\ k + 1 \in 1..Len(queue)
             /\ queue'[k] = queue[k + 1]
      /\ QueueSorted'
      /\ \A op, t : op # "eval" /\ Queued(queue, op, t)
             => Queued(queue', op, t)
  BY <1>1, AfterHandle
<1>3. TypeOK'
  BY <1>1, <1>2 DEF IInv, TypeOK, serverVars, mainVars
<1>4. QueueBounds'
  BY <1>1, <1>2 DEF IInv, QueueBounds, serverVars, mainVars, Ended
<1>5. PendingCreates' /\ PendingDeletes'
  BY <1>1, <1>2
     DEF IInv, PendingCreates, PendingDeletes, serverVars, mainVars, Ended
<1>6. SocketInv'
  BY <1>1, <1>2 DEF IInv, SocketInv, serverVars, mainVars
<1> QED BY <1>1, <1>2, <1>3, <1>4, <1>5, <1>6, Frame
        DEF IInv, serverVars, mainVars

LEMMA ScriptReturnsStep == IInv /\ ScriptReturns => IInv'
<1> SUFFICES ASSUME IInv, ScriptReturns PROVE IInv'
    OBVIOUS
<1>1. /\ UNCHANGED <<serverVars, mapped, mapVal, queue, assigning, created,
                     destroyed, live, singleton, pages, socketOf, exited, evaluated>>
      /\ running # <<>> /\ running' = Tail(running)
      /\ fault' \in {fault, fault \cup {"freedFrame"}}
  BY DEF ScriptReturns, NoFault, Undefined
<1>2. TypeOK'
  <2>1. running' \in Seq(Sessions)
    BY <1>1, HeadTailProperties DEF IInv, TypeOK
  <2>2. crashed' \in BOOLEAN
    BY DEF IInv, TypeOK, ScriptReturns, NoFault, Undefined
  <2>3. fault' \in SUBSET FaultKind
    BY <1>1 DEF IInv, TypeOK, FaultKind
  <2> QED BY <1>1, <2>1, <2>2, <2>3 DEF IInv, TypeOK, serverVars
<1>3. SocketInv'
  BY <1>1 DEF IInv, SocketInv, serverVars
<1> QED BY <1>1, <1>2, <1>3, Frame DEF IInv, serverVars

LEMMA ConsoleMessageStep ==
    ASSUME NEW i \in Sessions, IInv, ConsoleMessage(i)
    PROVE  IInv'
<1>1. /\ UNCHANGED <<serverVars, mapped, mapVal, queue, mainVars>>
      /\ i \in pages /\ evaluated[i] # <<>>
      /\ \/ fault' \in {fault, fault \cup {"socketRace"}}
         \/ fault' = fault \cup {IF socketOf[i] = 0 THEN "wildSocket"
                                                   ELSE "freedSocket"}
      /\ crashed' \in BOOLEAN
  <2>1. crashed' \in BOOLEAN
    BY DEF IInv, TypeOK, ConsoleMessage, NoFault, Undefined
  <2> QED BY <2>1 DEF ConsoleMessage, NoFault, Undefined
<1>2. socketOf[i] # 0
  BY <1>1 DEF IInv, SocketInv
<1>3. "wildSocket" \notin fault'
  BY <1>1, <1>2 DEF IInv, SocketInv
<1>4. TypeOK'
  BY <1>1, <1>2 DEF IInv, TypeOK, serverVars, mainVars, FaultKind
<1>5. SocketInv'
  BY <1>1, <1>3 DEF IInv, SocketInv, serverVars, mainVars
<1> QED BY <1>1, <1>4, <1>5, Frame DEF IInv, serverVars, mainVars

LEMMA PhantomExitStep == IInv /\ PhantomExit => IInv'
<1> SUFFICES ASSUME IInv, PhantomExit PROVE IInv'
    OBVIOUS
<1> DEFINE i == Head(running)
<1>1. /\ UNCHANGED <<serverVars, mapped, mapVal, queue, assigning, created,
                     destroyed, live, singleton, socketOf, running, evaluated, fault,
                     crashed>>
      /\ i \in pages
      /\ pages' = pages \ {i}
      /\ exited' = exited \cup {i}
  BY DEF PhantomExit, NoFault
<1>2. i \in Sessions /\ i <= created
  BY <1>1 DEF IInv, TypeOK, Counters
<1>3. TypeOK'
  BY <1>1, <1>2 DEF IInv, TypeOK, serverVars
<1>4. Counters'
  BY <1>1, <1>2 DEF IInv, Counters, Ended, serverVars
<1>5. Attached'
  BY <1>1 DEF IInv, Attached, serverVars
<1>6. SocketInv'
  BY <1>1 DEF IInv, SocketInv, serverVars
<1> QED BY <1>1, <1>3, <1>4, <1>5, <1>6, Frame DEF IInv, serverVars

-----------------------------------------------------------------------------
LEMMA NextIInv == IInv /\ [Next]_vars => IInv'
<1> SUFFICES ASSUME IInv, [Next]_vars PROVE IInv'
    OBVIOUS
<1>1. CASE Connect
  BY <1>1, ConnectStep
<1>2. CASE ServerThread
  BY <1>2, AcceptStep, FindInstanceStep, FetchInstanceStep, MapRaceStep,
     AttachInstanceStep, EvaluateRequestStep, ClientDisconnectedStep,
     DisconnectStep DEF ServerThread
<1>3. CASE MainThread
  BY <1>3, CreateInstanceStep, AssignInstanceStep, DeleteInstanceStep,
     EvaluateJavaScriptStep, DropEvaluationStep, ScriptReturnsStep,
     ConsoleMessageStep, PhantomExitStep DEF MainThread
<1>4. CASE UNCHANGED vars
  <2>1. UNCHANGED <<serverVars, mapped, mapVal, queue, mainVars, fault, crashed>>
    BY <1>4 DEF vars
  <2>2. TypeOK'
    BY <2>1 DEF IInv, TypeOK, serverVars, mainVars
  <2> QED BY <2>1, <2>2, Frame DEF IInv, serverVars, mainVars
<1> QED BY <1>1, <1>2, <1>3, <1>4 DEF Next

\* The invariant from which the safety of the socket server follows holds in
\* every reachable state.
THEOREM Invariance == Spec => []IInv
<1> QED BY InitIInv, NextIInv, PTL DEF Spec

\* Every variable stays within its type.
THEOREM TypeCorrect == Spec => []TypeOK
<1>1. IInv => TypeOK
  BY DEF IInv
<1> QED BY <1>1, Invariance, PTL

\* However sessions and instances interleave, a page evaluates only scripts of
\* the client it was created for (Main::createPhantomJSInstance, doWork).
THEOREM IsolationHolds == Spec => []Isolation
<1>1. IInv => Isolation
  BY DEF IInv
<1> QED BY <1>1, Invariance, PTL

\* Of the instances made for sessions main never keeps two alive, however long
\* its queue is, and none without the singleton of Phantom::instance().
THEOREM AtMostOneInstanceHolds == Spec => []AtMostOneInstance
<1>1. IInv => AtMostOneInstance
  <2> SUFFICES ASSUME IInv, NEW i \in live PROVE i = created /\ singleton
    BY DEF AtMostOneInstance
  <2>1. /\ i \in Sessions /\ destroyed < i /\ i <= created
        /\ created <= destroyed + 1
    BY DEF IInv, Counters
  <2>2. i = created /\ created # 0
    BY <2>1, SocketServerAssumption
       DEF SocketServerAssumption, IInv, TypeOK, Sessions
  <2> QED BY <2>2 DEF IInv, MapInv
<1> QED BY <1>1, Invariance, PTL

\* deletePhantomJSInstance always finds a living instance in the map.
THEOREM DeleteFindsInstanceHolds == Spec => []DeleteFindsInstance
<1>1. IInv => DeleteFindsInstance
  <2> SUFFICES ASSUME IInv, queue # <<>>, Head(queue).op = "delete", ~assigning
               PROVE  mapped /\ mapVal \in live
    BY DEF DeleteFindsInstance
  <2>1. created = destroyed + 1 /\ destroyed + 1 \in Sessions
    BY HeadDelete
  <2>2. destroyed \in Nat /\ destroyed < created
    BY <2>1 DEF IInv, TypeOK
  <2>3. mapped /\ mapVal = created
    BY <2>2 DEF IInv, MapInv
  <2> QED BY <2>1, <2>2, <2>3 DEF IInv, Counters
<1> QED BY <1>1, Invariance, PTL

\* Creations and deletions of instances never overtake one another.
THEOREM OneInstanceHolds == Spec => []OneInstance
<1>1. AtMostOneInstance /\ DeleteFindsInstance => OneInstance
  BY DEF OneInstance
<1> QED BY <1>1, AtMostOneInstanceHolds, DeleteFindsInstanceHolds, PTL

\* No console message goes through Phantom::socketClient before a session has
\* set it, although the constructor does not.
THEOREM SocketPointerInitialisedHolds == Spec => []SocketPointerInitialised
<1>1. IInv => SocketPointerInitialised
  BY DEF IInv, SocketInv, SocketPointerInitialised
<1> QED BY <1>1, Invariance, PTL

\* A session attached to the instance created for it meets no freed, null or
\* uninitialised object until its script calls phantom.exit().
THEOREM OwnSessionIsSafeHolds == Spec => OwnSessionIsSafe
<1>1. ASSUME IInv, Next, pc = "serve", phantom = session, session \notin exited
      PROVE  fault' \subseteq fault \cup {"socketRace", "freedFrame"}
  <2>1. /\ webpage = session /\ socketOf[session] = session
        /\ session \in Sessions /\ created = session
        /\ destroyed <= session - 1
    <3>1. webpage = session /\ socketOf[session] = session
      BY <1>1 DEF IInv, Attached
    <3>2. session >= 1 /\ created <= session /\ phantom <= created
          /\ destroyed <= session - 1
      BY <1>1 DEF IInv, Counters, Attached, Ended
    <3> QED BY <1>1, <3>1, <3>2, SocketServerAssumption
            DEF SocketServerAssumption, IInv, TypeOK, Sessions
  <2>2. pages = {session}
    <3>1. /\ live = {i \in Sessions : destroyed < i /\ i <= created}
          /\ pages = live \ exited
          /\ created <= destroyed + 1
      BY <1>1 DEF IInv, Counters
    <3>2. destroyed \in Nat /\ session \in Nat
      BY <1>1 DEF IInv, TypeOK
    <3>3. session \in live
      BY <2>1, <3>1, <3>2
    <3>4. \A i \in live : i = session
      BY <2>1, <3>1, <3>2 DEF Sessions
    <3> QED BY <1>1, <3>1, <3>3, <3>4
  <2>3. CASE Connect
    BY <2>3 DEF Connect, NoFault
  <2>4. CASE ServerThread
    <3>1. ~MapRace /\ ~AttachInstance
      BY <1>1 DEF MapRace, AttachInstance
    <3>2. EvaluateRequest => fault' = fault
      BY <2>1, <2>2 DEF EvaluateRequest, NoFault, Sessions
    <3> QED BY <2>4, <3>1, <3>2
            DEF ServerThread, Accept, FindInstance, FetchInstance,
                ClientDisconnected, Disconnect, NoFault
  <2>5. CASE \E i \in Sessions : ConsoleMessage(i)
    <3>1. PICK i \in Sessions : ConsoleMessage(i)
      BY <2>5
    <3>2. i = session
      BY <2>2, <3>1 DEF ConsoleMessage
    <3>3. SocketAlive(socketOf[i])
      BY <1>1, <2>1, <3>2 DEF SocketAlive
    <3> QED BY <3>1, <3>3 DEF ConsoleMessage, NoFault, Undefined
  <2>6. CASE ScriptReturns
    BY <2>6 DEF ScriptReturns, NoFault, Undefined
  <2>7. CASE CreateInstance \/ AssignInstance \/ DeleteInstance
             \/ EvaluateJavaScript \/ DropEvaluation \/ PhantomExit
    BY <2>7 DEF CreateInstance, AssignInstance, DeleteInstance,
                EvaluateJavaScript, DropEvaluation, PhantomExit, NoFault
  <2> QED BY <1>1, <2>3, <2>4, <2>5, <2>6, <2>7 DEF Next, MainThread
<1>2. IInv /\ [Next]_vars
          => [pc = "serve" /\ phantom = session /\ session \notin exited
                  => fault' \subseteq fault \cup {"socketRace", "freedFrame"}]_vars
  BY <1>1
<1> QED BY <1>2, Invariance, PTL DEF Spec, OwnSessionIsSafe
=============================================================================
