-------------------- MODULE SocketServerRefinementProofs --------------------
(***************************************************************************)
(* The socket server implements Sandboxes, for every number of sessions,   *)
(* requests and nested scripts.  That a sandbox runs the scripts of its    *)
(* client in order and without a gap does not follow from the invariant    *)
(* of SocketServerProofs: a session may send scripts to the page of a      *)
(* predecessor, or to none.  The argument: the scripts a session sends to  *)
(* its own page are queued in order (InOrder, New), and as long as that    *)
(* page lives, so is every script before them that has not been evaluated  *)
(* (NoGap, AllQueued).                                                     *)
(***************************************************************************)
EXTENDS SocketServerRefinement, SocketServerProofs

\* Script n of session s waits to be evaluated in the page of s.
Awaited(q, s, n) ==
    \E k \in 1..Len(q) : /\ q[k].op = "eval" /\ q[k].inst = s
                         /\ q[k].by = s /\ q[k].req = n

Unsent ==
    \A s \in Sessions :
        s > session \/ (s = session /\ pc \in {"poll", "value", "attach"})
            => requested[s] = 0

InOrder ==
    \A j, k \in 1..Len(queue) :
        j < k /\ queue[j].op = "eval" /\ queue[k].op = "eval"
              /\ queue[j].by = queue[k].by
            => queue[j].req < queue[k].req

New ==
    /\ \A s \in Sessions : Len(evaluated[s]) <= requested[s]
    /\ \A k \in 1..Len(queue) :
           queue[k].op = "eval" =>
               /\ queue[k].req <= requested[queue[k].by]
               /\ queue[k].inst = queue[k].by
                      => Len(evaluated[queue[k].by]) < queue[k].req

NoGap ==
    \A k \in 1..Len(queue) : \A n \in 1..MaxRequests :
        /\ queue[k].op = "eval"
        /\ queue[k].inst = queue[k].by /\ queue[k].by \in pages
        /\ Len(evaluated[queue[k].by]) < n /\ n <= queue[k].req
        => Awaited(queue, queue[k].by, n)

AllQueued ==
    \A n \in 1..MaxRequests :
        /\ pc = "serve" /\ webpage = session /\ session \in pages
        /\ Len(evaluated[session]) < n /\ n <= requested[session]
        => Awaited(queue, session, n)

Order == Unsent /\ InOrder /\ New /\ NoGap /\ AllQueued

RInv == IInv /\ Order

-----------------------------------------------------------------------------
(* Steps that leave the queued scripts as they are *)

\* The types that the steps below need.
LEMMA Types ==
    ASSUME IInv
    PROVE  /\ queue \in Seq(Event) /\ Len(queue) \in Nat
           /\ \A k \in 1..Len(queue) :
                  /\ queue[k] \in Event /\ queue[k].by \in Sessions
                  /\ queue[k].req \in 0..MaxRequests /\ queue[k].inst \in Instances
           /\ requested \in [Sessions -> 0..MaxRequests]
           /\ evaluated \in [Sessions -> Seq(Script)]
           /\ \A s \in Sessions : Len(evaluated[s]) \in Nat /\ requested[s] \in Nat
           /\ session \in 0..MaxSessions /\ session \in Nat
           /\ MaxSessions \in Nat /\ MaxRequests \in Nat
           /\ pages \subseteq Sessions
           /\ created \in Nat /\ destroyed \in Nat
<1>1. /\ queue \in Seq(Event) /\ requested \in [Sessions -> 0..MaxRequests]
      /\ evaluated \in [Sessions -> Seq(Script)] /\ session \in 0..MaxSessions
      /\ pages \subseteq Sessions /\ MaxSessions \in Nat /\ MaxRequests \in Nat
      /\ created \in Nat /\ destroyed \in Nat
  BY SocketServerAssumption DEF SocketServerAssumption, IInv, TypeOK
<1>2. \A k \in 1..Len(queue) : queue[k] \in Event
  BY <1>1
<1>3. \A k \in 1..Len(queue) :
          /\ queue[k].by \in Sessions /\ queue[k].req \in 0..MaxRequests
          /\ queue[k].inst \in Instances
  BY <1>2 DEF Event
<1>4. \A s \in Sessions : Len(evaluated[s]) \in Nat /\ requested[s] \in Nat
  BY <1>1
<1> QED BY <1>1, <1>2, <1>3, <1>4

\* Steps in which no event is posted or handled.
LEMMA QueueStays ==
    ASSUME RInv, UNCHANGED <<session, queue, requested, evaluated>>,
           pages' \subseteq pages,
           pc' = "serve" => pc = "serve" /\ webpage' = webpage,
           pc' \in {"poll", "value", "attach"} => pc \in {"poll", "value", "attach"}
    PROVE  Order'
<1>1. Unsent' /\ InOrder' /\ New'
  BY DEF RInv, Order, Unsent, InOrder, New
<1>2. NoGap'
  BY DEF RInv, Order, NoGap, Awaited
<1>3. AllQueued'
  BY DEF RInv, Order, AllQueued, Awaited
<1> QED BY <1>1, <1>2, <1>3 DEF Order

\* The server thread posts a creation or a deletion.
LEMMA OtherPosted ==
    ASSUME RInv, NEW e \in Event, e.op # "eval", queue' = Append(queue, e),
           UNCHANGED <<requested, evaluated, pages>>
    PROVE  InOrder' /\ New' /\ NoGap'
<1>1. /\ Len(queue') = Len(queue) + 1 /\ Len(queue) \in Nat
      /\ \A k \in 1..Len(queue) : queue'[k] = queue[k]
      /\ queue'[Len(queue) + 1] = e
  BY AfterPost, Types DEF RInv
<1>2. \A k \in 1..Len(queue') :
          queue'[k].op = "eval" => k \in 1..Len(queue) /\ queue'[k] = queue[k]
  BY <1>1
<1>3. InOrder' /\ New'
  BY <1>2 DEF RInv, Order, InOrder, New
<1>4. \A s, n : Awaited(queue, s, n) => Awaited(queue', s, n)
  BY <1>1 DEF Awaited
<1>5. NoGap'
  BY <1>2, <1>4 DEF RInv, Order, NoGap
<1> QED BY <1>3, <1>5

\* The main thread handles an event that is no script of a living page, and no
\* page comes to life for which a script is queued.
LEMMA OtherHandled ==
    ASSUME RInv, queue # <<>>, queue' = Tail(queue),
           UNCHANGED <<serverVars, evaluated>>,
           Head(queue).op # "eval" \/ Head(queue).inst \notin pages,
           \A k \in 1..Len(queue) :
               queue[k].op = "eval" /\ queue[k].inst \in pages' => queue[k].inst \in pages,
           webpage = session /\ session \in pages' => session \in pages
    PROVE  Order'
<1>1. /\ Len(queue) \in Nat /\ Len(queue) >= 1 /\ Head(queue) = queue[1]
      /\ Len(queue') = Len(queue) - 1
      /\ \A k \in 1..Len(queue') : k + 1 \in 1..Len(queue) /\ queue'[k] = queue[k + 1]
  BY AfterHandle DEF RInv
<1>2. UNCHANGED <<pc, session, webpage, requested>>
  BY DEF serverVars
<1>3. Unsent' /\ New'
  BY <1>1, <1>2 DEF RInv, Order, Unsent, New
<1>4. InOrder'
  <2> SUFFICES ASSUME NEW j \in 1..Len(queue'), NEW k \in 1..Len(queue'), j < k,
                      queue'[j].op = "eval", queue'[k].op = "eval",
                      queue'[j].by = queue'[k].by
               PROVE  queue'[j].req < queue'[k].req
    BY DEF InOrder
  <2>1. j + 1 < k + 1
    OBVIOUS
  <2> QED BY <1>1, <2>1 DEF RInv, Order, InOrder
<1>5. ASSUME NEW s \in pages, NEW n, Awaited(queue, s, n)
      PROVE  Awaited(queue', s, n)
  <2>1. PICK k \in 1..Len(queue) : /\ queue[k].op = "eval" /\ queue[k].inst = s
                                   /\ queue[k].by = s /\ queue[k].req = n
    BY <1>5 DEF Awaited
  <2>2. k # 1
    BY <1>1, <2>1
  <2>3. k - 1 \in 1..Len(queue') /\ queue'[k - 1] = queue[k]
    BY <1>1, <2>2
  <2> QED BY <2>1, <2>3 DEF Awaited
<1>6. NoGap'
  BY <1>1, <1>5 DEF RInv, Order, NoGap
<1>7. AllQueued'
  BY <1>2, <1>5 DEF RInv, Order, AllQueued
<1> QED BY <1>3, <1>4, <1>6, <1>7 DEF Order

-----------------------------------------------------------------------------
(* One lemma per action that changes the queue or attaches a session *)

LEMMA OrderInit == Init => Order
<1> SUFFICES ASSUME Init PROVE Order
  OBVIOUS
<1>1. queue = <<>> /\ Len(queue) = 0 /\ pc = "wait"
  BY DEF Init
<1>2. \A s \in Sessions : requested[s] = 0 /\ Len(evaluated[s]) = 0
  BY DEF Init
<1> QED BY <1>1, <1>2 DEF Order, Unsent, InOrder, New, NoGap, AllQueued

LEMMA OrderAccept == RInv /\ Accept => Order'
<1> SUFFICES ASSUME RInv, Accept PROVE Order'
  OBVIOUS
<1> DEFINE e == [op |-> "create", inst |-> 0, by |-> session + 1, req |-> 0]
<1>1. /\ UNCHANGED <<requested, evaluated, pages>> /\ pc' = "poll"
      /\ session' = session + 1 /\ session < MaxSessions /\ queue' = Append(queue, e)
  BY DEF Accept, mainVars
<1>2. e \in Event /\ e.op # "eval"
  BY <1>1, Types DEF RInv, Event, Instances, Sessions
<1>3. InOrder' /\ New' /\ NoGap'
  <2> HIDE DEF e
  <2> QED BY <1>1, <1>2, OtherPosted
<1>4. Unsent'
  <2> SUFFICES ASSUME NEW s \in Sessions, s > session + 1 \/ s = session + 1
               PROVE  requested[s] = 0
    BY <1>1 DEF Unsent
  <2>1. s > session
    BY Types DEF RInv, Sessions
  <2> QED BY <2>1 DEF RInv, Order, Unsent
<1>5. AllQueued'
  BY <1>1 DEF AllQueued
<1> QED BY <1>3, <1>4, <1>5 DEF Order

\* A session that has just attached has sent nothing yet.
LEMMA OrderAttachInstance == RInv /\ AttachInstance => Order'
<1> SUFFICES ASSUME RInv, AttachInstance PROVE Order'
  OBVIOUS
<1>1. /\ UNCHANGED <<session, requested, queue, pages, evaluated>>
      /\ pc = "attach" /\ pc' = "serve"
  BY DEF AttachInstance
<1>2. Unsent' /\ InOrder' /\ New' /\ NoGap'
  BY <1>1 DEF RInv, Order, Unsent, InOrder, New, NoGap, Awaited
<1>3. AllQueued'
  <2> SUFFICES ASSUME NEW n \in 1..MaxRequests, session \in pages,
                      Len(evaluated[session]) < n, n <= requested[session]
               PROVE  FALSE
    BY <1>1 DEF AllQueued
  <2>1. session \in Sessions
    BY Types DEF RInv
  <2>2. requested[session] = 0
    BY <1>1, <2>1 DEF RInv, Order, Unsent
  <2> QED BY <2>2
<1> QED BY <1>2, <1>3 DEF Order

LEMMA OrderEvaluateRequest == RInv /\ EvaluateRequest => Order'
<1> SUFFICES ASSUME RInv, EvaluateRequest PROVE Order'
  OBVIOUS
<1> DEFINE r == requested[session] + 1
           e == [op |-> "eval", inst |-> webpage, by |-> session, req |-> r]
<1>1. /\ UNCHANGED <<session, pc, webpage, pages, evaluated>>
      /\ pc = "serve" /\ requested' = [requested EXCEPT ![session] = r]
      /\ requested[session] < MaxRequests
      /\ \/ webpage \in pages /\ queue' = Append(queue, e)
         \/ webpage \notin pages /\ queue' = queue
  <2>1. 0 \notin pages
    BY Types DEF RInv, Sessions
  <2> QED BY <2>1 DEF EvaluateRequest, Post, mainVars
<1>2. session \in Sessions /\ session \in Nat
  BY <1>1, Types DEF RInv, IInv, Counters, Sessions
<1>3. /\ requested'[session] = r /\ requested[session] \in Nat /\ r \in 1..MaxRequests
      /\ \A s \in Sessions : s # session => requested'[s] = requested[s]
      /\ \A s \in Sessions : requested[s] <= requested'[s]
      /\ \A s \in Sessions : requested'[s] \in Nat
  BY <1>1, <1>2, Types DEF RInv
<1>4. Unsent'
  BY <1>1, <1>2, <1>3 DEF RInv, Order, Unsent
<1>5. ASSUME webpage \notin pages, queue' = queue PROVE Order'
  <2>1. InOrder' /\ NoGap'
    BY <1>1, <1>5 DEF RInv, Order, InOrder, NoGap, Awaited
  <2>2. New'
    <3>1. \A s \in Sessions : Len(evaluated[s]) <= requested'[s]
      BY <1>3, Types DEF RInv, Order, New
    <3>2. ASSUME NEW k \in 1..Len(queue), queue[k].op = "eval"
          PROVE  queue[k].req <= requested'[queue[k].by]
      BY <1>3, <3>2, Types DEF RInv, Order, New
    <3> QED BY <1>1, <1>5, <3>1, <3>2 DEF RInv, Order, New
  <2>3. AllQueued'
    BY <1>1, <1>5 DEF AllQueued
  <2> QED BY <1>4, <2>1, <2>2, <2>3 DEF Order
<1>6. ASSUME webpage \in pages, queue' = Append(queue, e) PROVE Order'
  <2>1. e \in Event
    BY <1>2, <1>3, <1>6, Types DEF RInv, Event, Instances, Sessions
  <2>2. /\ Len(queue') = Len(queue) + 1 /\ Len(queue) \in Nat
        /\ \A k \in 1..Len(queue) : queue'[k] = queue[k]
        /\ queue'[Len(queue) + 1] = e
    <3> HIDE DEF e
    <3> QED BY <1>6, <2>1, AfterPost, Types DEF RInv
  <2>3. \A k \in 1..Len(queue') : k \in 1..Len(queue) \/ k = Len(queue) + 1
    BY <2>2
  <2>4. \A k \in 1..Len(queue) :
            queue[k].op = "eval" /\ queue[k].by = session => queue[k].req < r
    BY <1>3, Types DEF RInv, Order, New
  <2>5. \A s, n : Awaited(queue, s, n) => Awaited(queue', s, n)
    BY <2>2 DEF Awaited
  <2>6. InOrder'
    BY <2>2, <2>3, <2>4 DEF RInv, Order, InOrder
  <2>7. New'
    <3>1. \A s \in Sessions : Len(evaluated[s]) <= requested'[s]
      BY <1>3, Types DEF RInv, Order, New
    <3>2. ASSUME NEW k \in 1..Len(queue), queue[k].op = "eval"
          PROVE  /\ queue[k].req <= requested'[queue[k].by]
                 /\ queue[k].inst = queue[k].by
                        => Len(evaluated[queue[k].by]) < queue[k].req
      BY <1>3, <3>2, Types DEF RInv, Order, New
    <3>3. Len(evaluated[session]) < r /\ r <= requested'[session]
      BY <1>2, <1>3, Types DEF RInv, Order, New
    <3> QED BY <1>1, <2>2, <2>3, <3>1, <3>2, <3>3 DEF New
  <2>8. AllQueued'
    <3> SUFFICES ASSUME NEW n \in 1..MaxRequests, webpage = session,
                        Len(evaluated[session]) < n, n <= r
                 PROVE  Awaited(queue', session, n)
      BY <1>1, <1>3 DEF AllQueued
    <3>1. CASE n = r
      BY <2>2, <3>1 DEF Awaited
    <3>2. CASE n # r
      <4>1. n <= requested[session]
        BY <1>3, <3>2
      <4> QED BY <1>1, <1>6, <2>5, <4>1 DEF RInv, Order, AllQueued
    <3> QED BY <3>1, <3>2
  <2>9. NoGap'
    <3> SUFFICES ASSUME NEW k \in 1..Len(queue'), NEW n \in 1..MaxRequests,
                        queue'[k].op = "eval", queue'[k].inst = queue'[k].by,
                        queue'[k].by \in pages,
                        Len(evaluated[queue'[k].by]) < n, n <= queue'[k].req
                 PROVE  Awaited(queue', queue'[k].by, n)
      BY <1>1 DEF NoGap
    <3>1. CASE k \in 1..Len(queue)
      BY <2>2, <2>5, <3>1 DEF RInv, Order, NoGap
    <3>2. CASE k = Len(queue) + 1
      BY <1>1, <1>3, <2>2, <2>8, <3>2 DEF AllQueued
    <3> QED BY <2>3, <3>1, <3>2
  <2> QED BY <1>4, <2>6, <2>7, <2>8, <2>9 DEF Order
<1> QED BY <1>1, <1>5, <1>6

LEMMA OrderClientDisconnected == RInv /\ ClientDisconnected => Order'
<1> SUFFICES ASSUME RInv, ClientDisconnected PROVE Order'
  OBVIOUS
<1> DEFINE e == [op |-> "delete", inst |-> 0, by |-> session, req |-> 0]
<1>1. /\ UNCHANGED <<session, requested, evaluated, pages>>
      /\ pc = "serve" /\ pc' = "free" /\ queue' = Append(queue, e)
  BY DEF ClientDisconnected, Post, mainVars
<1>2. e \in Event /\ e.op # "eval"
  BY <1>1, Types DEF RInv, IInv, Counters, Event, Instances, Sessions
<1>3. InOrder' /\ New' /\ NoGap'
  <2> HIDE DEF e
  <2> QED BY <1>1, <1>2, OtherPosted
<1> QED BY <1>1, <1>3 DEF RInv, Order, Unsent, AllQueued

\* A new page has no scripts waiting for it: they name pages that exist.
LEMMA OrderCreateInstance == RInv /\ CreateInstance => Order'
<1> SUFFICES ASSUME RInv, CreateInstance PROVE Order'
  OBVIOUS
<1>1. /\ UNCHANGED <<serverVars, evaluated>> /\ queue # <<>> /\ queue' = Tail(queue)
      /\ Head(queue).op # "eval" /\ pages' = pages \cup {created + 1}
  BY DEF CreateInstance, MainReady
<1>2. webpage # created + 1
  BY Types DEF RInv, IInv, Attached
<1>3. \A k \in 1..Len(queue) : queue[k].op = "eval" => queue[k].inst # created + 1
  BY Types DEF RInv, IInv, QueueBounds
<1> QED BY <1>1, <1>2, <1>3, OtherHandled

LEMMA OrderDeleteInstance == RInv /\ DeleteInstance => Order'
<1> SUFFICES ASSUME RInv, DeleteInstance PROVE Order'
  OBVIOUS
<1>1. /\ UNCHANGED <<serverVars, evaluated>> /\ queue # <<>> /\ queue' = Tail(queue)
      /\ Head(queue).op # "eval" /\ pages' \subseteq pages
  BY DEF DeleteInstance, MainReady
<1> QED BY <1>1, OtherHandled

LEMMA OrderDropEvaluation == RInv /\ DropEvaluation => Order'
<1> SUFFICES ASSUME RInv, DropEvaluation PROVE Order'
  OBVIOUS
<1>1. /\ UNCHANGED <<serverVars, evaluated, pages>> /\ queue # <<>>
      /\ queue' = Tail(queue) /\ Head(queue).inst \notin pages
  BY DEF DropEvaluation, MainReady, mainVars
<1> QED BY <1>1, OtherHandled

\* The script that is evaluated next in a page is the next one of its client.
LEMMA NextScript ==
    ASSUME RInv, EvaluateJavaScript
    PROVE  /\ Head(queue).inst \in pages /\ Head(queue).inst \in Sessions
           /\ Head(queue).by = Head(queue).inst
           /\ Head(queue).req = Len(evaluated[Head(queue).inst]) + 1
<1> DEFINE e == Head(queue)
           i == e.inst
           script == [by |-> e.by, req |-> e.req]
<1>1. /\ queue # <<>> /\ e.op = "eval" /\ i \in pages
      /\ evaluated' = [evaluated EXCEPT ![i] = Append(@, script)]
  BY DEF EvaluateJavaScript, MainReady
<1>2. /\ e = queue[1] /\ 1 \in 1..Len(queue) /\ e \in Event
      /\ i \in Sessions /\ e.by \in Sessions /\ e.req \in 0..MaxRequests
      /\ evaluated[i] \in Seq(Script) /\ Len(evaluated[i]) \in Nat
      /\ MaxRequests \in Nat
  <2>1. e = queue[1] /\ 1 \in 1..Len(queue) /\ e \in Event
    BY <1>1, Types DEF RInv
  <2>2. i \in Sessions
    BY <1>1, <2>1 DEF RInv, IInv, QueueBounds
  <2>3. e.by \in Sessions /\ e.req \in 0..MaxRequests
    BY <2>1 DEF Event
  <2>4. evaluated[i] \in Seq(Script) /\ Len(evaluated[i]) \in Nat
    BY <2>2, Types DEF RInv
  <2> QED BY <2>1, <2>2, <2>3, <2>4, SocketServerAssumption DEF SocketServerAssumption
<1>3. e.by = i
  <2> DEFINE n == Len(evaluated[i]) + 1
  <2>1. Isolation'
    BY EvaluateJavaScriptStep DEF RInv, IInv
  <2>2. script \in Script
    BY <1>1, <1>2 DEF RInv, IInv, QueueBounds, Script
  <2>3. evaluated'[i] = Append(evaluated[i], script)
    BY <1>1, <1>2, Types DEF RInv
  <2>4. n \in 1..Len(evaluated'[i]) /\ evaluated'[i][n] = script
    <3> HIDE DEF script, i
    <3> QED BY <1>2, <2>2, <2>3, AppendProperties
  <2>5. evaluated'[i][n].by = i
    BY <1>2, <2>1, <2>4 DEF Isolation
  <2> QED BY <2>4, <2>5
<1>4. Len(evaluated[i]) < e.req
  BY <1>1, <1>2, <1>3 DEF RInv, Order, New
<1>5. ASSUME e.req # Len(evaluated[i]) + 1 PROVE FALSE
  <2> DEFINE n == Len(evaluated[i]) + 1
  <2>1. n \in 1..MaxRequests /\ n < e.req
    BY <1>2, <1>4, <1>5
  <2>2. Awaited(queue, i, n)
    BY <1>1, <1>2, <1>3, <2>1 DEF RInv, Order, NoGap
  <2>3. PICK k \in 1..Len(queue) : /\ queue[k].op = "eval" /\ queue[k].inst = i
                                   /\ queue[k].by = i /\ queue[k].req = n
    BY <2>2 DEF Awaited
  <2>4. 1 < k
    BY <1>2, <2>1, <2>3
  <2>5. e.req < n
    BY <1>1, <1>2, <1>3, <2>3, <2>4 DEF RInv, Order, InOrder
  <2> QED BY <1>2, <2>1, <2>5
<1> QED BY <1>1, <1>2, <1>3, <1>5

LEMMA OrderEvaluateJavaScript == RInv /\ EvaluateJavaScript => Order'
<1> SUFFICES ASSUME RInv, EvaluateJavaScript PROVE Order'
  OBVIOUS
<1> DEFINE e == Head(queue)
           i == e.inst
           script == [by |-> e.by, req |-> e.req]
<1>1. /\ UNCHANGED <<serverVars, pages>> /\ queue # <<>> /\ queue' = Tail(queue)
      /\ e.op = "eval" /\ i \in pages
      /\ evaluated' = [evaluated EXCEPT ![i] = Append(@, script)]
  BY DEF EvaluateJavaScript, MainReady
<1>2. /\ i \in Sessions /\ e.by = i /\ e.req = Len(evaluated[i]) + 1
  BY NextScript
<1>3. /\ Len(queue) \in Nat /\ Len(queue) >= 1 /\ e = queue[1] /\ 1 \in 1..Len(queue)
      /\ Len(queue') = Len(queue) - 1
      /\ \A k \in 1..Len(queue') : k + 1 \in 1..Len(queue) /\ queue'[k] = queue[k + 1]
  BY <1>1, AfterHandle DEF RInv
<1>4. UNCHANGED <<pc, session, webpage, requested>>
  BY <1>1 DEF serverVars
<1>5. /\ \A s \in Sessions : s # i => evaluated'[s] = evaluated[s]
      /\ Len(evaluated'[i]) = e.req /\ e.req \in Nat
  <2>1. evaluated'[i] = Append(evaluated[i], script)
    BY <1>1, <1>2, Types DEF RInv
  <2>2. script \in Script
    BY <1>1, <1>2, <1>3, Types DEF RInv, IInv, QueueBounds, Script
  <2>3. Len(evaluated'[i]) = Len(evaluated[i]) + 1 /\ Len(evaluated[i]) \in Nat
    <3> HIDE DEF script, i
    <3> QED BY <1>2, <2>1, <2>2, Types, AppendProperties DEF RInv
  <2> QED BY <1>1, <1>2, <2>3, Types DEF RInv
<1>6. \A k \in 1..Len(queue') :
          queue'[k].op = "eval" /\ queue'[k].by = i => e.req < queue'[k].req
  <2> SUFFICES ASSUME NEW k \in 1..Len(queue'), queue'[k].op = "eval", queue'[k].by = i
               PROVE  e.req < queue'[k].req
    OBVIOUS
  <2>1. 1 < k + 1
    OBVIOUS
  <2> QED BY <1>1, <1>2, <1>3, <2>1 DEF RInv, Order, InOrder
<1>7. Unsent'
  BY <1>4 DEF RInv, Order, Unsent
<1>8. InOrder'
  <2> SUFFICES ASSUME NEW j \in 1..Len(queue'), NEW k \in 1..Len(queue'), j < k,
                      queue'[j].op = "eval", queue'[k].op = "eval",
                      queue'[j].by = queue'[k].by
               PROVE  queue'[j].req < queue'[k].req
    BY DEF InOrder
  <2>1. j + 1 < k + 1
    OBVIOUS
  <2> QED BY <1>3, <2>1 DEF RInv, Order, InOrder
<1>9. New'
  <2>1. \A s \in Sessions : Len(evaluated'[s]) <= requested[s]
    BY <1>1, <1>2, <1>3, <1>5 DEF RInv, Order, New
  <2>2. ASSUME NEW k \in 1..Len(queue'), queue'[k].op = "eval"
        PROVE  /\ queue'[k].req <= requested[queue'[k].by]
               /\ queue'[k].inst = queue'[k].by
                      => Len(evaluated'[queue'[k].by]) < queue'[k].req
    <3>1. queue'[k].by \in Sessions
      BY <1>3, Types DEF RInv
    <3> QED BY <1>3, <1>5, <1>6, <2>2, <3>1 DEF RInv, Order, New
  <2> QED BY <1>4, <2>1, <2>2 DEF New
<1>10. ASSUME NEW s \in Sessions, NEW n \in 1..MaxRequests, Awaited(queue, s, n),
              s = i => n # e.req
       PROVE  Awaited(queue', s, n)
  <2>1. PICK k \in 1..Len(queue) : /\ queue[k].op = "eval" /\ queue[k].inst = s
                                   /\ queue[k].by = s /\ queue[k].req = n
    BY <1>10 DEF Awaited
  <2>2. k # 1
    BY <1>2, <1>3, <1>10, <2>1
  <2>3. k - 1 \in 1..Len(queue') /\ queue'[k - 1] = queue[k]
    BY <1>3, <2>2
  <2> QED BY <2>1, <2>3 DEF Awaited
\* Of the page of i, what is waited for now was waited for before, and is not e.
<1>11. \A s \in Sessions : \A n \in 1..MaxRequests :
           Len(evaluated'[s]) < n => Len(evaluated[s]) < n /\ (s = i => n # e.req)
  BY <1>2, <1>5, Types DEF RInv
<1>12. NoGap'
  <2> SUFFICES ASSUME NEW k \in 1..Len(queue'), NEW n \in 1..MaxRequests,
                      queue'[k].op = "eval", queue'[k].inst = queue'[k].by,
                      queue'[k].by \in pages,
                      Len(evaluated'[queue'[k].by]) < n, n <= queue'[k].req
               PROVE  Awaited(queue', queue'[k].by, n)
    BY <1>1 DEF NoGap
  <2>1. queue'[k].by \in Sessions
    BY <1>3, Types DEF RInv
  <2>2. Awaited(queue, queue'[k].by, n)
    BY <1>3, <1>11, <2>1 DEF RInv, Order, NoGap
  <2> QED BY <1>10, <1>11, <2>1, <2>2
<1>13. AllQueued'
  <2> SUFFICES ASSUME NEW n \in 1..MaxRequests, pc = "serve", webpage = session,
                      session \in pages, Len(evaluated'[session]) < n,
                      n <= requested[session]
               PROVE  Awaited(queue', session, n)
    BY <1>1, <1>4 DEF AllQueued
  <2>1. session \in Sessions
    BY Types DEF RInv
  <2>2. Awaited(queue, session, n)
    BY <1>11, <2>1 DEF RInv, Order, AllQueued
  <2> QED BY <1>10, <1>11, <2>1, <2>2
<1> QED BY <1>7, <1>8, <1>9, <1>12, <1>13 DEF Order

LEMMA NextOrder == RInv /\ [Next]_vars => Order'
<1> SUFFICES ASSUME RInv, [Next]_vars PROVE Order'
  OBVIOUS
<1>1. CASE Connect
  BY <1>1, QueueStays DEF Connect, mainVars
<1>2. CASE FindInstance \/ FetchInstance \/ MapRace \/ Disconnect
  BY <1>2, QueueStays
     DEF FindInstance, FetchInstance, MapRace, Disconnect, mainVars, serverVars
<1>3. CASE AssignInstance \/ ScriptReturns \/ PhantomExit
  BY <1>3, QueueStays DEF AssignInstance, ScriptReturns, PhantomExit, serverVars
<1>4. CASE \E i \in Sessions : ConsoleMessage(i)
  BY <1>4, QueueStays DEF ConsoleMessage, serverVars, mainVars
<1>5. CASE UNCHANGED vars
  BY <1>5, QueueStays DEF vars, serverVars, mainVars
<1> QED BY <1>1, <1>2, <1>3, <1>4, <1>5, OrderAccept, OrderAttachInstance,
           OrderEvaluateRequest, OrderClientDisconnected, OrderCreateInstance,
           OrderDeleteInstance, OrderEvaluateJavaScript, OrderDropEvaluation
        DEF Next, ServerThread, MainThread

-----------------------------------------------------------------------------
(* The refinement *)

\* The scripts that a session sends to its own page are evaluated in the order
\* and number in which it sent them, and none is sent before it is attached.
THEOREM OrderInvariance == Spec => []RInv
<1>1. Init => RInv
  BY InitIInv, OrderInit DEF RInv
<1>2. RInv /\ [Next]_vars => RInv'
  BY NextIInv, NextOrder DEF RInv
<1> QED BY <1>1, <1>2, PTL DEF Spec

\* The variables of Sandboxes.
abstract == <<[i \in Sessions |-> Life(i)], evaluated>>

LEMMA AbstractInit == Init => Abstract!Init
<1> SUFFICES ASSUME Init PROVE Abstract!Init
  OBVIOUS
<1>1. \A i \in Sessions : Life(i) = "none"
  BY SocketServerAssumption DEF Init, Life, Sessions, SocketServerAssumption
<1> QED BY <1>1 DEF Init, Abstract!Init, Abstract!Clients, Sessions

\* createPhantomJSInstance gives the next client a sandbox, when all before it
\* are gone.
LEMMA AbstractCreate == RInv /\ CreateInstance => Abstract!Next
<1> SUFFICES ASSUME RInv, CreateInstance PROVE Abstract!Next
  OBVIOUS
<1> DEFINE i == created + 1
<1>1. /\ queue # <<>> /\ Head(queue).op = "create" /\ created' = i
      /\ live' = live \cup {i} /\ UNCHANGED evaluated
  BY DEF CreateInstance, MainReady
<1>2. i \in Sessions /\ destroyed = created
  BY <1>1, HeadCreate DEF RInv
<1>3. live = {} /\ created \in Nat
  BY <1>2, Types DEF RInv, IInv, Counters, Sessions
<1>4. \A j \in Sessions : /\ Life(j) = IF j < i THEN "gone" ELSE "none"
                          /\ Life(j)' = IF j = i THEN "live" ELSE Life(j)
  BY <1>1, <1>3 DEF Life, Sessions
<1>5. Abstract!Create(i)
  BY <1>1, <1>2, <1>4 DEF Abstract!Create, Abstract!Clients, Sessions
<1> QED BY <1>2, <1>5 DEF Abstract!Next, Abstract!Clients, Sessions

\* deletePhantomJSInstance takes the sandbox of the client that is served or was
\* served last.
LEMMA AbstractDestroy == RInv /\ DeleteInstance => Abstract!Next
<1> SUFFICES ASSUME RInv, DeleteInstance PROVE Abstract!Next
  OBVIOUS
<1> DEFINE i == created
<1>1. /\ queue # <<>> /\ Head(queue).op = "delete" /\ ~assigning
      /\ live' = live \ {IF mapped THEN mapVal ELSE 0}
      /\ UNCHANGED <<evaluated, created>>
  BY DEF DeleteInstance, MainReady
<1>2. i \in Sessions /\ created = destroyed + 1
  BY <1>1, HeadDelete DEF RInv
<1>3. live = {i} /\ created \in Nat
  BY <1>2, Types DEF RInv, IInv, Counters, Sessions
<1>4. mapped /\ mapVal = i
  BY <1>1, <1>2, Types DEF RInv, IInv, MapInv
<1>5. \A j \in Sessions : /\ Life(i) = "live"
                          /\ Life(j)' = IF j = i THEN "gone" ELSE Life(j)
  BY <1>1, <1>3, <1>4 DEF Life, Sessions
<1>6. Abstract!Destroy(i)
  BY <1>1, <1>2, <1>5 DEF Abstract!Destroy, Abstract!Clients, Sessions
<1> QED BY <1>2, <1>6 DEF Abstract!Next, Abstract!Clients, Sessions

\* An evaluation runs the next script of the client whose sandbox it is.
LEMMA AbstractRun == RInv /\ EvaluateJavaScript => Abstract!Next
<1> SUFFICES ASSUME RInv, EvaluateJavaScript PROVE Abstract!Next
  OBVIOUS
<1> DEFINE e == Head(queue)
           i == e.inst
<1>1. /\ evaluated' = [evaluated EXCEPT ![i] = Append(@, [by |-> e.by, req |-> e.req])]
      /\ UNCHANGED <<live, created>>
  BY DEF EvaluateJavaScript
<1>2. i \in pages /\ i \in Sessions /\ e.by = i /\ e.req = Len(evaluated[i]) + 1
  BY NextScript
<1>3. Life(i) = "live" /\ \A j \in Sessions : Life(j)' = Life(j)
  BY <1>1, <1>2 DEF Life, RInv, IInv, Counters
<1>4. evaluated' = [evaluated EXCEPT
                       ![i] = Append(@, [by |-> i, req |-> Len(@) + 1])]
  BY <1>1, <1>2
<1>5. Abstract!Run(i)
  BY <1>2, <1>3, <1>4 DEF Abstract!Run, Abstract!Clients, Sessions
<1> QED BY <1>2, <1>5 DEF Abstract!Next, Abstract!Clients, Sessions

\* Every other step leaves the sandboxes as they are.
LEMMA AbstractStep == RInv /\ [Next]_vars => [Abstract!Next]_abstract
<1> SUFFICES ASSUME RInv, [Next]_vars PROVE [Abstract!Next]_abstract
  OBVIOUS
<1>1. CASE CreateInstance \/ DeleteInstance \/ EvaluateJavaScript
  BY <1>1, AbstractCreate, AbstractDestroy, AbstractRun
<1>2. CASE UNCHANGED <<live, created, evaluated>>
  BY <1>2 DEF abstract, Life
<1>3. CASE Connect \/ ServerThread \/ UNCHANGED vars
  <2>1. UNCHANGED <<live, created, evaluated>>
    BY <1>3 DEF Connect, ServerThread, Accept, FindInstance, FetchInstance, MapRace,
                AttachInstance, EvaluateRequest, ClientDisconnected, Disconnect,
                vars, mainVars
  <2> QED BY <1>2, <2>1
<1>4. CASE \/ AssignInstance \/ DropEvaluation \/ ScriptReturns \/ PhantomExit
           \/ \E i \in Sessions : ConsoleMessage(i)
  <2>1. UNCHANGED <<live, created, evaluated>>
    BY <1>4 DEF AssignInstance, DropEvaluation, ScriptReturns, PhantomExit,
                ConsoleMessage, mainVars
  <2> QED BY <1>2, <2>1
<1> QED BY <1>1, <1>3, <1>4 DEF Next, MainThread

\* Seen from the clients, the two threads, the event queue and the unlocked map
\* implement one private sandbox per client, with its scripts in order, for any
\* number of clients and scripts.
THEOREM ImplementsSandboxesHolds == Spec => ImplementsSandboxes
<1> QED BY AbstractInit, AbstractStep, OrderInvariance, PTL
        DEF Spec, ImplementsSandboxes, Abstract!Spec, abstract
=============================================================================
