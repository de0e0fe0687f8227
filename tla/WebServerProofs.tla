-------------------------- MODULE WebServerProofs --------------------------
(***************************************************************************)
(* The safety properties of the web server, for every number of workers,   *)
(* connections and calls of listenOnPort and every size of the queue.      *)
(*                                                                         *)
(* The argument has three layers.  The socket queue is a ring whose        *)
(* pointers stay within twice its size (QueueIsFIFO).  Connections are     *)
(* numbered in the order of accept(), the queue keeps that order and a     *)
(* worker takes the oldest one, so no two workers ever serve the same      *)
(* (Arrivals).  The responses on the stacks are those of the workers       *)
(* inside handleRequest; until the server closes, a response ends only     *)
(* after the script has closed it (Responses, ScriptKnows, Closing).            *)
(***************************************************************************)
EXTENDS WebServer, SequenceTheorems, FiniteSetTheorems, TLAPS

Serving == {"emit", "acquire", "woken"}
Busy    == Serving \cup {"request"}

\* The workers that have not returned from worker_thread.
Running == {w \in Workers : wpc[w] # "exited"}

\* produce_socket holds the connection accepted last.
Producing == apc \in {"produce", "full"}

\* Connection r has been accepted before all that nobody has taken.
TakenBefore(r) ==
    /\ r <= accepted
    /\ Producing => r < accepted
    /\ \A k \in 1..Len(fifo) : r < fifo[k]

Elements(s) == {s[k] : k \in 1..Len(s)}
Distinct(s) == \A j, k \in 1..Len(s) : s[j] = s[k] => j = k

\* The connections are queued and taken in the order of their numbers, each by
\* one worker.
Arrivals ==
    /\ Producing => accepted >= 1
    /\ \A k \in 1..Len(fifo) : /\ fifo[k] <= accepted
                               /\ Producing => fifo[k] < accepted
    /\ \A j, k \in 1..Len(fifo) : j < k => fifo[j] < fifo[k]
    /\ \A w \in Workers : TakenBefore(conn[w])
    /\ \A v, w \in Workers : conn[v] = conn[w] => v = w \/ conn[v] = 0
    /\ \A w \in Workers : wpc[w] \in Busy => conn[w] # 0

\* num_threads counts the workers; stop_flag 2 means that all have left.
Threads ==
    /\ threads = Cardinality(Running)
    /\ stop = 2 => apc = "exited" /\ Running = {}
    /\ StopJoins
    /\ mpc # "js" => up

\* The responses on the stacks, and the list of them until close() is called.
Responses ==
    /\ alive = {conn[w] : w \in {v \in Workers : wpc[v] \in Serving}}
    /\ ~closing => /\ Elements(pending) = alive
                   /\ Len(pending) = Cardinality(alive)
                   /\ Distinct(pending)

\* A response the script has not closed is on a stack, and so is one whose
\* signal is still posted; a response that is not yet posted is unknown.
ScriptKnows ==
    ~closing =>
        /\ ~fault
        /\ handled \ scripted \subseteq alive
        /\ Distinct(events)
        /\ \A k \in 1..Len(events) : events[k] \in alive /\ events[k] \notin handled
        /\ \A h \in handled : TakenBefore(h)
        /\ \A w \in Workers :
               wpc[w] \in {"request", "emit"} =>
                   /\ conn[w] \notin handled
                   /\ \A k \in 1..Len(events) : events[k] # conn[w]

\* Response r may end: its semaphore has been released.
Woken(r) == released[r] > 0 \/ \E w \in Workers : wpc[w] = "woken" /\ conn[w] = r

\* What close() has still to close, the first time it runs, is on a stack or the
\* script has closed it.
Closing ==
    /\ mpc # "js" => closing
    /\ listens = 0 => ~closing /\ ~up
    /\ listens = 1 /\ mpc = "js" /\ up => ~closing
    /\ ~closing => \A r \in Connections : Woken(r) => r \in scripted
    /\ listens = 1 /\ mpc = "closing" =>
           /\ Distinct(toClose)
           /\ \A k \in 1..Len(toClose) : toClose[k] \in alive \cup scripted
           /\ \A r \in Connections :
                  Woken(r) => r \in scripted \/ \A k \in 1..Len(toClose) : toClose[k] # r

IInv == TypeOK /\ QueueIsFIFO /\ Arrivals /\ Threads /\ Responses /\ ScriptKnows
        /\ Closing
-----------------------------------------------------------------------------
(* Helpers of the model *)

LEMMA Modulus ==
    ASSUME NEW n \in Nat
    PROVE  /\ n % QueueSize \in 0..QueueSize - 1
           /\ n < QueueSize => n % QueueSize = n
           /\ n >= QueueSize /\ n < 2 * QueueSize => n % QueueSize = n - QueueSize
<1>1. QueueSize \in Nat \ {0}
  BY WebServerAssumption DEF WebServerAssumption
<1>2. n % QueueSize \in 0..QueueSize - 1
  BY <1>1
<1>3. n < QueueSize => n % QueueSize = n
  BY <1>1
<1>4. n >= QueueSize /\ n < 2 * QueueSize => n % QueueSize = n - QueueSize
  BY <1>1
<1> QED BY <1>2, <1>3, <1>4

\* Positions less than QueueSize apart are in different slots.
LEMMA DistinctSlots ==
    ASSUME NEW x \in Nat, NEW y \in Nat,
           x < y, y < x + QueueSize, y < 2 * QueueSize
    PROVE  x % QueueSize # y % QueueSize
<1>1. QueueSize \in Nat \ {0}
  BY WebServerAssumption DEF WebServerAssumption
<1>2. CASE y < QueueSize
  <2>1. x % QueueSize = x /\ y % QueueSize = y
    BY <1>1, <1>2, Modulus
  <2> QED BY <2>1
<1>3. CASE x < QueueSize /\ y >= QueueSize
  <2>1. x % QueueSize = x /\ y % QueueSize = y - QueueSize
    BY <1>1, <1>3, Modulus
  <2> QED BY <1>1, <1>3, <2>1
<1>4. CASE x >= QueueSize
  <2>1. x < 2 * QueueSize /\ y >= QueueSize
    BY <1>1, <1>4
  <2>2. x % QueueSize = x - QueueSize
    BY <1>4, <2>1, Modulus
  <2>3. y % QueueSize = y - QueueSize
    BY <2>1, Modulus
  <2> QED BY <1>1, <2>2, <2>3
<1> QED BY <1>1, <1>2, <1>3, <1>4

\* Without removes the only occurrence of r, and keeps the others in order.
LEMMA WithoutRemoves ==
    ASSUME NEW S, NEW s \in Seq(S), Distinct(s), NEW r
    PROVE  /\ Without(s, r) \in Seq(S) /\ Distinct(Without(s, r))
           /\ Elements(Without(s, r)) = Elements(s) \ {r}
           /\ (\E k \in 1..Len(s) : s[k] = r) => Len(Without(s, r)) = Len(s) - 1
           /\ ~(\E k \in 1..Len(s) : s[k] = r) => Without(s, r) = s
<1> DEFINE First == {k \in 1..Len(s) : s[k] = r /\ \A j \in 1..k - 1 : s[j] # r}
           t == Without(s, r)
<1>1. Len(s) \in Nat
  OBVIOUS
<1>2. CASE ~\E k \in 1..Len(s) : s[k] = r
  <2>1. First = {}
    BY <1>2
  <2>2. t = s
    BY <2>1 DEF Without
  <2>3. r \notin Elements(s)
    BY <1>2 DEF Elements
  <2> QED BY <1>2, <2>2, <2>3
<1>3. CASE \E k \in 1..Len(s) : s[k] = r
  <2>1. PICK i \in 1..Len(s) : s[i] = r
    BY <1>3
  <2>2. i \in First
    BY <1>1, <2>1 DEF Distinct
  <2> DEFINE k == CHOOSE n \in First : TRUE
             a == SubSeq(s, 1, k - 1)
             b == SubSeq(s, k + 1, Len(s))
  <2>3. k \in First
    BY <2>2
  <2>4. k \in 1..Len(s) /\ s[k] = r
    BY <2>3
  <2>5. t = a \o b
    BY <2>2 DEF Without
  <2> HIDE DEF First, k
  <2>6. /\ a \in Seq(S) /\ Len(a) = k - 1
        /\ \A n \in 1..k - 1 : a[n] = s[n]
    BY <1>1, <2>4, SubSeqProperties
  <2>7. /\ b \in Seq(S) /\ Len(b) = Len(s) - k
        /\ \A n \in 1..Len(s) - k : b[n] = s[k + n]
    <3>1. \A n \in k + 1..Len(s) : s[n] \in S
      BY <1>1, <2>4
    <3>2. k + 1 \in Int /\ Len(s) \in Int
      BY <1>1, <2>4
    <3> QED BY <1>1, <2>4, <3>1, <3>2, SubSeqProperties
  <2> HIDE DEF a, b
  <2>8. /\ t \in Seq(S) /\ Len(t) = Len(s) - 1
        /\ \A n \in 1..Len(s) - 1 : t[n] = IF n < k THEN s[n] ELSE s[n + 1]
    <3>1. /\ a \o b \in Seq(S) /\ Len(a \o b) = Len(a) + Len(b)
          /\ \A n \in 1..Len(a) + Len(b) :
                 (a \o b)[n] = IF n <= Len(a) THEN a[n] ELSE b[n - Len(a)]
      BY <2>6, <2>7, ConcatProperties
    <3>2. ASSUME NEW n \in 1..Len(s) - 1
          PROVE  t[n] = IF n < k THEN s[n] ELSE s[n + 1]
      <4>1. CASE n < k
        <5>1. n \in 1..k - 1 /\ n \in 1..Len(a) + Len(b) /\ n <= Len(a)
          BY <1>1, <2>4, <2>6, <2>7, <4>1
        <5>2. (a \o b)[n] = a[n]
          BY <3>1, <5>1
        <5> QED BY <2>5, <2>6, <4>1, <5>1, <5>2
      <4>2. CASE n >= k
        <5>1. /\ n \in 1..Len(a) + Len(b) /\ ~(n <= Len(a))
              /\ n - Len(a) \in 1..Len(s) - k /\ k + (n - Len(a)) = n + 1
          BY <1>1, <2>4, <2>6, <2>7, <4>2
        <5>2. (a \o b)[n] = b[n - Len(a)]
          BY <3>1, <5>1
        <5>3. b[n - Len(a)] = s[n + 1]
          BY <2>7, <5>1
        <5>4. ~(n < k)
          BY <1>1, <2>4, <4>2
        <5> QED BY <2>5, <5>2, <5>3, <5>4
      <4> QED BY <1>1, <2>4, <4>1, <4>2
    <3> QED BY <1>1, <2>4, <2>5, <2>6, <2>7, <3>1, <3>2
  <2> HIDE DEF t
  <2>9. Distinct(t)
    BY <1>1, <2>4, <2>8 DEF Distinct
  <2>10. {t[n] : n \in 1..Len(t)} \subseteq {s[n] : n \in 1..Len(s)} \ {r}
    BY <1>1, <2>4, <2>8 DEF Distinct
  <2>11. ASSUME NEW n \in 1..Len(s), s[n] # r PROVE s[n] \in {t[m] : m \in 1..Len(t)}
    <3>1. CASE n < k
      BY <1>1, <2>4, <2>8, <3>1
    <3>2. CASE n > k
      <4>1. n - 1 \in 1..Len(t) /\ t[n - 1] = s[n]
        BY <1>1, <2>4, <2>8, <3>2
      <4> QED BY <4>1
    <3> QED BY <1>1, <2>4, <2>11, <3>1, <3>2
  <2>12. Elements(t) = Elements(s) \ {r}
    BY <2>10, <2>11 DEF Elements
  <2> QED BY <1>3, <2>8, <2>9, <2>12 DEF t
<1> QED BY <1>2, <1>3

\* The facts about sequences of connections that the steps use.
LEMMA Shorter ==
    ASSUME NEW S, NEW s \in Seq(S), s # <<>>
    PROVE  /\ Head(s) = s[1] /\ Head(s) \in S /\ 1 \in 1..Len(s)
           /\ Tail(s) \in Seq(S) /\ Len(s) \in Nat \ {0} /\ Len(Tail(s)) = Len(s) - 1
           /\ \A k \in 1..Len(Tail(s)) : Tail(s)[k] = s[k + 1] /\ k + 1 \in 1..Len(s)
<1>1. Len(s) \in Nat \ {0} /\ Head(s) = s[1]
  OBVIOUS
<1> QED BY <1>1, HeadTailProperties

LEMMA Longer ==
    ASSUME NEW S, NEW s \in Seq(S), NEW x \in S
    PROVE  /\ Append(s, x) \in Seq(S) /\ Len(s) \in Nat
           /\ Len(Append(s, x)) = Len(s) + 1
           /\ \A k \in 1..Len(Append(s, x)) :
                  Append(s, x)[k] = IF k = Len(s) + 1 THEN x ELSE s[k]
BY AppendProperties

LEMMA DistinctTail ==
    ASSUME NEW S, NEW s \in Seq(S), s # <<>>, Distinct(s)
    PROVE  /\ Distinct(Tail(s))
           /\ \A k \in 1..Len(Tail(s)) : Tail(s)[k] # Head(s)
BY Shorter DEF Distinct

LEMMA DistinctAppend ==
    ASSUME NEW S, NEW s \in Seq(S), Distinct(s),
           NEW x \in S, \A k \in 1..Len(s) : s[k] # x
    PROVE  Distinct(Append(s, x))
BY Longer DEF Distinct

-----------------------------------------------------------------------------
(* Types *)

\* The bounds that the steps need.
LEMMA Bounds ==
    ASSUME IInv
    PROVE  /\ MaxConnections \in Nat /\ MaxListens \in Nat /\ QueueSize \in Nat \ {0}
           /\ Cardinality(Workers) \in Nat
           /\ Len(fifo) \in Nat /\ head \in Nat /\ tail \in 0..QueueSize
           /\ head = tail + Len(fifo) /\ Len(fifo) <= QueueSize
           /\ accepted \in Nat /\ accepted <= MaxConnections
           /\ Producing => accepted \in Connections
           /\ \A w \in Workers : conn[w] \in Nat
           /\ \A w \in Workers : wpc[w] \in Busy => conn[w] \in Connections
           /\ \A k \in 1..Len(fifo) : fifo[k] \in Connections /\ fifo[k] \in Nat
<1>1. /\ MaxConnections \in Nat /\ MaxListens \in Nat /\ QueueSize \in Nat \ {0}
      /\ Cardinality(Workers) \in Nat
  BY WebServerAssumption, FS_CardinalityType DEF WebServerAssumption
<1>2. /\ Len(fifo) \in Nat /\ head \in Nat /\ tail \in 0..QueueSize
      /\ head = tail + Len(fifo) /\ Len(fifo) <= QueueSize
  BY <1>1 DEF IInv, TypeOK, QueueIsFIFO
<1>3. accepted \in Nat /\ accepted <= MaxConnections
      /\ (Producing => accepted \in Connections)
  BY <1>1 DEF IInv, TypeOK, Arrivals, Connections
<1>4. \A w \in Workers : conn[w] \in Nat /\ (wpc[w] \in Busy => conn[w] \in Connections)
  BY <1>1 DEF IInv, TypeOK, Arrivals, Connections
<1>5. \A k \in 1..Len(fifo) : fifo[k] \in Connections /\ fifo[k] \in Nat
  <2>1. \A k \in 1..Len(fifo) : fifo[k] \in Connections
    BY DEF IInv, TypeOK
  <2> QED BY <1>1, <2>1 DEF Connections
<1> QED BY <1>1, <1>2, <1>3, <1>4, <1>5

\* The conjuncts of TypeOK by thread: scalars of the main thread, responses, and
\* the pool of mongoose.
TypeScalars ==
    /\ mpc \in {"js", "closing", "stopping"}
    /\ listens \in 0..MaxListens
    /\ up \in BOOLEAN /\ closing \in BOOLEAN /\ fault \in BOOLEAN /\ crashed \in BOOLEAN

TypeResponses ==
    /\ pending \in Seq(Connections)
    /\ toClose \in Seq(Connections)
    /\ events \in Seq(Connections)
    /\ handled \subseteq Connections /\ scripted \subseteq handled
    /\ alive \subseteq Connections
    /\ released \in [Connections -> Nat]

Places == {"loop", "consume", "committed", "waiting", "request", "emit", "acquire",
           "woken", "leaving", "exited"}

TypePool ==
    /\ stop \in 0..2
    /\ threads \in 0..Cardinality(Workers)
    /\ slot \in [0..QueueSize - 1 -> 0..MaxConnections]
    /\ head \in 0..2 * QueueSize /\ tail \in 0..QueueSize
    /\ apc \in {"loop", "select", "produce", "full", "leave", "join", "exited"}
    /\ accepted \in 0..MaxConnections
    /\ fifo \in Seq(Connections)
    /\ wpc \in [Workers -> Places]
    /\ conn \in [Workers -> 0..MaxConnections]

LEMMA TypeParts == TypeOK <=> TypeScalars /\ TypeResponses /\ TypePool
<1>1. TypeOK => TypeScalars
  BY DEF TypeOK, TypeScalars
<1>2. TypeOK => TypeResponses
  BY DEF TypeOK, TypeResponses
<1>3. TypeOK => TypePool
  BY DEF TypeOK, TypePool, Places
<1>4. TypeScalars /\ TypeResponses /\ TypePool => TypeOK
  BY DEF TypeOK, TypeScalars, TypeResponses, TypePool, Places
<1> QED BY <1>1, <1>2, <1>3, <1>4

\* The same for the next state.
LEMMA TypePartsNext == TypeScalars' /\ TypeResponses' /\ TypePool' => TypeOK'
BY DEF TypeOK, TypeScalars, TypeResponses, TypePool, Places

\* Each part stays when its variables do.
LEMMA ScalarsStay ==
    TypeScalars /\ UNCHANGED <<mpc, listens, up, closing, fault, crashed>> => TypeScalars'
BY DEF TypeScalars

LEMMA ResponsesStay ==
    TypeResponses /\ UNCHANGED <<pending, toClose, events, handled, scripted, alive, released>>
        => TypeResponses'
BY DEF TypeResponses

LEMMA PoolStays ==
    TypePool /\ UNCHANGED <<stop, threads, slot, head, tail, apc, accepted, fifo, wpc, conn>>
        => TypePool'
BY DEF TypePool

\* A response may be closed at any time.
LEMMA CloseTypes ==
    ASSUME TypeResponses, TypeScalars, NEW r \in Connections, Close(r)
    PROVE  /\ released' \in [Connections -> Nat]
           /\ fault' \in BOOLEAN /\ crashed' \in BOOLEAN
<1>1. released' \in [Connections -> Nat]
  BY DEF TypeResponses, Close
<1>2. fault' \in BOOLEAN
  BY DEF TypeScalars, Close
<1>3. crashed' \in BOOLEAN
  BY DEF TypeScalars, Close
<1> QED BY <1>1, <1>2, <1>3

\* The script keeps the types.
LEMMA ScriptTypes ==
    ASSUME IInv, Script
    PROVE  TypeOK'
<1>1. TypeScalars /\ TypeResponses /\ TypePool
  BY TypeParts DEF IInv
<1>2. TypePool'
  BY <1>1, PoolStays DEF Script, poolVars, masterVars, queueVars
<1>3. CASE NewRequest
  <2>1. Head(events) \in Connections /\ Tail(events) \in Seq(Connections)
    BY <1>1, <1>3, Shorter DEF NewRequest, TypeResponses
  <2>2. TypeScalars'
    <3>1. UNCHANGED <<mpc, listens, up, closing>>
      BY <1>3 DEF NewRequest, responseVars
    <3>2. fault' \in BOOLEAN /\ crashed' \in BOOLEAN
      BY <1>1, <1>3 DEF NewRequest, NoFault, TypeScalars
    <3> QED BY <1>1, <3>1, <3>2 DEF TypeScalars
  <2>3. TypeResponses'
    BY <1>1, <1>3, <2>1 DEF NewRequest, responseVars, TypeResponses
  <2> QED BY <1>2, <2>2, <2>3, TypePartsNext
<1>4. CASE CloseServer
  <2>1. TypeScalars'
    BY <1>1, <1>4 DEF CloseServer, scriptVars, NoFault, TypeScalars
  <2>2. TypeResponses'
    BY <1>1, <1>4 DEF CloseServer, scriptVars, TypeResponses
  <2> QED BY <1>2, <2>1, <2>2, TypePartsNext
<1>5. CASE \E r \in Connections : ScriptCloses(r)
  <2>1. PICK r \in Connections : ScriptCloses(r)
    BY <1>5
  <2>2. /\ Close(r) /\ r \in handled /\ scripted' = scripted \cup {r}
        /\ UNCHANGED <<mpc, up, listens, handled, closing, pending, alive, toClose, events>>
    BY <2>1 DEF ScriptCloses
  <2>3. /\ released' \in [Connections -> Nat]
        /\ fault' \in BOOLEAN /\ crashed' \in BOOLEAN
    BY <1>1, <2>2, CloseTypes
  <2>4. TypeScalars'
    BY <1>1, <2>2, <2>3 DEF TypeScalars
  <2>5. TypeResponses'
    BY <1>1, <2>2, <2>3 DEF TypeResponses
  <2> QED BY <1>2, <2>4, <2>5, TypePartsNext
<1> QED BY <1>3, <1>4, <1>5 DEF Script

\* close() keeps the types.
LEMMA CloseStepTypes ==
    ASSUME IInv, CloseStep
    PROVE  TypeOK'
<1>1. TypeScalars /\ TypeResponses /\ TypePool
  BY TypeParts DEF IInv
<1>2. UNCHANGED <<threads, slot, head, tail, apc, accepted, fifo, wpc, conn>>
  BY DEF CloseStep, poolVars, masterVars, queueVars
<1>3. CASE CloseResponse
  <2>1. /\ Close(Head(toClose)) /\ toClose # <<>> /\ toClose' = Tail(toClose)
        /\ UNCHANGED <<mpc, up, listens, handled, scripted, closing, pending, alive,
                       events, stop>>
    BY <1>3 DEF CloseResponse, scriptVars
  <2>2. Head(toClose) \in Connections /\ Tail(toClose) \in Seq(Connections)
    BY <1>1, <2>1, Shorter DEF TypeResponses
  <2>3. /\ released' \in [Connections -> Nat]
        /\ fault' \in BOOLEAN /\ crashed' \in BOOLEAN
    BY <1>1, <2>1, <2>2, CloseTypes
  <2>4. TypeScalars'
    BY <1>1, <2>1, <2>3 DEF TypeScalars
  <2>5. TypeResponses'
    BY <1>1, <2>1, <2>2, <2>3 DEF TypeResponses
  <2> QED BY <1>1, <1>2, <2>1, <2>4, <2>5, PoolStays, TypePartsNext
<1>4. CASE StopServer
  <2>1. TypeScalars'
    BY <1>1, <1>4 DEF StopServer, scriptVars, responseVars, NoFault, TypeScalars
  <2>2. TypeResponses'
    BY <1>1, <1>4, ResponsesStay DEF StopServer, scriptVars, responseVars
  <2>3. TypePool'
    BY <1>1, <1>2, <1>4 DEF StopServer, TypePool
  <2> QED BY <2>1, <2>2, <2>3, TypePartsNext
<1>5. CASE ServerStopped
  <2>1. TypeScalars'
    BY <1>1, <1>5 DEF ServerStopped, responseVars, NoFault, TypeScalars
  <2>2. TypeResponses'
    BY <1>1, <1>5, ResponsesStay DEF ServerStopped, responseVars
  <2>3. TypePool'
    BY <1>1, <1>2, <1>5, PoolStays DEF ServerStopped
  <2> QED BY <2>1, <2>2, <2>3, TypePartsNext
<1> QED BY <1>3, <1>4, <1>5 DEF CloseStep

\* listenOnPort keeps the types.
LEMMA ListenTypes ==
    ASSUME IInv, ListenOnPort
    PROVE  TypeOK'
<1>1. TypeScalars /\ TypeResponses /\ TypePool
  BY TypeParts DEF IInv
<1>2. TypeScalars'
  BY <1>1, Bounds DEF ListenOnPort, responseVars, NoFault, TypeScalars
<1>3. TypeResponses'
  BY <1>1, ResponsesStay DEF ListenOnPort, responseVars
<1>4. TypePool'
  <2>1. slot' \in [0..QueueSize - 1 -> 0..MaxConnections]
    BY Bounds DEF ListenOnPort, StartThreads
  <2>2. threads' \in 0..Cardinality(Workers) /\ head' \in 0..2 * QueueSize
        /\ tail' \in 0..QueueSize /\ stop' \in 0..2
    BY Bounds DEF ListenOnPort, StartThreads
  <2>3. wpc' \in [Workers -> Places] /\ fifo' \in Seq(Connections)
    BY DEF ListenOnPort, StartThreads, Places
  <2> QED BY <1>1, <2>1, <2>2, <2>3 DEF ListenOnPort, StartThreads, TypePool
<1> QED BY <1>2, <1>3, <1>4, TypePartsNext

\* A worker that sleeps is woken, or nobody is.
LEMMA SignalTypes ==
    ASSUME wpc \in [Workers -> Places], SignalFull
    PROVE  wpc' \in [Workers -> Places]
BY DEF SignalFull, MoveTo, Places

\* The master keeps the types.
LEMMA MasterTypes ==
    ASSUME IInv, Master
    PROVE  TypeOK'
<1>1. TypeScalars /\ TypeResponses /\ TypePool
  BY TypeParts DEF IInv
<1>2. /\ UNCHANGED <<mpc, listens, up, closing, fault, crashed>>
      /\ UNCHANGED <<pending, toClose, events, handled, scripted, alive, released>>
      /\ UNCHANGED <<threads, conn>>
  BY DEF Master, scriptVars, responseVars, NoFault
<1>3. TypeScalars' /\ TypeResponses'
  BY <1>1, <1>2, ScalarsStay, ResponsesStay
<1>4. CASE MasterLoop \/ SelectTimeout \/ QueueFull
  BY <1>1, <1>2, <1>3, <1>4, TypePartsNext
     DEF MasterLoop, SelectTimeout, QueueFull, queueVars, TypePool
<1>5. CASE AcceptNewConnection
  <2>1. accepted' \in 0..MaxConnections
    BY <1>5, Bounds DEF AcceptNewConnection
  <2> QED BY <1>1, <1>2, <1>3, <1>5, <2>1, TypePartsNext
             DEF AcceptNewConnection, queueVars, TypePool
<1>6. CASE ProduceSocket
  <2>1. accepted \in Connections /\ head % QueueSize \in 0..QueueSize - 1
    BY <1>6, Bounds, Modulus DEF ProduceSocket, Producing
  <2>2. slot' \in [0..QueueSize - 1 -> 0..MaxConnections]
    BY <1>1, <1>6, <2>1 DEF ProduceSocket, TypePool, Connections
  <2>3. fifo' \in Seq(Connections)
    BY <1>1, <1>6, <2>1, Longer DEF ProduceSocket, TypePool
  <2>4. head' \in 0..2 * QueueSize
    BY <1>6, Bounds DEF ProduceSocket, Full
  <2>5. wpc' \in [Workers -> Places]
    BY <1>1, <1>6, SignalTypes DEF ProduceSocket, TypePool
  <2> QED BY <1>1, <1>2, <1>3, <1>6, <2>2, <2>3, <2>4, <2>5, TypePartsNext
             DEF ProduceSocket, TypePool
<1>7. CASE StopWorkers
  <2>1. wpc' \in [Workers -> Places]
    BY <1>1, <1>7 DEF StopWorkers, TypePool, Places
  <2> QED BY <1>1, <1>2, <1>3, <1>7, <2>1, TypePartsNext
             DEF StopWorkers, queueVars, TypePool
<1>8. CASE MasterExits
  BY <1>1, <1>2, <1>3, <1>8, TypePartsNext DEF MasterExits, queueVars, TypePool
<1> QED BY <1>4, <1>5, <1>6, <1>7, <1>8 DEF Master

\* The workers keep the types.
LEMMA WorkerTypes ==
    ASSUME IInv, NEW w \in Workers, Worker(w)
    PROVE  TypeOK'
<1>1. TypeScalars /\ TypeResponses /\ TypePool
  BY TypeParts DEF IInv
<1>2. UNCHANGED <<mpc, listens, up, handled, scripted, toClose, stop, fault, crashed>>
  BY DEF Worker, scriptVars, NoFault
<1>3. wpc' \in [Workers -> Places]
  BY <1>1 DEF Worker, WorkerLoop, QueueEmpty, WaitForSocket, StopConsuming, ConsumeSocket,
     RefuseRequest, ListResponse, EmitNewRequest, Acquire, FinishRequest, WorkerExits,
     MoveTo, TypePool, Places
<1>4. TypeScalars'
  <2>1. closing' = closing
    BY DEF Worker, WorkerLoop, QueueEmpty, WaitForSocket, StopConsuming, ConsumeSocket,
       RefuseRequest, ListResponse, EmitNewRequest, Acquire, FinishRequest, WorkerExits,
       responseVars
  <2> QED BY <1>1, <1>2, <2>1, ScalarsStay
<1>5. CASE UNCHANGED poolVars
  <2>1. TypePool'
    BY <1>1, <1>2, <1>3, <1>5 DEF poolVars, masterVars, queueVars, TypePool
  <2>2. CASE \/ WorkerLoop(w) \/ QueueEmpty(w) \/ WaitForSocket(w) \/ StopConsuming(w)
             \/ RefuseRequest(w)
    BY <1>1, <1>2, <1>4, <2>1, <2>2, ResponsesStay, TypePartsNext
       DEF WorkerLoop, QueueEmpty, WaitForSocket, StopConsuming, RefuseRequest, responseVars
  <2>3. CASE ListResponse(w)
    <3>1. conn[w] \in Connections
      BY <2>3, Bounds DEF ListResponse, Busy
    <3>2. pending' \in Seq(Connections) /\ alive' \subseteq Connections
      BY <1>1, <2>3, <3>1, Longer DEF ListResponse, TypeResponses
    <3> QED BY <1>1, <1>2, <1>4, <2>1, <2>3, <3>2, TypePartsNext
               DEF ListResponse, TypeResponses
  <2>4. CASE EmitNewRequest(w)
    <3>1. conn[w] \in Connections
      BY <2>4, Bounds DEF EmitNewRequest, Busy, Serving
    <3>2. events' \in Seq(Connections)
      BY <1>1, <2>4, <3>1, Longer DEF EmitNewRequest, TypeResponses
    <3> QED BY <1>1, <1>2, <1>4, <2>1, <2>4, <3>2, TypePartsNext
               DEF EmitNewRequest, responseVars, TypeResponses
  <2>5. CASE Acquire(w)
    <3>1. conn[w] \in Connections
      BY <2>5, Bounds DEF Acquire, Busy, Serving
    <3>2. released' \in [Connections -> Nat]
      BY <1>1, <2>5, <3>1 DEF Acquire, TypeResponses
    <3> QED BY <1>1, <1>2, <1>4, <2>1, <2>5, <3>2, TypePartsNext DEF Acquire, TypeResponses
  <2>6. CASE FinishRequest(w)
    <3>1. pending' \in Seq(Connections)
      BY <1>1, <2>6, WithoutRemoves DEF FinishRequest, TypeResponses, IInv, Responses
    <3> QED BY <1>1, <1>2, <1>4, <2>1, <2>6, <3>1, TypePartsNext
               DEF FinishRequest, TypeResponses
  <2>7. CASE ConsumeSocket(w) \/ WorkerExits(w)
    BY <1>1, <1>2, <1>4, <2>1, <2>7, ResponsesStay, TypePartsNext
       DEF ConsumeSocket, WorkerExits, responseVars
  <2> QED BY <2>2, <2>3, <2>4, <2>5, <2>6, <2>7 DEF Worker
<1>6. CASE ConsumeSocket(w)
  <2>1. fifo # <<>> /\ Len(fifo) >= 1
    BY <1>6, Bounds DEF ConsumeSocket
  <2>2. fifo' \in Seq(Connections)
    BY <1>1, <1>6, <2>1, Shorter DEF ConsumeSocket, TypePool
  <2>3. tail' \in 0..QueueSize /\ head' \in 0..2 * QueueSize
    <3>1. /\ tail \in 0..QueueSize /\ head \in Nat /\ QueueSize \in Nat \ {0}
          /\ tail < head /\ head <= tail + QueueSize
      BY <2>1, Bounds
    <3>2. tail' = tail + 1 - Wrap /\ head' = head - Wrap
      BY <1>6 DEF ConsumeSocket
    <3> QED BY <3>1, <3>2 DEF Wrap
  <2>4. slot[tail % QueueSize] \in 0..MaxConnections
    BY <1>1, Bounds, Modulus DEF TypePool
  <2>5. conn' \in [Workers -> 0..MaxConnections]
    BY <1>1, <1>6, <2>4 DEF ConsumeSocket, TypePool
  <2>6. TypePool'
    BY <1>1, <1>2, <1>3, <1>6, <2>2, <2>3, <2>5 DEF ConsumeSocket, TypePool
  <2> QED BY <1>1, <1>2, <1>4, <1>6, <2>6, ResponsesStay, TypePartsNext
             DEF ConsumeSocket, responseVars
<1>7. CASE WorkerExits(w)
  <2>1. Running \in SUBSET Workers /\ w \in Running
    BY <1>7 DEF WorkerExits, Running
  <2>2. IsFiniteSet(Running)
    BY <2>1, FS_Subset, WebServerAssumption DEF WebServerAssumption
  <2>3. Cardinality(Running) \in Nat /\ Cardinality(Running) # 0
    BY <2>1, <2>2, FS_CardinalityType, FS_EmptySet
  <2>4. threads' \in 0..Cardinality(Workers)
    <3>1. threads = Cardinality(Running) /\ threads' = threads - 1
      BY <1>7 DEF WorkerExits, IInv, Threads
    <3>2. threads \in 0..Cardinality(Workers) /\ Cardinality(Workers) \in Nat
      BY <1>1, Bounds DEF TypePool
    <3> QED BY <2>3, <3>1, <3>2
  <2>5. TypePool'
    BY <1>1, <1>2, <1>3, <1>7, <2>4 DEF WorkerExits, masterVars, queueVars, TypePool
  <2> QED BY <1>1, <1>2, <1>4, <1>7, <2>5, ResponsesStay, TypePartsNext
             DEF WorkerExits, responseVars
<1> QED BY <1>5, <1>6, <1>7 DEF Worker, WorkerLoop, QueueEmpty, WaitForSocket,
           StopConsuming, RefuseRequest, ListResponse, EmitNewRequest, Acquire, FinishRequest

LEMMA TypesKept == IInv /\ [Next]_vars => TypeOK'
<1> SUFFICES ASSUME IInv, [Next]_vars PROVE TypeOK'
  OBVIOUS
<1>1. CASE UNCHANGED vars
  <2>1. TypeScalars /\ TypeResponses /\ TypePool
    BY TypeParts DEF IInv
  <2> QED BY <1>1, <2>1, ScalarsStay, ResponsesStay, PoolStays, TypePartsNext
             DEF vars, scriptVars, responseVars, masterVars, queueVars
<1> QED BY <1>1, ListenTypes, ScriptTypes, CloseStepTypes, MasterTypes, WorkerTypes DEF Next

-----------------------------------------------------------------------------
(* The socket queue *)

\* Who touches the queue.
LEMMA QueueSteps ==
    [Next]_vars => \/ ListenOnPort
                   \/ Master /\ ProduceSocket
                   \/ \E w \in Workers : Worker(w) /\ ConsumeSocket(w)
                   \/ UNCHANGED queueVars
<1>1. Script \/ CloseStep => UNCHANGED queueVars
  BY DEF Script, CloseStep, poolVars
<1>2. Master => ProduceSocket \/ UNCHANGED queueVars
  BY DEF Master, MasterLoop, SelectTimeout, AcceptNewConnection, QueueFull, StopWorkers,
     MasterExits
<1>3. ASSUME NEW w \in Workers, Worker(w)
      PROVE  ConsumeSocket(w) \/ UNCHANGED queueVars
  BY <1>3 DEF Worker, WorkerLoop, QueueEmpty, WaitForSocket, StopConsuming, RefuseRequest,
     ListResponse, EmitNewRequest, Acquire, FinishRequest, WorkerExits, poolVars
<1> QED BY <1>1, <1>2, <1>3 DEF Next, vars

\* A socket goes to a slot that holds none of the queued ones.
LEMMA ProduceKeepsRing ==
    ASSUME IInv, ProduceSocket
    PROVE  QueueIsFIFO'
<1> DEFINE n == Len(fifo)
<1>1. /\ n \in Nat /\ n < QueueSize /\ tail \in 0..QueueSize /\ head = tail + n
      /\ QueueSize \in Nat \ {0} /\ MaxConnections \in Nat
  BY Bounds DEF ProduceSocket, Full
<1>2. /\ slot' = [slot EXCEPT ![head % QueueSize] = accepted] /\ head' = head + 1
      /\ fifo' = Append(fifo, accepted) /\ tail' = tail
  BY DEF ProduceSocket
<1>3. accepted \in Connections /\ fifo \in Seq(Connections)
      /\ DOMAIN slot = 0..QueueSize - 1
  BY Bounds DEF ProduceSocket, Producing, IInv, TypeOK
<1>4. /\ Len(fifo') = n + 1
      /\ \A k \in 1..n + 1 : fifo'[k] = IF k = n + 1 THEN accepted ELSE fifo[k]
  BY <1>2, <1>3, Longer
<1>5. head' - tail' = Len(fifo') /\ Len(fifo') <= QueueSize
  BY <1>1, <1>2, <1>4
<1>6. ASSUME NEW i \in 1..n + 1
      PROVE  slot'[(tail + i - 1) % QueueSize] = fifo'[i]
  <2>1. CASE i = n + 1
    <3>1. tail + i - 1 = head /\ head \in Nat
      BY <1>1, <2>1
    <3>2. head % QueueSize \in 0..QueueSize - 1
      BY <3>1, Modulus
    <3> QED BY <1>2, <1>3, <1>4, <2>1, <3>1, <3>2
  <2>2. CASE i # n + 1
    <3>1. i \in 1..n /\ fifo'[i] = fifo[i]
      BY <1>1, <1>4, <2>2
    <3>2. (tail + i - 1) % QueueSize # head % QueueSize
      <4> DEFINE x == tail + i - 1
      <4>1. /\ x \in Nat /\ head \in Nat /\ x < head /\ head < x + QueueSize
            /\ head < 2 * QueueSize
        BY <1>1, <3>1
      <4> HIDE DEF x
      <4>2. x % QueueSize # head % QueueSize
        BY <4>1, DistinctSlots
      <4> QED BY <4>2 DEF x
    <3>3. slot[(tail + i - 1) % QueueSize] = fifo[i]
      BY <3>1 DEF IInv, QueueIsFIFO
    <3>4. tail + i - 1 \in Nat
      BY <1>1, <3>1
    <3>5. (tail + i - 1) % QueueSize \in 0..QueueSize - 1
      BY <3>4, Modulus
    <3> HIDE DEF n
    <3> QED BY <1>2, <1>3, <3>1, <3>2, <3>3, <3>5
  <2> QED BY <2>1, <2>2
<1> QED BY <1>2, <1>4, <1>5, <1>6 DEF QueueIsFIFO

\* The oldest socket is taken; wrapping the pointers does not move the others.
LEMMA ConsumeKeepsRing ==
    ASSUME IInv, NEW w \in Workers, ConsumeSocket(w)
    PROVE  /\ QueueIsFIFO'
           /\ fifo # <<>> /\ conn' = [conn EXCEPT ![w] = fifo[1]]
<1> DEFINE n == Len(fifo)
<1>1. /\ n \in Nat /\ 1 <= n /\ n <= QueueSize /\ tail \in 0..QueueSize
      /\ head = tail + n /\ QueueSize \in Nat \ {0}
  BY Bounds DEF ConsumeSocket
<1>2. /\ tail' = tail + 1 - Wrap /\ head' = head - Wrap /\ fifo' = Tail(fifo)
      /\ conn' = [conn EXCEPT ![w] = slot[tail % QueueSize]] /\ slot' = slot
  BY DEF ConsumeSocket
<1>3. fifo \in Seq(Connections) /\ fifo # <<>>
  BY <1>1 DEF IInv, TypeOK
<1>4. /\ Len(fifo') = n - 1
      /\ \A k \in 1..n - 1 : fifo'[k] = fifo[k + 1]
  BY <1>2, <1>3, Shorter
<1>5. head' - tail' = Len(fifo') /\ Len(fifo') <= QueueSize
  BY <1>1, <1>2, <1>4 DEF Wrap
<1>6. ASSUME NEW i \in 1..n - 1
      PROVE  slot'[(tail' + i - 1) % QueueSize] = fifo'[i]
  <2> DEFINE x == tail + i
  <2>1. x \in Nat /\ x < 2 * QueueSize /\ i + 1 \in 1..n
    BY <1>1
  <2>2. slot[(tail + (i + 1) - 1) % QueueSize] = fifo[i + 1]
    BY <2>1 DEF IInv, QueueIsFIFO
  <2>3. tail + (i + 1) - 1 = x
    BY <1>1
  <2>4. (tail' + i - 1) % QueueSize = x % QueueSize
    <3>1. CASE tail + 1 > QueueSize
      <4>1. /\ tail' + i - 1 = x - QueueSize /\ x - QueueSize \in Nat
            /\ x >= QueueSize /\ x - QueueSize < QueueSize
        BY <1>1, <1>2, <3>1 DEF Wrap
      <4> HIDE DEF x
      <4> QED BY <2>1, <4>1, Modulus
    <3>2. CASE tail + 1 <= QueueSize
      <4>1. tail' + i - 1 = x
        BY <1>1, <1>2, <3>2 DEF Wrap
      <4> QED BY <4>1
    <3> QED BY <1>1, <3>1, <3>2
  <2> QED BY <1>2, <1>4, <2>2, <2>3, <2>4
<1>7. slot[tail % QueueSize] = fifo[1]
  <2>1. 1 \in 1..n /\ tail + 1 - 1 = tail
    BY <1>1
  <2> QED BY <2>1 DEF IInv, QueueIsFIFO
<1> QED BY <1>2, <1>3, <1>4, <1>5, <1>6, <1>7 DEF QueueIsFIFO

LEMMA RingKept == IInv /\ [Next]_vars => QueueIsFIFO'
<1> SUFFICES ASSUME IInv, [Next]_vars PROVE QueueIsFIFO'
  OBVIOUS
<1>1. CASE ListenOnPort
  <2>1. head' = 0 /\ tail' = 0 /\ fifo' = <<>>
    BY <1>1 DEF ListenOnPort, StartThreads
  <2>2. Len(fifo') = 0 /\ QueueSize \in Nat
    BY <2>1, Bounds
  <2> QED BY <2>1, <2>2 DEF QueueIsFIFO
<1>2. CASE UNCHANGED queueVars
  BY <1>2 DEF queueVars, IInv, QueueIsFIFO
<1> QED BY <1>1, <1>2, QueueSteps, ProduceKeepsRing, ConsumeKeepsRing

-----------------------------------------------------------------------------
(* The order of the connections *)

\* Steps in which no connection is accepted, queued or taken.
LEMMA ArrivalsStay ==
    ASSUME Arrivals, UNCHANGED <<accepted, fifo, conn>>, Producing' => Producing,
           \A w \in Workers : wpc'[w] \in Busy => wpc[w] \in Busy
    PROVE  Arrivals'
<1>1. \A r : TakenBefore(r) => TakenBefore(r)'
  BY DEF TakenBefore
<1> QED BY <1>1 DEF Arrivals

LEMMA AcceptKeepsArrivals ==
    ASSUME IInv, AcceptNewConnection, UNCHANGED conn
    PROVE  Arrivals'
<1>1. /\ accepted' = accepted + 1 /\ fifo' = fifo /\ wpc' = wpc /\ ~Producing
      /\ accepted \in Nat
  BY Bounds DEF AcceptNewConnection, queueVars, Producing
<1>2. \A r \in Nat : TakenBefore(r) => TakenBefore(r)'
  BY <1>1 DEF TakenBefore
<1>3. \A w \in Workers : TakenBefore(conn[w])'
  BY <1>1, <1>2, Bounds DEF IInv, Arrivals
<1>4. \A k \in 1..Len(fifo) : fifo[k] \in Nat /\ fifo[k] <= accepted
  BY Bounds DEF IInv, Arrivals
<1>5. \A k \in 1..Len(fifo') : fifo'[k] <= accepted' /\ (Producing' => fifo'[k] < accepted')
  BY <1>1, <1>4
<1> QED BY <1>1, <1>3, <1>5 DEF IInv, Arrivals

LEMMA ProduceKeepsArrivals ==
    ASSUME IInv, ProduceSocket, UNCHANGED conn
    PROVE  Arrivals'
<1>1. /\ accepted' = accepted /\ fifo' = Append(fifo, accepted)
      /\ Producing /\ ~Producing' /\ SignalFull
  BY DEF ProduceSocket, Producing
<1>2. \A w \in Workers : wpc'[w] \in Busy => wpc[w] \in Busy
  BY <1>1 DEF SignalFull, MoveTo, Busy, Serving, IInv, TypeOK
<1>3. /\ accepted \in Connections /\ fifo \in Seq(Connections)
      /\ accepted \in Nat /\ Len(fifo) \in Nat
  BY <1>1, Bounds DEF IInv, TypeOK
<1>4. /\ Len(fifo') = Len(fifo) + 1
      /\ \A k \in 1..Len(fifo) + 1 :
             fifo'[k] = IF k = Len(fifo) + 1 THEN accepted ELSE fifo[k]
  BY <1>1, <1>3, Longer
<1>5. \A k \in 1..Len(fifo) : fifo[k] \in Nat /\ fifo[k] < accepted
  BY <1>1, Bounds DEF IInv, Arrivals
<1>6. \A k \in 1..Len(fifo') : fifo'[k] <= accepted'
  BY <1>1, <1>3, <1>4, <1>5
<1>7. \A j, k \in 1..Len(fifo') : j < k => fifo'[j] < fifo'[k]
  BY <1>3, <1>4, <1>5 DEF IInv, Arrivals
<1>8. \A r \in Nat : TakenBefore(r) => TakenBefore(r)'
  BY <1>1, <1>3, <1>4 DEF TakenBefore
<1>9. \A w \in Workers : TakenBefore(conn[w])'
  BY <1>8, Bounds DEF IInv, Arrivals
<1> QED BY <1>1, <1>2, <1>6, <1>7, <1>9 DEF IInv, Arrivals

LEMMA ConsumeKeepsArrivals ==
    ASSUME IInv, NEW w \in Workers, ConsumeSocket(w)
    PROVE  Arrivals' /\ \A r \in Nat : TakenBefore(r) => TakenBefore(r)'
<1>1. /\ fifo # <<>> /\ conn' = [conn EXCEPT ![w] = fifo[1]] /\ fifo' = Tail(fifo)
      /\ accepted' = accepted /\ (Producing' <=> Producing)
      /\ wpc' = [wpc EXCEPT ![w] = "request"]
  BY ConsumeKeepsRing DEF ConsumeSocket, Producing, MoveTo
<1>2. fifo \in Seq(Connections) /\ Len(fifo) \in Nat \ {0}
      /\ Len(fifo') = Len(fifo) - 1
      /\ \A k \in 1..Len(fifo') : fifo'[k] = fifo[k + 1] /\ k + 1 \in 1..Len(fifo)
  BY <1>1, Shorter DEF IInv, TypeOK
<1>3. \A k \in 1..Len(fifo) : fifo[k] \in Nat /\ fifo[k] # 0
  BY Bounds DEF Connections
<1>4. \A j, k \in 1..Len(fifo) : j < k => fifo[j] < fifo[k]
  BY DEF IInv, Arrivals
<1>5. \A j, k \in 1..Len(fifo') : j < k => fifo'[j] < fifo'[k]
  BY <1>2, <1>4
<1>6. \A r \in Nat : TakenBefore(r) => TakenBefore(r)'
  BY <1>1, <1>2 DEF TakenBefore
<1>7. \A r : r = fifo[1] => TakenBefore(r)'
  <2>1. 1 \in 1..Len(fifo)
    BY <1>2
  <2>2. fifo[1] <= accepted /\ (Producing => fifo[1] < accepted)
    BY <2>1 DEF IInv, Arrivals
  <2>3. \A k \in 1..Len(fifo') : fifo[1] < fifo'[k]
    BY <1>2, <1>4, <2>1
  <2> QED BY <1>1, <2>2, <2>3 DEF TakenBefore
<1>8. \A v \in Workers : conn'[v] = IF v = w THEN fifo[1] ELSE conn[v]
  BY <1>1 DEF IInv, TypeOK
<1>9. \A v \in Workers : TakenBefore(conn[v])'
  <2>1. \A v \in Workers : conn[v] \in Nat /\ TakenBefore(conn[v])
    BY Bounds DEF IInv, Arrivals
  <2>2. \A v \in Workers : \A r : r = conn'[v] => TakenBefore(r)'
    BY <1>6, <1>7, <1>8, <2>1
  <2> QED BY <2>2
<1>10. \A v \in Workers : conn[v] # fifo[1]
  <2>1. 1 \in 1..Len(fifo)
    BY <1>2
  <2>2. \A v \in Workers : conn[v] < fifo[1] /\ conn[v] \in Nat /\ fifo[1] \in Nat
    BY <1>3, <2>1, Bounds DEF IInv, Arrivals, TakenBefore
  <2> QED BY <2>2
<1>11. \A v, u \in Workers : conn'[v] = conn'[u] => v = u \/ conn'[v] = 0
  BY <1>8, <1>10 DEF IInv, Arrivals
<1>12. \A v \in Workers : wpc'[v] \in Busy => conn'[v] # 0
  <2>1. 1 \in 1..Len(fifo)
    BY <1>2
  <2> QED BY <1>1, <1>3, <1>8, <2>1 DEF IInv, Arrivals, TypeOK
<1>13. \A k \in 1..Len(fifo') : fifo'[k] <= accepted' /\ (Producing' => fifo'[k] < accepted')
  BY <1>1, <1>2 DEF IInv, Arrivals
<1>14. Producing' => accepted' >= 1
  BY <1>1 DEF IInv, Arrivals
<1> QED BY <1>5, <1>6, <1>9, <1>11, <1>12, <1>13, <1>14 DEF Arrivals

\* listenOnPort starts with an empty queue.
LEMMA ListenKeepsArrivals ==
    ASSUME IInv, ListenOnPort
    PROVE  Arrivals'
<1>1. /\ accepted' = accepted /\ conn' = conn /\ fifo' = <<>> /\ ~Producing'
      /\ wpc' = [w \in Workers |-> "loop"]
  BY DEF ListenOnPort, StartThreads, Producing
<1>2. Len(fifo') = 0
  BY <1>1
<1>3. \A r : TakenBefore(r) => TakenBefore(r)'
  BY <1>1, <1>2 DEF TakenBefore
<1> QED BY <1>1, <1>2, <1>3 DEF IInv, Arrivals, Busy, Serving

LEMMA ArrivalsKept == IInv /\ [Next]_vars => Arrivals'
<1> SUFFICES ASSUME IInv, [Next]_vars PROVE Arrivals'
  OBVIOUS
<1> USE DEF IInv
<1>1. CASE ListenOnPort
  BY <1>1, ListenKeepsArrivals
<1>2. CASE Script \/ CloseStep \/ UNCHANGED vars
  BY <1>2, ArrivalsStay DEF Script, CloseStep, vars, poolVars, masterVars, queueVars,
     Producing
<1>3. CASE Master
  <2>1. conn' = conn
    BY <1>3 DEF Master
  <2>2. CASE MasterLoop \/ SelectTimeout \/ QueueFull \/ StopWorkers \/ MasterExits
    <3>1. UNCHANGED <<accepted, fifo>> /\ (Producing' => Producing)
      BY <2>2 DEF MasterLoop, SelectTimeout, QueueFull, StopWorkers, MasterExits, queueVars,
         Producing
    <3>2. \A w \in Workers : wpc'[w] \in Busy => wpc[w] \in Busy
      BY <2>2 DEF MasterLoop, SelectTimeout, QueueFull, StopWorkers, MasterExits, queueVars,
         Busy, Serving
    <3> QED BY <2>1, <3>1, <3>2, ArrivalsStay
  <2> QED BY <1>3, <2>1, <2>2, AcceptKeepsArrivals, ProduceKeepsArrivals DEF Master
<1>4. ASSUME NEW w \in Workers, Worker(w) PROVE Arrivals'
  <2>1. CASE ConsumeSocket(w)
    BY <2>1, ConsumeKeepsArrivals
  <2>2. CASE ~ConsumeSocket(w)
    <3>1. UNCHANGED <<accepted, fifo, conn, apc>>
      BY <1>4, <2>2 DEF Worker, WorkerLoop, QueueEmpty, WaitForSocket, StopConsuming,
         RefuseRequest, ListResponse, EmitNewRequest, Acquire, FinishRequest, WorkerExits,
         poolVars, masterVars, queueVars
    <3>2. \A v \in Workers : wpc'[v] \in Busy => wpc[v] \in Busy
      <4>1. wpc \in [Workers -> Places]
        BY TypeParts DEF TypePool
      <4> QED BY <1>4, <2>2, <4>1 DEF Worker, WorkerLoop, QueueEmpty, WaitForSocket,
         StopConsuming, RefuseRequest, ListResponse, EmitNewRequest, Acquire, FinishRequest,
         WorkerExits, MoveTo, Busy, Serving
    <3> QED BY <3>1, <3>2, ArrivalsStay DEF Producing
  <2> QED BY <2>1, <2>2
<1> QED BY <1>1, <1>2, <1>3, <1>4 DEF Next

-----------------------------------------------------------------------------
(* The threads of mongoose *)

\* Steps in which no thread starts or leaves.
LEMMA ThreadsStay ==
    ASSUME Threads, Running' = Running, UNCHANGED <<threads, up, stop>>,
           mpc' # "js" => up, apc = "exited" => apc' = "exited"
    PROVE  Threads'
<1>1. Running = {} <=> \A w \in Workers : wpc[w] = "exited"
  BY DEF Running
<1>2. Running' = {} <=> \A w \in Workers : wpc'[w] = "exited"
  BY DEF Running
<1> QED BY <1>1, <1>2 DEF Threads, StopJoins

\* A worker that leaves is counted out.
LEMMA WorkerExitsKeepsThreads ==
    ASSUME IInv, NEW w \in Workers, Worker(w), WorkerExits(w)
    PROVE  Threads'
<1>1. /\ wpc[w] = "leaving" /\ wpc' = [wpc EXCEPT ![w] = "exited"]
      /\ threads' = threads - 1 /\ UNCHANGED <<mpc, up, stop, apc>>
  BY DEF Worker, WorkerExits, MoveTo, masterVars, scriptVars
<1>2. w \in Running /\ Running' = Running \ {w} /\ Running \in SUBSET Workers
  BY <1>1 DEF Running, IInv, TypeOK
<1>3. Cardinality(Running') = Cardinality(Running) - 1
  BY <1>2, FS_Subset, FS_RemoveElement, WebServerAssumption DEF WebServerAssumption
<1>4. stop # 2 /\ up
  BY <1>1 DEF IInv, Threads, StopJoins, Running
<1> QED BY <1>1, <1>3, <1>4 DEF IInv, Threads, StopJoins

\* The master leaves last.
LEMMA MasterExitsKeepsThreads ==
    ASSUME IInv, Master, MasterExits
    PROVE  Threads'
<1>1. /\ threads = 0 /\ stop' = 2 /\ apc' = "exited"
      /\ UNCHANGED <<mpc, up, threads, wpc>>
  BY DEF Master, MasterExits, WorkersGone, scriptVars
<1>2. IsFiniteSet(Running) /\ Cardinality(Running) = 0
  <2>1. Running \in SUBSET Workers
    BY DEF Running
  <2> QED BY <1>1, <2>1, FS_Subset, WebServerAssumption
          DEF WebServerAssumption, IInv, Threads
<1>3. Running = {} /\ Running' = {}
  BY <1>1, <1>2, FS_EmptySet DEF Running
<1> QED BY <1>1, <1>2, <1>3 DEF IInv, Threads, StopJoins, Running

LEMMA ThreadsKept == IInv /\ [Next]_vars => Threads'
<1> SUFFICES ASSUME IInv, [Next]_vars PROVE Threads'
  OBVIOUS
<1>0. Threads /\ wpc \in [Workers -> Places]
  BY TypeParts DEF IInv, TypePool
<1>1. CASE ListenOnPort
  <2>1. /\ threads' = Cardinality(Workers) /\ stop' = 0 /\ up' = TRUE
        /\ wpc' = [w \in Workers |-> "loop"]
    BY <1>1 DEF ListenOnPort, StartThreads
  <2>2. Running' = Workers
    BY <2>1 DEF Running
  <2> QED BY <2>1, <2>2 DEF Threads, StopJoins
<1>2. CASE Script
  BY <1>0, <1>2, ThreadsStay DEF Script, NewRequest, CloseServer, ScriptCloses, scriptVars,
     poolVars, masterVars, Running, Threads
<1>3. CASE CloseStep
  <2>1. UNCHANGED <<threads, apc, wpc>> /\ Running' = Running
    BY <1>3 DEF CloseStep, poolVars, masterVars, Running
  <2>2. CASE CloseResponse
    BY <1>0, <2>1, <2>2, ThreadsStay DEF CloseResponse, scriptVars, Threads
  <2>3. CASE StopServer
    BY <1>0, <2>1, <2>3 DEF StopServer, scriptVars, Threads, StopJoins
  <2>4. CASE ServerStopped
    BY <1>0, <2>1, <2>4 DEF ServerStopped, Threads, StopJoins, Running
  <2> QED BY <1>3, <2>2, <2>3, <2>4 DEF CloseStep
<1>4. CASE Master
  <2>1. CASE MasterExits
    BY <1>4, <2>1, MasterExitsKeepsThreads
  <2>2. CASE ~MasterExits
    <3>1. UNCHANGED <<mpc, up, threads, stop>> /\ apc # "exited"
      BY <1>4, <2>2 DEF Master, MasterLoop, SelectTimeout, AcceptNewConnection, QueueFull,
         ProduceSocket, StopWorkers, scriptVars
    <3>2. \A w \in Workers : wpc'[w] = "exited" <=> wpc[w] = "exited"
      <4>1. CASE ProduceSocket
        BY <1>0, <4>1 DEF ProduceSocket, SignalFull, MoveTo
      <4>2. CASE StopWorkers
        BY <4>2 DEF StopWorkers
      <4>3. CASE MasterLoop \/ SelectTimeout \/ AcceptNewConnection \/ QueueFull
        BY <4>3 DEF MasterLoop, SelectTimeout, AcceptNewConnection, QueueFull
      <4> QED BY <1>4, <2>2, <4>1, <4>2, <4>3 DEF Master
    <3>3. Running' = Running
      BY <3>2 DEF Running
    <3> QED BY <1>0, <3>1, <3>3, ThreadsStay DEF Threads
  <2> QED BY <2>1, <2>2
<1>5. ASSUME NEW w \in Workers, Worker(w) PROVE Threads'
  <2>1. CASE WorkerExits(w)
    BY <1>5, <2>1, WorkerExitsKeepsThreads
  <2>2. CASE ~WorkerExits(w)
    <3>1. UNCHANGED <<mpc, up, threads, stop>>
      BY <1>5, <2>2 DEF Worker, WorkerLoop, QueueEmpty, WaitForSocket, StopConsuming,
         ConsumeSocket, RefuseRequest, ListResponse, EmitNewRequest, Acquire, FinishRequest,
         poolVars, scriptVars
    <3>2. /\ wpc[w] # "exited"
          /\ \E place \in Places \ {"exited"} : wpc' = [wpc EXCEPT ![w] = place]
      BY <1>5, <2>2 DEF Worker, WorkerLoop, QueueEmpty, WaitForSocket, StopConsuming,
         ConsumeSocket, RefuseRequest, ListResponse, EmitNewRequest, Acquire, FinishRequest,
         MoveTo, Places
    <3>3. Running' = Running
      BY <1>0, <3>2 DEF Running
    <3>4. apc = "exited" => apc' = "exited"
      BY <1>5, <2>2 DEF Worker, WorkerLoop, QueueEmpty, WaitForSocket, StopConsuming,
         ConsumeSocket, RefuseRequest, ListResponse, EmitNewRequest, Acquire, FinishRequest,
         poolVars, masterVars
    <3> QED BY <1>0, <3>1, <3>3, <3>4, ThreadsStay DEF Threads
  <2> QED BY <2>1, <2>2
<1>6. CASE UNCHANGED vars
  BY <1>0, <1>6, ThreadsStay DEF vars, scriptVars, masterVars, Running, Threads
<1> QED BY <1>1, <1>2, <1>3, <1>4, <1>5, <1>6 DEF Next

-----------------------------------------------------------------------------
(* The responses *)

\* Steps that neither list nor end a response.
LEMMA StacksStay ==
    ASSUME Responses, UNCHANGED <<alive, pending>>, closing' = closing \/ closing' = TRUE,
           \A w \in Workers : /\ wpc'[w] \in Serving <=> wpc[w] \in Serving
                              /\ wpc[w] \in Serving => conn'[w] = conn[w]
    PROVE  Responses'
<1>1. {v \in Workers : wpc'[v] \in Serving} = {v \in Workers : wpc[v] \in Serving}
  OBVIOUS
<1>2. alive' = {conn'[w] : w \in {v \in Workers : wpc'[v] \in Serving}}
  BY <1>1 DEF Responses
<1>3. ~closing' => ~closing
  OBVIOUS
<1> QED BY <1>2, <1>3 DEF Responses, Distinct, Elements

\* The response of a worker in handleRequest is that of no other worker.
LEMMA OwnResponse ==
    ASSUME IInv, NEW w \in Workers, wpc[w] \in Busy
    PROVE  /\ conn[w] \in Connections
           /\ \A v \in Workers : v # w => conn[v] # conn[w]
           /\ wpc[w] = "request" => conn[w] \notin alive
           /\ wpc[w] \in Serving => conn[w] \in alive
BY Bounds DEF IInv, Arrivals, Responses, Serving, Busy

LEMMA AliveFinite == ASSUME IInv PROVE IsFiniteSet(alive) /\ Cardinality(alive) \in Nat
<1>1. IsFiniteSet(Connections) /\ alive \in SUBSET Connections
  <2>1. 1 \in Int /\ MaxConnections \in Int
    BY Bounds
  <2>2. IsFiniteSet(Connections)
    BY <2>1, FS_Interval DEF Connections
  <2> QED BY <2>2 DEF IInv, TypeOK
<1> QED BY <1>1, FS_Subset, FS_CardinalityType

LEMMA ListKeepsResponses ==
    ASSUME IInv, NEW w \in Workers, ListResponse(w)
    PROVE  Responses'
<1> DEFINE r == conn[w]
<1>1. /\ wpc[w] = "request" /\ wpc' = [wpc EXCEPT ![w] = "emit"] /\ conn' = conn
      /\ pending' = Append(pending, r) /\ alive' = alive \cup {r} /\ closing' = closing
      /\ ~closing
  BY DEF ListResponse, MoveTo, poolVars, Refuses
<1>2. r \in Connections /\ r \notin alive
  BY <1>1, OwnResponse DEF Busy
<1>3. {v \in Workers : wpc'[v] \in Serving} = {v \in Workers : wpc[v] \in Serving} \cup {w}
  BY <1>1 DEF IInv, TypeOK, Serving
<1>4. alive' = {conn'[v] : v \in {u \in Workers : wpc'[u] \in Serving}}
  BY <1>1, <1>3 DEF IInv, Responses
<1>5. /\ pending \in Seq(Connections) /\ Distinct(pending)
      /\ {pending[k] : k \in 1..Len(pending)} = alive
      /\ Len(pending) = Cardinality(alive)
  BY <1>1 DEF IInv, TypeOK, Responses, Elements
<1>6. /\ Len(pending) \in Nat /\ Len(pending') = Len(pending) + 1
      /\ \A k \in 1..Len(pending') : pending'[k] = IF k = Len(pending) + 1 THEN r ELSE pending[k]
  BY <1>1, <1>2, <1>5, Longer
<1>7. \A k \in 1..Len(pending) : pending[k] # r
  BY <1>2, <1>5
<1>8. Distinct(pending')
  BY <1>5, <1>6, <1>7 DEF Distinct
<1>9. {pending'[k] : k \in 1..Len(pending')} = alive'
  <2>1. {pending'[k] : k \in 1..Len(pending')} \subseteq alive'
    BY <1>1, <1>5, <1>6
  <2>2. ASSUME NEW x \in alive PROVE \E k \in 1..Len(pending') : pending'[k] = x
    BY <1>5, <1>6, <1>7
  <2>3. pending'[Len(pending) + 1] = r /\ Len(pending) + 1 \in 1..Len(pending')
    BY <1>6
  <2> QED BY <1>1, <2>1, <2>2, <2>3
<1>10. Len(pending') = Cardinality(alive')
  <2>1. Cardinality(alive') = Cardinality(alive) + 1
    BY <1>1, <1>2, AliveFinite, FS_AddElement
  <2> QED BY <1>5, <1>6, <2>1
<1> QED BY <1>4, <1>8, <1>9, <1>10 DEF Responses, Elements

LEMMA FinishKeepsResponses ==
    ASSUME IInv, NEW w \in Workers, FinishRequest(w)
    PROVE  Responses'
<1> DEFINE r == conn[w]
<1>1. /\ wpc[w] = "woken" /\ wpc' = [wpc EXCEPT ![w] = "loop"] /\ conn' = conn
      /\ alive' = alive \ {r} /\ closing' = closing
      /\ ~closing => pending' = Without(pending, r)
  BY DEF FinishRequest, MoveTo, poolVars
<1>2. /\ r \in Connections /\ r \in alive
      /\ \A v \in Workers : v # w => conn[v] # r
  BY <1>1, OwnResponse DEF Busy, Serving
<1>3. {v \in Workers : wpc'[v] \in Serving} = {v \in Workers : wpc[v] \in Serving} \ {w}
  BY <1>1 DEF IInv, TypeOK, Serving
<1>4. alive' = {conn'[v] : v \in {u \in Workers : wpc'[u] \in Serving}}
  BY <1>1, <1>2, <1>3 DEF IInv, Responses
<1>5. ASSUME ~closing
      PROVE  /\ Elements(pending') = alive'
             /\ Len(pending') = Cardinality(alive') /\ Distinct(pending')
  <2>1. /\ pending \in Seq(Connections) /\ Distinct(pending)
        /\ Elements(pending) = alive
        /\ Len(pending) = Cardinality(alive)
    BY <1>5 DEF IInv, TypeOK, Responses
  <2>2. \E k \in 1..Len(pending) : pending[k] = r
    BY <1>2, <2>1 DEF Elements
  <2>3. /\ Distinct(pending') /\ Len(pending') = Len(pending) - 1
        /\ Elements(pending') = Elements(pending) \ {r}
    <3> DEFINE t == Without(pending, r)
    <3>1. /\ Distinct(t)
          /\ Elements(t) = Elements(pending) \ {r}
      BY <2>1, WithoutRemoves
    <3>2. Len(t) = Len(pending) - 1
      BY <2>1, <2>2, WithoutRemoves
    <3>3. pending' = t
      BY <1>1, <1>5
    <3> HIDE DEF t
    <3> QED BY <3>1, <3>2, <3>3
  <2>4. Cardinality(alive') = Cardinality(alive) - 1
    BY <1>1, <1>2, AliveFinite, FS_RemoveElement
  <2> QED BY <1>1, <2>1, <2>3, <2>4
<1> QED BY <1>1, <1>4, <1>5 DEF Responses

LEMMA ResponsesKept == IInv /\ [Next]_vars => Responses'
<1> SUFFICES ASSUME IInv, [Next]_vars PROVE Responses'
  OBVIOUS
<1>0. Responses /\ wpc \in [Workers -> Places]
  BY TypeParts DEF IInv, TypePool
<1>1. CASE ListenOnPort
  <2>1. /\ UNCHANGED <<alive, pending, closing, conn>>
        /\ wpc' = [w \in Workers |-> "loop"] /\ ~up
    BY <1>1 DEF ListenOnPort, StartThreads, responseVars
  <2>2. \A w \in Workers : wpc[w] = "exited"
    BY <2>1 DEF IInv, Threads, StopJoins
  <2> QED BY <1>0, <2>1, <2>2, StacksStay DEF Serving
<1>2. CASE Script
  <2>1. UNCHANGED <<alive, pending, wpc, conn>> /\ (closing' = closing \/ closing' = TRUE)
    BY <1>2 DEF Script, NewRequest, CloseServer, ScriptCloses, responseVars, poolVars
  <2> QED BY <1>0, <2>1, StacksStay
<1>3. CASE CloseStep
  <2>1. UNCHANGED <<alive, pending, closing, wpc, conn>>
    BY <1>3 DEF CloseStep, CloseResponse, StopServer, ServerStopped, responseVars, poolVars
  <2> QED BY <1>0, <2>1, StacksStay
<1>4. CASE Master
  <2>1. UNCHANGED <<alive, pending, closing, conn>>
    BY <1>4 DEF Master, responseVars
  <2>2. \A w \in Workers : wpc'[w] \in Serving <=> wpc[w] \in Serving
    <3>1. CASE ProduceSocket
      BY <1>0, <3>1 DEF ProduceSocket, SignalFull, MoveTo, Serving
    <3>2. CASE StopWorkers
      BY <3>2 DEF StopWorkers, Serving
    <3>3. CASE \/ MasterLoop \/ SelectTimeout \/ AcceptNewConnection \/ QueueFull
               \/ MasterExits
      BY <3>3 DEF MasterLoop, SelectTimeout, AcceptNewConnection, QueueFull, MasterExits
    <3> QED BY <1>4, <3>1, <3>2, <3>3 DEF Master
  <2> QED BY <1>0, <2>1, <2>2, StacksStay
<1>5. ASSUME NEW w \in Workers, Worker(w) PROVE Responses'
  <2>1. CASE ListResponse(w) \/ FinishRequest(w)
    BY <2>1, ListKeepsResponses, FinishKeepsResponses
  <2>2. CASE ~(ListResponse(w) \/ FinishRequest(w))
    <3>1. UNCHANGED <<alive, pending, closing>>
      BY <1>5, <2>2 DEF Worker, WorkerLoop, QueueEmpty, WaitForSocket, StopConsuming,
         ConsumeSocket, RefuseRequest, EmitNewRequest, Acquire, WorkerExits, responseVars
    <3>2. \A v \in Workers : wpc'[v] \in Serving <=> wpc[v] \in Serving
      BY <1>0, <1>5, <2>2 DEF Worker, WorkerLoop, QueueEmpty, WaitForSocket, StopConsuming,
         ConsumeSocket, RefuseRequest, EmitNewRequest, Acquire, WorkerExits, MoveTo, Serving
    <3>3. \A v \in Workers : wpc[v] \in Serving => conn'[v] = conn[v]
      <4>1. CASE ConsumeSocket(w)
        BY <4>1 DEF ConsumeSocket, Serving, IInv, TypeOK
      <4>2. CASE ~ConsumeSocket(w)
        BY <1>5, <2>2, <4>2 DEF Worker, WorkerLoop, QueueEmpty, WaitForSocket, StopConsuming,
           RefuseRequest, EmitNewRequest, Acquire, WorkerExits, poolVars
      <4> QED BY <4>1, <4>2
    <3> QED BY <1>0, <3>1, <3>2, <3>3, StacksStay
  <2> QED BY <2>1, <2>2
<1>6. CASE UNCHANGED vars
  BY <1>0, <1>6, StacksStay DEF vars, responseVars
<1> QED BY <1>1, <1>2, <1>3, <1>4, <1>5, <1>6 DEF Next

-----------------------------------------------------------------------------
(* What the script knows *)

\* A connection once taken stays older than those in the queue.
LEMMA TakenBeforeKept ==
    ASSUME IInv, [Next]_vars, NEW r \in Nat, TakenBefore(r)
    PROVE  TakenBefore(r)'
<1>1. CASE ListenOnPort
  <2>1. accepted' = accepted /\ fifo' = <<>> /\ ~Producing'
    BY <1>1 DEF ListenOnPort, StartThreads, Producing
  <2>2. Len(fifo') = 0
    BY <2>1
  <2> QED BY <2>1, <2>2 DEF TakenBefore
<1>2. CASE Master /\ ProduceSocket
  <2>1. /\ accepted' = accepted /\ fifo' = Append(fifo, accepted) /\ Producing /\ ~Producing'
    BY <1>2 DEF ProduceSocket, Producing
  <2>2. fifo \in Seq(Connections) /\ accepted \in Connections
    BY <2>1, Bounds DEF IInv, TypeOK
  <2>3. \A k \in 1..Len(fifo') : fifo'[k] = IF k = Len(fifo) + 1 THEN accepted ELSE fifo[k]
    BY <2>1, <2>2, Longer
  <2>4. Len(fifo') = Len(fifo) + 1 /\ Len(fifo) \in Nat
    BY <2>1, <2>2, Longer
  <2> QED BY <2>1, <2>3, <2>4 DEF TakenBefore
<1>3. CASE \E w \in Workers : Worker(w) /\ ConsumeSocket(w)
  BY <1>3, ConsumeKeepsArrivals
<1>4. CASE UNCHANGED queueVars
  <2>1. fifo' = fifo
    BY <1>4 DEF queueVars
  <2>2. CASE Master /\ AcceptNewConnection
    <3>1. accepted' = accepted + 1 /\ accepted \in Nat
      BY <2>2, Bounds DEF AcceptNewConnection
    <3>2. r < accepted' /\ r <= accepted'
      BY <3>1 DEF TakenBefore
    <3> QED BY <2>1, <3>2 DEF TakenBefore
  <2>3. CASE ListenOnPort
    BY <1>1, <2>3
  <2>4. CASE Master /\ ~AcceptNewConnection
    <3>1. accepted' = accepted /\ (Producing' => Producing)
      BY <2>4 DEF Master, MasterLoop, SelectTimeout, QueueFull, ProduceSocket, StopWorkers,
         MasterExits, Producing
    <3> QED BY <2>1, <3>1 DEF TakenBefore
  <2>5. CASE Script \/ CloseStep \/ UNCHANGED vars
    <3>1. accepted' = accepted /\ (Producing' => Producing)
      BY <2>5 DEF Script, CloseStep, vars, poolVars, masterVars, Producing
    <3> QED BY <2>1, <3>1 DEF TakenBefore
  <2>6. ASSUME NEW w \in Workers, Worker(w) PROVE TakenBefore(r)'
    <3>1. accepted' = accepted /\ (Producing' => Producing)
      BY <2>6 DEF Worker, WorkerLoop, QueueEmpty, WaitForSocket, StopConsuming, ConsumeSocket,
         RefuseRequest, ListResponse, EmitNewRequest, Acquire, FinishRequest, WorkerExits,
         poolVars, masterVars, Producing
    <3> QED BY <2>1, <3>1 DEF TakenBefore
  <2> QED BY <2>2, <2>3, <2>4, <2>5, <2>6 DEF Next
<1> QED BY <1>1, <1>2, <1>3, <1>4, QueueSteps

\* The responses on the stacks and in the signals are numbers of taken
\* connections.
LEMMA AliveTaken ==
    ASSUME IInv
    PROVE  \A r \in alive : r \in Nat /\ TakenBefore(r)
BY Bounds DEF IInv, Arrivals, Responses

\* Steps in which the script learns nothing and no response ends.
LEMMA KnowledgeStays ==
    ASSUME IInv, [Next]_vars, ~closing',
           ~closing' => /\ ~closing /\ UNCHANGED <<fault, handled, scripted, events>>
                        /\ alive \subseteq alive',
           \A w \in Workers : wpc'[w] \in {"request", "emit"} =>
               conn'[w] = conn[w] /\ wpc[w] \in {"request", "emit"}
    PROVE  ScriptKnows'
<1>1. \A h \in handled : h \in Nat /\ TakenBefore(h)
  BY DEF IInv, ScriptKnows, TypeOK, Connections
<1>2. \A h \in handled' : TakenBefore(h)'
  BY <1>1, TakenBeforeKept
<1> QED BY <1>2 DEF IInv, ScriptKnows, Distinct

\* The event loop hands a response over once.
LEMMA NewRequestKeepsKnowledge ==
    ASSUME IInv, Script, NewRequest, ~closing
    PROVE  ScriptKnows'
<1> DEFINE r == Head(events)
<1>1. /\ events # <<>> /\ handled' = handled \cup {r} /\ events' = Tail(events)
      /\ UNCHANGED <<scripted, alive, wpc, conn>>
      /\ r \in alive => fault' = fault
  BY DEF Script, NewRequest, NoFault, responseVars, poolVars
<1>2. /\ ~fault /\ handled \ scripted \subseteq alive /\ Distinct(events)
      /\ \A k \in 1..Len(events) : events[k] \in alive /\ events[k] \notin handled
  BY DEF IInv, ScriptKnows
<1>3. events \in Seq(Connections)
  BY DEF IInv, TypeOK
<1>4. /\ r = events[1] /\ 1 \in 1..Len(events)
      /\ \A k \in 1..Len(Tail(events)) :
             Tail(events)[k] = events[k + 1] /\ k + 1 \in 1..Len(events)
  BY <1>1, <1>3, Shorter
<1>5. /\ Distinct(Tail(events))
      /\ \A k \in 1..Len(Tail(events)) : Tail(events)[k] # r
  BY <1>1, <1>2, <1>3, DistinctTail
<1> HIDE DEF r
<1>6. r \in alive
  BY <1>2, <1>4
<1>7. \A h \in handled' : TakenBefore(h)'
  <2>1. \A h \in handled' : h \in Nat /\ TakenBefore(h)
    <3>1. \A h \in handled : h \in Nat
      BY DEF IInv, TypeOK, Connections
    <3>2. \A h \in handled : TakenBefore(h)
      BY DEF IInv, ScriptKnows
    <3>3. r \in Nat /\ TakenBefore(r)
      BY <1>6, AliveTaken
    <3>4. \A h \in handled' : h \in handled \/ h = r
      BY <1>1
    <3> QED BY <3>1, <3>2, <3>3, <3>4
  <2>2. [Next]_vars
    BY DEF Next
  <2> QED BY <2>1, <2>2, TakenBeforeKept
<1>8. \A w \in Workers :
          wpc[w] \in {"request", "emit"} =>
              /\ conn[w] \notin handled /\ conn[w] # r
              /\ \A k \in 1..Len(Tail(events)) : Tail(events)[k] # conn[w]
  BY <1>4 DEF IInv, ScriptKnows
<1> QED BY <1>1, <1>2, <1>4, <1>5, <1>6, <1>7, <1>8 DEF ScriptKnows, Distinct

\* The script closes a response it has got, and which is therefore on a stack.
LEMMA ScriptClosesKeepsKnowledge ==
    ASSUME IInv, Script, NEW r \in Connections, ScriptCloses(r), ~closing
    PROVE  ScriptKnows'
<1>1. /\ r \in handled \ scripted /\ scripted' = scripted \cup {r}
      /\ UNCHANGED <<handled, alive, events, wpc, conn>>
      /\ r \in alive => fault' = fault
  BY DEF Script, ScriptCloses, Close, poolVars
<1>2. r \in alive
  BY <1>1 DEF IInv, ScriptKnows
<1>3. \A h \in handled' : TakenBefore(h)'
  <2>1. \A h \in handled' : h \in Nat /\ TakenBefore(h)
    BY <1>1 DEF IInv, ScriptKnows, TypeOK, Connections
  <2>2. [Next]_vars
    BY DEF Next
  <2> QED BY <2>1, <2>2, TakenBeforeKept
<1> QED BY <1>1, <1>2, <1>3 DEF IInv, ScriptKnows, Distinct

\* The connection a worker takes is unknown to the script.
LEMMA ConsumeKeepsKnowledge ==
    ASSUME IInv, NEW w \in Workers, Worker(w), ConsumeSocket(w), ~closing
    PROVE  ScriptKnows'
<1>1. /\ fifo # <<>> /\ conn' = [conn EXCEPT ![w] = fifo[1]]
      /\ wpc' = [wpc EXCEPT ![w] = "request"]
      /\ UNCHANGED <<fault, handled, scripted, alive, events>>
  BY ConsumeKeepsRing DEF Worker, ConsumeSocket, MoveTo, NoFault, scriptVars, responseVars
<1>2. 1 \in 1..Len(fifo) /\ fifo[1] \in Nat
  <2>1. 1 \in 1..Len(fifo)
    BY <1>1, Shorter DEF IInv, TypeOK
  <2> QED BY <2>1, Bounds
<1>3. \A r \in Nat : TakenBefore(r) => r # fifo[1]
  BY <1>2 DEF TakenBefore
<1>4. \A h \in handled : h \in Nat /\ TakenBefore(h)
  BY DEF IInv, ScriptKnows, TypeOK, Connections
<1>5. fifo[1] \notin handled /\ fifo[1] \notin alive
  BY <1>3, <1>4, AliveTaken
<1>6. \A h \in handled' : TakenBefore(h)'
  <2>1. [Next]_vars
    BY DEF Next
  <2> QED BY <1>1, <1>4, <2>1, TakenBeforeKept
<1>7. ASSUME NEW v \in Workers, wpc'[v] \in {"request", "emit"}
      PROVE  conn'[v] \notin handled /\ \A k \in 1..Len(events) : events[k] # conn'[v]
  <2>1. CASE v = w
    <3>1. conn'[v] = fifo[1]
      BY <1>1, <2>1 DEF IInv, TypeOK
    <3> QED BY <1>5, <3>1 DEF IInv, ScriptKnows
  <2>2. CASE v # w
    <3>1. conn'[v] = conn[v] /\ wpc'[v] = wpc[v]
      BY <1>1, <2>2 DEF IInv, TypeOK
    <3> QED BY <1>7, <3>1 DEF IInv, ScriptKnows
  <2> QED BY <2>1, <2>2
<1> QED BY <1>1, <1>6, <1>7 DEF IInv, ScriptKnows, Distinct

\* The signal announces a response that has not been announced.
LEMMA EmitKeepsKnowledge ==
    ASSUME IInv, NEW w \in Workers, Worker(w), EmitNewRequest(w), ~closing
    PROVE  ScriptKnows'
<1>1. /\ wpc[w] = "emit" /\ wpc' = [wpc EXCEPT ![w] = "acquire"]
      /\ events' = Append(events, conn[w])
      /\ UNCHANGED <<fault, handled, scripted, alive, conn>>
  BY DEF Worker, EmitNewRequest, MoveTo, NoFault, scriptVars, responseVars, poolVars
<1>2. /\ conn[w] \in Connections /\ conn[w] \in alive
      /\ \A v \in Workers : v # w => conn[v] # conn[w]
  BY <1>1, OwnResponse DEF Busy, Serving
<1>3. /\ conn[w] \notin handled /\ \A k \in 1..Len(events) : events[k] # conn[w]
      /\ Distinct(events) /\ events \in Seq(Connections)
  BY <1>1 DEF IInv, ScriptKnows, TypeOK
<1>4. Distinct(events')
  BY <1>1, <1>2, <1>3, DistinctAppend
<1>5. \A k \in 1..Len(events') :
          events'[k] = conn[w] \/ \E j \in 1..Len(events) : events'[k] = events[j]
  <2>1. /\ Len(events') = Len(events) + 1 /\ Len(events) \in Nat
        /\ \A k \in 1..Len(events') :
               events'[k] = IF k = Len(events) + 1 THEN conn[w] ELSE events[k]
    BY <1>1, <1>2, <1>3, Longer
  <2> QED BY <2>1
<1>6. \A h \in handled' : TakenBefore(h)'
  <2>1. \A h \in handled : h \in Nat /\ TakenBefore(h)
    BY DEF IInv, ScriptKnows, TypeOK, Connections
  <2>2. [Next]_vars
    BY DEF Next
  <2> QED BY <1>1, <2>1, <2>2, TakenBeforeKept
<1>7. \A k \in 1..Len(events') : events'[k] \in alive' /\ events'[k] \notin handled'
  BY <1>1, <1>2, <1>3, <1>5 DEF IInv, ScriptKnows
<1>8. ASSUME NEW v \in Workers, wpc'[v] \in {"request", "emit"}
      PROVE  conn[v] \notin handled /\ \A k \in 1..Len(events') : events'[k] # conn[v]
  <2>1. v # w /\ wpc[v] \in {"request", "emit"}
    BY <1>1, <1>8 DEF IInv, TypeOK
  <2> QED BY <1>2, <1>5, <2>1 DEF IInv, ScriptKnows
<1> QED BY <1>1, <1>4, <1>6, <1>7, <1>8 DEF IInv, ScriptKnows

\* A response ends when the script has closed it, until close() is called.
LEMMA FinishKeepsKnowledge ==
    ASSUME IInv, NEW w \in Workers, Worker(w), FinishRequest(w), ~closing
    PROVE  ScriptKnows'
<1>1. /\ wpc[w] = "woken" /\ wpc' = [wpc EXCEPT ![w] = "loop"]
      /\ alive' = alive \ {conn[w]}
      /\ UNCHANGED <<fault, handled, scripted, events, conn>>
  BY DEF Worker, FinishRequest, MoveTo, NoFault, scriptVars, poolVars
<1>2. conn[w] \in Connections
  BY <1>1, OwnResponse DEF Busy, Serving
<1>3. conn[w] \in scripted /\ scripted \subseteq handled
  BY <1>1, <1>2 DEF IInv, Closing, Woken, TypeOK
<1>4. \A h \in handled' : TakenBefore(h)'
  <2>1. \A h \in handled : h \in Nat /\ TakenBefore(h)
    BY DEF IInv, ScriptKnows, TypeOK, Connections
  <2>2. [Next]_vars
    BY DEF Next
  <2> QED BY <1>1, <2>1, <2>2, TakenBeforeKept
<1>5. \A v \in Workers : wpc'[v] \in {"request", "emit"} => wpc[v] \in {"request", "emit"}
  BY <1>1 DEF IInv, TypeOK
<1> QED BY <1>1, <1>3, <1>4, <1>5 DEF IInv, ScriptKnows, Distinct

LEMMA KnowledgeKept == IInv /\ [Next]_vars => ScriptKnows'
<1> SUFFICES ASSUME IInv, [Next]_vars, ~closing' PROVE ScriptKnows'
  BY DEF ScriptKnows
<1>0. wpc \in [Workers -> Places] /\ conn \in [Workers -> 0..MaxConnections]
  BY TypeParts DEF IInv, TypePool
<1>1. CASE ListenOnPort
  BY <1>1, KnowledgeStays DEF ListenOnPort, StartThreads, NoFault, responseVars
<1>2. CASE Script
  <2>1. ~closing /\ ~CloseServer
    BY <1>2 DEF Script, NewRequest, CloseServer, ScriptCloses, responseVars
  <2> QED BY <1>2, <2>1, NewRequestKeepsKnowledge, ScriptClosesKeepsKnowledge DEF Script
<1>3. CASE CloseStep
  <2>1. mpc # "js" /\ closing' = closing
    BY <1>3 DEF CloseStep, CloseResponse, StopServer, ServerStopped, responseVars
  <2> QED BY <2>1 DEF IInv, Closing
<1>4. CASE Master
  <2>1. UNCHANGED <<fault, handled, scripted, events, alive, closing, conn>>
    BY <1>4 DEF Master, scriptVars, responseVars, NoFault
  <2>2. \A w \in Workers : wpc'[w] \in {"request", "emit"} => wpc[w] \in {"request", "emit"}
    <3>1. CASE ProduceSocket
      BY <1>0, <3>1 DEF ProduceSocket, SignalFull, MoveTo
    <3>2. CASE StopWorkers
      BY <3>2 DEF StopWorkers
    <3>3. CASE \/ MasterLoop \/ SelectTimeout \/ AcceptNewConnection \/ QueueFull
               \/ MasterExits
      BY <3>3 DEF MasterLoop, SelectTimeout, AcceptNewConnection, QueueFull, MasterExits
    <3> QED BY <1>4, <3>1, <3>2, <3>3 DEF Master
  <2> QED BY <2>1, <2>2, KnowledgeStays
<1>5. ASSUME NEW w \in Workers, Worker(w) PROVE ScriptKnows'
  <2>1. closing' = closing
    BY <1>5 DEF Worker, WorkerLoop, QueueEmpty, WaitForSocket, StopConsuming, ConsumeSocket,
       RefuseRequest, ListResponse, EmitNewRequest, Acquire, FinishRequest, WorkerExits,
       responseVars
  <2>2. CASE ConsumeSocket(w) \/ EmitNewRequest(w) \/ FinishRequest(w)
    BY <1>5, <2>1, <2>2, ConsumeKeepsKnowledge, EmitKeepsKnowledge, FinishKeepsKnowledge
  <2>3. CASE ~(ConsumeSocket(w) \/ EmitNewRequest(w) \/ FinishRequest(w))
    <3>1. UNCHANGED <<fault, handled, scripted, events, conn>> /\ alive \subseteq alive'
      BY <1>5, <2>3 DEF Worker, WorkerLoop, QueueEmpty, WaitForSocket, StopConsuming,
         RefuseRequest, ListResponse, Acquire, WorkerExits, responseVars, poolVars,
         scriptVars, NoFault
    <3>2. \A v \in Workers : wpc'[v] \in {"request", "emit"} => wpc[v] \in {"request", "emit"}
      BY <1>0, <1>5, <2>3 DEF Worker, WorkerLoop, QueueEmpty, WaitForSocket, StopConsuming,
         RefuseRequest, ListResponse, Acquire, WorkerExits, MoveTo
    <3> QED BY <2>1, <3>1, <3>2, KnowledgeStays
  <2> QED BY <2>2, <2>3
<1>6. CASE UNCHANGED vars
  BY <1>6, KnowledgeStays DEF vars, scriptVars, responseVars
<1> QED BY <1>1, <1>2, <1>3, <1>4, <1>5, <1>6 DEF Next

-----------------------------------------------------------------------------
(* close() *)

\* Steps that end no response that was not woken, and wake none.
LEMMA ClosingStays ==
    ASSUME Closing, UNCHANGED <<listens, mpc, up, closing, scripted, toClose>>,
           \A r \in Connections : Woken(r)' => Woken(r),
           \A r \in alive \ alive' : r \in Connections /\ Woken(r)
    PROVE  Closing'
<1>1. ASSUME listens = 1, mpc = "closing"
      PROVE  \A k \in 1..Len(toClose) : toClose[k] \in alive' \cup scripted
  BY <1>1 DEF Closing
<1> QED BY <1>1 DEF Closing, Distinct

\* The script wakes the response that it closes.
LEMMA ScriptKeepsClosing ==
    ASSUME IInv, Script
    PROVE  Closing'
<1>1. UNCHANGED <<listens, up, alive, wpc, conn>> /\ mpc = "js" /\ Closing
  BY DEF Script, NewRequest, CloseServer, ScriptCloses, responseVars, scriptVars, poolVars,
     IInv
<1>2. CASE NewRequest
  BY <1>1, <1>2, ClosingStays DEF NewRequest, responseVars, Woken
<1>3. CASE CloseServer
  <2>1. /\ mpc' = "closing" /\ closing' = TRUE /\ toClose' = pending /\ up
        /\ UNCHANGED <<scripted, released, pending>>
    BY <1>3 DEF CloseServer, scriptVars
  <2>2. \A r \in Connections : Woken(r)' => Woken(r)
    BY <1>1, <2>1 DEF Woken
  <2>3. ASSUME listens = 1
        PROVE  /\ Distinct(toClose')
               /\ \A k \in 1..Len(toClose') : toClose'[k] \in alive
               /\ \A r \in Connections : Woken(r)' => r \in scripted
    <3>1. ~closing
      BY <1>1, <2>1, <2>3 DEF Closing
    <3>2. Distinct(pending) /\ Elements(pending) = alive
      BY <3>1 DEF IInv, Responses
    <3> QED BY <1>1, <2>1, <2>2, <3>1, <3>2 DEF Closing, Elements
  <2> QED BY <1>1, <2>1, <2>3 DEF Closing
<1>4. ASSUME NEW r \in Connections, ScriptCloses(r) PROVE Closing'
  <2>1. /\ UNCHANGED <<mpc, closing, toClose>> /\ scripted' = scripted \cup {r}
        /\ \/ released' = [released EXCEPT ![r] = @ + 1]
           \/ released' = released
    BY <1>4 DEF ScriptCloses, Close
  <2>2. \A q \in Connections : q # r => released'[q] = released[q]
    BY <2>1 DEF IInv, TypeOK
  <2>3. \A q \in Connections : Woken(q)' => Woken(q) \/ q \in scripted'
    BY <1>1, <2>1, <2>2 DEF Woken
  <2> QED BY <1>1, <2>1, <2>3 DEF Closing
<1> QED BY <1>2, <1>3, <1>4 DEF Script

\* close() goes through its list once.
LEMMA CloseStepKeepsClosing ==
    ASSUME IInv, CloseStep
    PROVE  Closing'
<1>1. /\ UNCHANGED <<listens, closing, scripted, alive, wpc, conn>> /\ mpc # "js" /\ Closing
      /\ closing
  BY DEF CloseStep, CloseResponse, StopServer, ServerStopped, responseVars, scriptVars,
     poolVars, IInv, Closing
<1>2. CASE CloseResponse
  <2> DEFINE r == Head(toClose)
  <2>1. /\ UNCHANGED <<mpc, up>> /\ mpc = "closing"
        /\ toClose # <<>> /\ toClose' = Tail(toClose)
        /\ \/ released' = [released EXCEPT ![r] = @ + 1]
           \/ released' = released
    BY <1>2 DEF CloseResponse, Close, scriptVars
  <2>2. toClose \in Seq(Connections)
    BY DEF IInv, TypeOK
  <2>3. /\ r = toClose[1] /\ r \in Connections
        /\ \A k \in 1..Len(toClose') : /\ toClose'[k] = toClose[k + 1]
                                       /\ k + 1 \in 1..Len(toClose)
    BY <2>1, <2>2, Shorter
  <2> HIDE DEF r
  <2>4. \A q \in Connections : Woken(q)' => Woken(q) \/ q = r
    <3>1. \A q \in Connections : q # r => released'[q] = released[q]
      BY <2>1 DEF IInv, TypeOK
    <3> QED BY <1>1, <3>1 DEF Woken
  <2>5. ASSUME listens = 1
        PROVE  /\ Distinct(toClose')
               /\ \A k \in 1..Len(toClose') : toClose'[k] # r
    <3>1. Distinct(toClose)
      BY <1>1, <2>1, <2>5 DEF Closing
    <3> QED BY <2>1, <2>2, <3>1, DistinctTail DEF r
  <2>6. ASSUME listens = 1
        PROVE  /\ \A k \in 1..Len(toClose') : toClose'[k] \in alive \cup scripted
               /\ \A q \in Connections :
                      Woken(q)' => q \in scripted \/ \A k \in 1..Len(toClose') : toClose'[k] # q
    BY <1>1, <2>1, <2>3, <2>4, <2>5, <2>6 DEF Closing
  <2> QED BY <1>1, <2>1, <2>5, <2>6 DEF Closing
<1>3. CASE StopServer
  BY <1>1, <1>3 DEF StopServer, scriptVars, Closing
<1>4. CASE ServerStopped
  BY <1>1, <1>4 DEF ServerStopped, Closing
<1> QED BY <1>2, <1>3, <1>4 DEF CloseStep

LEMMA ClosingKept == IInv /\ [Next]_vars => Closing'
<1> SUFFICES ASSUME IInv, [Next]_vars PROVE Closing'
  OBVIOUS
<1>0. /\ wpc \in [Workers -> Places] /\ conn \in [Workers -> 0..MaxConnections]
      /\ listens \in Nat /\ Closing
  BY TypeParts, Bounds DEF IInv, TypePool, TypeScalars
<1>1. CASE ListenOnPort
  <2>1. /\ mpc = "js" /\ ~up /\ listens' = listens + 1
        /\ UNCHANGED <<mpc, closing, released, scripted, conn>>
        /\ wpc' = [w \in Workers |-> "loop"]
    BY <1>1 DEF ListenOnPort, StartThreads, responseVars
  <2>2. \A r : Woken(r)' => Woken(r)
    BY <2>1 DEF Woken
  <2> QED BY <1>0, <2>1, <2>2 DEF Closing
<1>2. CASE Master
  <2>1. UNCHANGED <<listens, mpc, up, closing, scripted, toClose, alive, released, conn>>
    BY <1>2 DEF Master, scriptVars, responseVars
  <2>2. \A w \in Workers : wpc'[w] = "woken" => wpc[w] = "woken"
    <3>1. CASE ProduceSocket
      BY <1>0, <3>1 DEF ProduceSocket, SignalFull, MoveTo
    <3>2. CASE StopWorkers
      BY <3>2 DEF StopWorkers
    <3>3. CASE \/ MasterLoop \/ SelectTimeout \/ AcceptNewConnection \/ QueueFull
               \/ MasterExits
      BY <3>3 DEF MasterLoop, SelectTimeout, AcceptNewConnection, QueueFull, MasterExits
    <3> QED BY <1>2, <3>1, <3>2, <3>3 DEF Master
  <2>3. \A r : Woken(r)' => Woken(r)
    BY <2>1, <2>2 DEF Woken
  <2> QED BY <1>0, <2>1, <2>3, ClosingStays
<1>3. ASSUME NEW w \in Workers, Worker(w) PROVE Closing'
  <2>1. UNCHANGED <<listens, mpc, up, closing, scripted, toClose>>
    BY <1>3 DEF Worker, WorkerLoop, QueueEmpty, WaitForSocket, StopConsuming, ConsumeSocket,
       RefuseRequest, ListResponse, EmitNewRequest, Acquire, FinishRequest, WorkerExits,
       responseVars, scriptVars
  <2>2. CASE Acquire(w)
    <3>1. /\ wpc[w] = "acquire" /\ conn' = conn /\ alive' = alive
          /\ wpc' = [wpc EXCEPT ![w] = "woken"]
          /\ released[conn[w]] > 0 /\ released' = [released EXCEPT ![conn[w]] = @ - 1]
      BY <2>2 DEF Acquire, MoveTo, poolVars
    <3>2. conn[w] \in Connections /\ released \in [Connections -> Nat]
      BY <3>1, OwnResponse DEF Busy, Serving, IInv, TypeOK
    <3>3. \A r \in Connections : released'[r] > 0 => released[r] > 0
      BY <3>1, <3>2
    <3>4. \A v \in Workers : wpc'[v] = "woken" => wpc[v] = "woken" \/ v = w
      BY <1>0, <3>1
    <3>5. \A r \in Connections : Woken(r)' => Woken(r)
      BY <3>1, <3>3, <3>4 DEF Woken
    <3> QED BY <1>0, <2>1, <3>1, <3>5, ClosingStays
  <2>3. CASE FinishRequest(w)
    <3>1. /\ wpc[w] = "woken" /\ conn' = conn /\ released' = released
          /\ alive' = alive \ {conn[w]} /\ wpc' = [wpc EXCEPT ![w] = "loop"]
      BY <2>3 DEF FinishRequest, MoveTo, poolVars
    <3>2. conn[w] \in Connections /\ Woken(conn[w])
      BY <3>1, OwnResponse DEF Busy, Serving, Woken
    <3>3. \A r : Woken(r)' => Woken(r)
      BY <1>0, <3>1 DEF Woken
    <3> QED BY <1>0, <2>1, <3>1, <3>2, <3>3, ClosingStays
  <2>4. CASE ~(Acquire(w) \/ FinishRequest(w))
    <3>1. released' = released /\ alive \subseteq alive'
      BY <1>3, <2>4 DEF Worker, WorkerLoop, QueueEmpty, WaitForSocket, StopConsuming,
         ConsumeSocket, RefuseRequest, ListResponse, EmitNewRequest, WorkerExits, responseVars
    <3>2. \A v \in Workers : wpc'[v] = "woken" => wpc[v] = "woken" /\ conn'[v] = conn[v]
      BY <1>0, <1>3, <2>4 DEF Worker, WorkerLoop, QueueEmpty, WaitForSocket, StopConsuming,
         ConsumeSocket, RefuseRequest, ListResponse, EmitNewRequest, WorkerExits, MoveTo,
         poolVars
    <3>3. \A r : Woken(r)' => Woken(r)
      BY <3>1, <3>2 DEF Woken
    <3> QED BY <1>0, <2>1, <3>1, <3>3, ClosingStays
  <2> QED BY <2>2, <2>3, <2>4
<1>4. CASE UNCHANGED vars
  BY <1>0, <1>4, ClosingStays DEF vars, scriptVars, responseVars, Woken
<1> QED BY <1>1, <1>2, <1>3, <1>4, ScriptKeepsClosing, CloseStepKeepsClosing DEF Next

-----------------------------------------------------------------------------
(* The theorems *)

LEMMA InitIInv == Init => IInv
<1> SUFFICES ASSUME Init PROVE IInv
  OBVIOUS
<1>1. /\ MaxConnections \in Nat /\ MaxListens \in Nat /\ QueueSize \in Nat \ {0}
      /\ Cardinality(Workers) \in Nat
  BY WebServerAssumption, FS_CardinalityType DEF WebServerAssumption
<1>2. /\ fifo = <<>> /\ pending = <<>> /\ toClose = <<>> /\ events = <<>>
      /\ Len(fifo) = 0 /\ Len(pending) = 0 /\ Len(toClose) = 0 /\ Len(events) = 0
      /\ wpc = [w \in Workers |-> "exited"] /\ conn = [w \in Workers |-> 0]
      /\ released = [r \in Connections |-> 0] /\ alive = {} /\ apc = "exited"
      /\ accepted = 0
  BY DEF Init, Permits
<1>3. TypeOK
  <2>1. TypeScalars
    <3>1. mpc \in {"js", "closing", "stopping"} /\ listens \in 0..MaxListens
      BY <1>1 DEF Init
    <3>2. up \in BOOLEAN /\ closing \in BOOLEAN
      BY DEF Init
    <3>3. fault \in BOOLEAN /\ crashed \in BOOLEAN
      BY DEF Init
    <3> QED BY <3>1, <3>2, <3>3 DEF TypeScalars
  <2>2. TypeResponses
    BY <1>1, <1>2 DEF Init, TypeResponses
  <2>3. slot \in [0..QueueSize - 1 -> 0..MaxConnections]
    BY <1>1 DEF Init
  <2>4. TypePool
    BY <1>1, <1>2, <2>3 DEF Init, TypePool, Places
  <2> QED BY <2>1, <2>2, <2>4, TypeParts
<1>4. QueueIsFIFO
  BY <1>1, <1>2 DEF Init, QueueIsFIFO
<1>5. Arrivals
  BY <1>2 DEF Arrivals, TakenBefore, Producing, Busy, Serving
<1>6. Threads
  <2>1. Running = {}
    BY <1>2 DEF Running
  <2> QED BY <1>2, <2>1, FS_EmptySet DEF Init, Threads, StopJoins
<1>7. Responses
  BY <1>2, FS_EmptySet DEF Responses, Elements, Distinct, Serving
<1>8. ScriptKnows
  BY <1>2 DEF Init, ScriptKnows, Distinct
<1>9. Closing
  BY <1>2 DEF Init, Closing, Woken
<1> QED BY <1>3, <1>4, <1>5, <1>6, <1>7, <1>8, <1>9 DEF IInv

\* The inductive invariant holds in every state.
THEOREM Invariance == Spec => []IInv
<1>1. IInv /\ [Next]_vars => IInv'
  BY TypesKept, RingKept, ArrivalsKept, ThreadsKept, ResponsesKept, KnowledgeKept,
     ClosingKept DEF IInv
<1> QED BY InitIInv, <1>1, PTL DEF Spec

\* The variables keep their types.
THEOREM TypeCorrect == Spec => []TypeOK
<1>1. IInv => TypeOK
  BY DEF IInv
<1> QED BY Invariance, <1>1, PTL

\* produce_socket and consume_socket keep the ring of sockets first in, first
\* out, and never overwrite a socket that no worker has taken, for every size
\* of the ring.
THEOREM QueueIsFIFOHolds == Spec => []QueueIsFIFO
<1>1. IInv => QueueIsFIFO
  BY DEF IInv
<1> QED BY Invariance, <1>1, PTL

\* mg_stop frees the context only when the master and every worker have left.
THEOREM StopJoinsHolds == Spec => []StopJoins
<1>1. IInv => StopJoins
  BY DEF IInv, Threads
<1> QED BY Invariance, <1>1, PTL

\* Until the server is closed, no response is used after the end of its worker's
\* stack frame, whatever the order of requests, answers and signals.
THEOREM ScriptUsesLiveResponsesHolds == Spec => []ScriptUsesLiveResponses
<1>1. IInv => ScriptUsesLiveResponses
  BY DEF IInv, ScriptKnows, ScriptUsesLiveResponses
<1> QED BY Invariance, <1>1, PTL

\* m_pendingResponses is the list of the responses on the stacks, and the first
\* close() meets an ended response only if the script had closed it.
THEOREM PendingAliveHolds == Spec => []PendingAlive
<1>1. IInv => PendingAlive
  BY DEF IInv, Responses, Elements, Closing, PendingAlive
<1> QED BY Invariance, <1>1, PTL

\* No connection is served by two workers.
ServedOnce ==
    \A v, w \in Workers :
        v # w /\ wpc[v] \in Busy /\ wpc[w] \in Busy => conn[v] # conn[w]

\* The workers that are in handleRequest at the same time serve different
\* connections, so no two of them share a response.
THEOREM ServedOnceHolds == Spec => []ServedOnce
<1>1. IInv => ServedOnce
  BY DEF IInv, Arrivals, ServedOnce
<1> QED BY Invariance, <1>1, PTL
=============================================================================
