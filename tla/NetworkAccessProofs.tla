------------------------ MODULE NetworkAccessProofs ------------------------
(***************************************************************************)
(* What a script is told about its requests, for every number of requests, *)
(* reply addresses, nested handlers and authentication attempts.  The      *)
(* argument: every living reply belongs to one announced request (Owners), *)
(* and m_ids knows it exactly until the end of that request has been told  *)
(* (Tables).  A reply that m_ids has forgotten while it still works waits  *)
(* for the handler in which it was refused, so it cannot start again.      *)
(***************************************************************************)
EXTENDS NetworkAccess, SequenceTheorems, TLAPS

Stages  == {"start", "end", "error", "timeout"}
Told    == [stage : Stages, id : Nat]
Calling == [in : {"createRequest", "handleTimeout", "provideAuthentication"},
            request : Nat]

\* EndsOnce and Attributed of one request, and whether its end has been told.
HasEnd(s) == \E k \in 1..Len(s) : s[k].stage = "end"

Once(s) ==
    \A k, l \in 1..Len(s) :
        k < l /\ s[k].stage = "end" =>
            s[l].stage = "timeout" \/ s[l] = [stage |-> "error", id |-> 0]

About(s, q) ==
    \A k \in 1..Len(s) :
        \/ s[k].id = q
        \/ \E j \in 1..k - 1 : s[j].stage = "end" /\ s[k].id = 0

Typed ==
    /\ idCounter \in 0..MaxRequests
    /\ ids \in [Replies -> Nat]
    /\ started \subseteq Replies
    /\ calls \in Seq(Calling)
    /\ life \in [Replies -> Lives]
    /\ owner \in [Replies -> Nat]
    /\ told \in [Requests -> Seq(Told)]

\* Living replies belong to one announced request each, timers to living replies.
Owners ==
    /\ \A r \in Replies :
           owner[r] <= idCounter /\ (life[r] = "none" <=> owner[r] = 0)
    /\ \A r, s \in Replies : owner[r] = owner[s] /\ owner[r] # 0 => r = s
    /\ \A r \in timer : r \in Replies /\ life[r] # "none"

\* A request under way in createRequest has no reply, nothing has been told of
\* it, and it is the last one unless its handler has started another.
Pending(k) ==
    calls[k].in = "createRequest" =>
        /\ \A r \in Replies : owner[r] # calls[k].request
        /\ told[calls[k].request] = <<>>
        /\ calls[k].request \in nested \/ calls[k].request = idCounter

Calls ==
    /\ \A k \in 1..Len(calls) :
           calls[k].request \in 1..idCounter /\ Pending(k)
    /\ \A j, k \in 1..Len(calls) :
           /\ j # k
           /\ calls[j].in = "createRequest" /\ calls[k].in = "createRequest"
           => calls[j].request # calls[k].request

Table(r) ==
    /\ Working(r) /\ ids[r] = 0 => Blocked(r)
    /\ ids[r] = 0 => r \notin started
    /\ life[r] \in {"none", "finished"} /\ r \notin leaked => ids[r] = 0
    /\ life[r] # "none" => (ids[r] = 0 <=> HasEnd(told[owner[r]]))
    /\ life[r] # "none" => ids[r] \in {0, owner[r]} \/ owner[r] \in nested

Tables == \A r \in Replies : Table(r)

Telling ==
    \A q \in Requests :
        /\ q > idCounter => told[q] = <<>>
        /\ Once(told[q])
        /\ q \in nested \/ About(told[q], q)

IInv == Typed /\ Owners /\ Calls /\ Tables /\ Telling

-----------------------------------------------------------------------------
(* Sequences of notes *)

\* One more note about a request.
LEMMA OneMore ==
    ASSUME NEW s \in Seq(Told), NEW n \in Told
    PROVE  LET t == Append(s, n) IN
           /\ t \in Seq(Told)
           /\ HasEnd(t) <=> HasEnd(s) \/ n.stage = "end"
           /\ Once(s) /\ (HasEnd(s) => n.stage = "timeout"
                                       \/ n = [stage |-> "error", id |-> 0]) => Once(t)
           /\ \A q \in Nat :
                  About(s, q) /\ (n.id = q \/ (HasEnd(s) /\ n.id = 0)) => About(t, q)
<1> DEFINE t == Append(s, n)
<1>1. /\ t \in Seq(Told) /\ Len(t) = Len(s) + 1 /\ t[Len(s) + 1] = n
      /\ \A k \in 1..Len(s) : t[k] = s[k]
      /\ Len(s) \in Nat
  BY AppendProperties
<1> HIDE DEF t
<1>2. HasEnd(t) <=> HasEnd(s) \/ n.stage = "end"
  BY <1>1 DEF HasEnd
<1>3. ASSUME Once(s), HasEnd(s) => n.stage = "timeout" \/ n = [stage |-> "error", id |-> 0]
      PROVE  Once(t)
  <2> SUFFICES ASSUME NEW k \in 1..Len(s) + 1, NEW l \in 1..Len(s) + 1,
                      k < l, t[k].stage = "end"
               PROVE  t[l].stage = "timeout" \/ t[l] = [stage |-> "error", id |-> 0]
    BY <1>1 DEF Once
  <2>1. k \in 1..Len(s) /\ s[k].stage = "end"
    BY <1>1
  <2>2. CASE l = Len(s) + 1
    BY <1>1, <1>3, <2>1, <2>2 DEF HasEnd
  <2>3. CASE l \in 1..Len(s)
    BY <1>1, <1>3, <2>1, <2>3 DEF Once
  <2> QED BY <1>1, <2>2, <2>3
<1>4. ASSUME NEW q \in Nat, About(s, q), n.id = q \/ (HasEnd(s) /\ n.id = 0)
      PROVE  About(t, q)
  <2> SUFFICES ASSUME NEW k \in 1..Len(s) + 1
               PROVE  \/ t[k].id = q
                      \/ \E j \in 1..k - 1 : t[j].stage = "end" /\ t[k].id = 0
    BY <1>1 DEF About
  <2>1. CASE k = Len(s) + 1
    BY <1>1, <1>4, <2>1 DEF HasEnd
  <2>2. CASE k \in 1..Len(s)
    BY <1>1, <1>4, <2>2 DEF About
  <2> QED BY <1>1, <2>1, <2>2
<1> QED BY <1>1, <1>2, <1>3, <1>4 DEF t

\* A sequence that gets at most two notes at its end.
LEMMA TwoMore ==
    ASSUME NEW s \in Seq(Told), NEW m \in Told, NEW n \in Told
    PROVE  /\ s \o (<<>> \o <<n>>) = Append(s, n)
           /\ s \o <<n>> = Append(s, n)
           /\ s \o (<<m>> \o <<n>>) = Append(Append(s, m), n)
           /\ s \o <<>> = s
<1>1. <<>> \in Seq(Told) /\ <<m>> \in Seq(Told) /\ <<n>> \in Seq(Told)
  OBVIOUS
<1>2. <<>> \o <<n>> = <<n>> /\ s \o <<>> = s
  BY <1>1, ConcatEmptySeq
<1>3. s \o <<n>> = Append(s, n) /\ s \o <<m>> = Append(s, m)
  BY AppendIsConcat
<1>4. s \o (<<m>> \o <<n>>) = (s \o <<m>>) \o <<n>>
  BY <1>1, ConcatAssociative
<1>5. Append(s, m) \in Seq(Told)
  BY AppendProperties
<1>6. Append(s, m) \o <<n>> = Append(Append(s, m), n)
  BY <1>5, AppendIsConcat
<1> QED BY <1>2, <1>3, <1>4, <1>6
-----------------------------------------------------------------------------
(* Helpers of the model *)

\* A living reply belongs to a request that has been announced.
LEMMA OwnerRequest ==
    ASSUME IInv, NEW r \in Replies, life[r] # "none"
    PROVE  owner[r] \in Requests /\ owner[r] \in Nat /\ told[owner[r]] \in Seq(Told)
<1>1. owner[r] \in Nat /\ owner[r] # 0 /\ owner[r] <= idCounter
      /\ idCounter \in Nat /\ idCounter <= MaxRequests /\ MaxRequests \in Nat
  BY NetworkAccessAssumption DEF IInv, Typed, Owners, NetworkAccessAssumption
<1>2. owner[r] \in Requests
  BY <1>1 DEF Requests
<1> QED BY <1>1, <1>2 DEF IInv, Typed

\* What handleFinished leaves behind, alone or after handleNetworkError.
LEMMA HandleFinishedEffect ==
    ASSUME IInv, NEW r \in Replies, life[r] # "none",
           NEW before \in {<<>>, Note("error", ids[r])},
           HandleFinished(r, before)
    PROVE  /\ told' \in [Requests -> Seq(Told)]
           /\ \A q \in Requests \ {owner[r]} : told'[q] = told[q]
           /\ Once(told'[owner[r]])
           /\ owner[r] \in nested \/ About(told'[owner[r]], owner[r])
           /\ HasEnd(told'[owner[r]])
           /\ ids' = [ids EXCEPT ![r] = 0]
           /\ started' = started \ {r}
<1> DEFINE q == owner[r]
           e == [stage |-> "error", id |-> ids[r]]
           f == [stage |-> "end", id |-> ids[r]]
<1>1. q \in Requests /\ q \in Nat /\ told[q] \in Seq(Told)
  BY OwnerRequest
<1>2. ids[r] \in Nat /\ told \in [Requests -> Seq(Told)] /\ ids \in [Replies -> Nat]
  BY DEF IInv, Typed
<1>3. e \in Told /\ f \in Told
  BY <1>2 DEF Told, Stages
<1>4. Once(told[q]) /\ (q \in nested \/ About(told[q], q))
  BY <1>1 DEF IInv, Telling
<1>5. /\ ids[r] = 0 <=> HasEnd(told[q])
      /\ ids[r] \in {0, q} \/ q \in nested
      /\ ids[r] = 0 => r \notin started
  BY DEF IInv, Tables, Table
<1>6. before \in {<<>>, <<e>>} /\ Note("end", ids[r]) = <<f>>
  BY DEF Note
<1>7. PICK notes : told' = [told EXCEPT ![q] = @ \o notes]
                   /\ notes = IF Known(r) THEN before \o <<f>> ELSE before
  BY <1>6 DEF HandleFinished, Tell
<1> DEFINE t == told[q] \o notes
<1>8. told'[q] = t /\ \A p \in Requests \ {q} : told'[p] = told[p]
  BY <1>1, <1>2, <1>7
<1>9. t \in Seq(Told) /\ Once(t) /\ (q \in nested \/ About(t, q)) /\ HasEnd(t)
  <2>1. CASE ids[r] # 0
    <3>1. ~HasEnd(told[q]) /\ (q \in nested \/ ids[r] = q) /\ Known(r)
      BY <1>5, <2>1 DEF Known
    <3>2. CASE before = <<>>
      <4>1. t = Append(told[q], f)
        BY <1>1, <1>3, <1>7, <3>1, <3>2, TwoMore
      <4> HIDE DEF t, q
      <4> QED BY <1>1, <1>3, <1>4, <3>1, <4>1, OneMore DEF f
    <3>3. CASE before = <<e>>
      <4> DEFINE u == Append(told[q], e)
      <4>1. t = Append(u, f)
        BY <1>1, <1>3, <1>7, <3>1, <3>3, TwoMore
      <4>2. u \in Seq(Told) /\ Once(u) /\ (q \in nested \/ About(u, q)) /\ ~HasEnd(u)
        <5> HIDE DEF q
        <5> QED BY <1>1, <1>3, <1>4, <3>1, OneMore
      <4> HIDE DEF t, q, u
      <4> QED BY <1>1, <1>3, <3>1, <4>1, <4>2, OneMore
    <3> QED BY <1>6, <3>2, <3>3
  <2>2. CASE ids[r] = 0
    <3>1. HasEnd(told[q]) /\ notes = before
      BY <1>5, <1>7, <2>2 DEF Known
    <3>2. CASE before = <<>>
      <4>1. t = told[q]
        BY <1>1, <1>3, <3>1, <3>2, TwoMore
      <4> QED BY <1>1, <1>4, <3>1, <4>1
    <3>3. CASE before = <<e>>
      <4>1. t = Append(told[q], e)
        BY <1>1, <1>3, <3>1, <3>3, TwoMore
      <4>2. e.id = 0 /\ e = [stage |-> "error", id |-> 0]
        BY <2>2
      <4> HIDE DEF t, q, e
      <4> QED BY <1>1, <1>3, <1>4, <3>1, <4>1, <4>2, OneMore
    <3> QED BY <1>6, <3>2, <3>3
  <2> QED BY <2>1, <2>2
<1>10. told' \in [Requests -> Seq(Told)]
  BY <1>2, <1>7, <1>9
<1>11. ids' = [ids EXCEPT ![r] = 0] /\ started' = started \ {r}
  <2>1. CASE Known(r)
    BY <2>1 DEF HandleFinished, StillStarted
  <2>2. CASE ~Known(r)
    <3>1. ids[r] = 0 /\ r \notin started
      BY <1>5, <2>2 DEF Known
    <3> QED BY <1>2, <2>2, <3>1 DEF HandleFinished
  <2> QED BY <2>1, <2>2
<1> QED BY <1>8, <1>9, <1>10, <1>11

\* A call that returns is the last one.
LEMMA PopEffect ==
    ASSUME calls \in Seq(Calling), calls # <<>>, Pop
    PROVE  /\ calls' \in Seq(Calling) /\ Len(calls') = Len(calls) - 1
           /\ \A k \in 1..Len(calls') : calls'[k] = calls[k]
<1> DEFINE n == Len(calls) - 1
<1>1. Len(calls) \in Nat /\ Len(calls) >= 1 /\ n \in Nat /\ n <= Len(calls)
  OBVIOUS
<1>2. calls' = SubSeq(calls, 1, n)
  BY DEF Pop
<1>3. \A k \in 1..n : calls[k] \in Calling
  BY <1>1
<1>4. n \in Int /\ 1 \in Int
  BY <1>1
<1> HIDE DEF n
<1>5. /\ SubSeq(calls, 1, n) \in Seq(Calling)
      /\ Len(SubSeq(calls, 1, n)) = IF 1 <= n THEN n - 1 + 1 ELSE 0
      /\ \A k \in 1..n - 1 + 1 : SubSeq(calls, 1, n)[k] = calls[1 + k - 1]
  BY <1>3, <1>4, SubSeqProperties
<1>6. Len(SubSeq(calls, 1, n)) = n
      /\ \A k \in 1..n : SubSeq(calls, 1, n)[k] = calls[k]
  BY <1>1, <1>5
<1> QED BY <1>2, <1>5, <1>6 DEF n

\* What becomes of the calls that wait when one returns, or another waits.
LEMMA CallsKept ==
    ASSUME IInv, NEW r \in Replies,
           told' \in [Requests -> Seq(Told)], owner[r] # 0,
           \A q \in Requests \ {owner[r]} : told'[q] = told[q],
           UNCHANGED <<idCounter, owner, nested>>,
           \/ calls' = calls
           \/ calls # <<>> /\ Pop
           \/ /\ Push("handleTimeout", owner[r]) \/ Push("provideAuthentication", owner[r])
    PROVE  Calls' /\ calls' \in Seq(Calling)
<1>1. /\ calls \in Seq(Calling) /\ Len(calls) \in Nat
      /\ owner[r] \in 1..idCounter /\ idCounter \in 0..MaxRequests
      /\ idCounter \in Nat /\ MaxRequests \in Nat
  BY NetworkAccessAssumption
     DEF IInv, Typed, Owners, NetworkAccessAssumption
<1>2. ASSUME NEW k \in 1..Len(calls)
      PROVE  /\ calls[k].request \in 1..idCounter
             /\ calls[k].in = "createRequest" =>
                    /\ \A s \in Replies : owner[s] # calls[k].request
                    /\ told'[calls[k].request] = <<>>
                    /\ calls[k].request \in nested \/ calls[k].request = idCounter
  <2>1. Pending(k) /\ calls[k].request \in 1..idCounter
    BY DEF IInv, Calls
  <2>2. calls[k].request \in Requests
    BY <1>1, <2>1 DEF Requests
  <2> QED BY <2>1, <2>2 DEF Pending
<1>3. CASE calls' = calls
  BY <1>1, <1>2, <1>3 DEF Calls, Pending, IInv
<1>4. CASE calls # <<>> /\ Pop
  <2>1. /\ calls' \in Seq(Calling) /\ Len(calls') = Len(calls) - 1
        /\ \A k \in 1..Len(calls') : calls'[k] = calls[k]
    BY <1>1, <1>4, PopEffect
  <2>2. 1..Len(calls') \subseteq 1..Len(calls)
    BY <1>1, <2>1
  <2> QED BY <1>2, <2>1, <2>2 DEF Calls, Pending, IInv
<1>5. ASSUME NEW c \in Calling, c.in # "createRequest", c.request = owner[r],
             calls' = Append(calls, c)
      PROVE  Calls' /\ calls' \in Seq(Calling)
  <2>1. /\ calls' \in Seq(Calling) /\ Len(calls') = Len(calls) + 1
        /\ calls'[Len(calls) + 1] = c
        /\ \A k \in 1..Len(calls) : calls'[k] = calls[k]
    BY <1>1, <1>5, AppendProperties
  <2>2. \A k \in 1..Len(calls') : k = Len(calls) + 1 \/ k \in 1..Len(calls)
    BY <1>1, <2>1
  <2>3. \A k \in 1..Len(calls') :
            calls'[k].request \in 1..idCounter /\ Pending(k)'
    BY <1>1, <1>2, <1>5, <2>1, <2>2 DEF Pending
  <2>4. \A j, k \in 1..Len(calls') :
            /\ j # k
            /\ calls'[j].in = "createRequest" /\ calls'[k].in = "createRequest"
            => calls'[j].request # calls'[k].request
    BY <1>5, <2>1, <2>2 DEF IInv, Calls
  <2> QED BY <2>1, <2>3, <2>4 DEF Calls
<1>6. ASSUME NEW in \in {"handleTimeout", "provideAuthentication"}, Push(in, owner[r])
      PROVE  Calls' /\ calls' \in Seq(Calling)
  <2> DEFINE c == [in |-> in, request |-> owner[r]]
  <2>1. c \in Calling
    BY <1>1 DEF Calling
  <2> QED BY <1>5, <1>6, <2>1 DEF Push
<1> QED BY <1>3, <1>4, <1>6
\* A reply stays blocked while other calls come and return.
LEMMA BlockedKept ==
    ASSUME IInv, NEW s \in Replies, owner'[s] = owner[s], Blocked(s),
           \/ calls' = calls
           \/ \E c \in Calling : calls' = Append(calls, c)
           \/ calls # <<>> /\ Pop /\ ~(Top("provideAuthentication") /\ TopRequest = owner[s])
    PROVE  Blocked(s)'
<1>1. calls \in Seq(Calling) /\ Len(calls) \in Nat
  BY DEF IInv, Typed
<1>2. PICK k \in 1..Len(calls) :
          calls[k] = [in |-> "provideAuthentication", request |-> owner[s]]
  BY DEF Blocked
<1>3. CASE calls' = calls
  BY <1>2, <1>3 DEF Blocked
<1>4. ASSUME NEW c \in Calling, calls' = Append(calls, c) PROVE Blocked(s)'
  <2>1. calls'[k] = calls[k] /\ Len(calls') = Len(calls) + 1
    BY <1>1, <1>4, AppendProperties
  <2>2. k \in 1..Len(calls')
    BY <1>1, <2>1
  <2> QED BY <1>2, <2>1, <2>2 DEF Blocked
<1>5. CASE calls # <<>> /\ Pop /\ ~(Top("provideAuthentication") /\ TopRequest = owner[s])
  <2>1. k # Len(calls)
    BY <1>2, <1>5 DEF Top, TopRequest
  <2>2. Len(calls') = Len(calls) - 1 /\ \A j \in 1..Len(calls') : calls'[j] = calls[j]
    BY <1>1, <1>5, PopEffect
  <2>3. k \in 1..Len(calls')
    BY <1>1, <2>1, <2>2
  <2> QED BY <1>2, <2>2, <2>3 DEF Blocked
<1> QED BY <1>3, <1>4, <1>5

\* A reply ends, or is refused and waits for the handler.
LEMMA EndingStep ==
    ASSUME IInv, NEW r \in Replies, life[r] # "none",
           NEW before \in {<<>>, Note("error", ids[r])}, HandleFinished(r, before),
           UNCHANGED <<idCounter, owner, timer, nested, leaked>>,
           \/ life' = [life EXCEPT ![r] = "finished"]
           \/ life' = life /\ Blocked(r)',
           \/ calls' = calls
           \/ calls # <<>> /\ Pop
           \/ Push("provideAuthentication", owner[r]),
           \A s \in Replies \ {r} : Blocked(s) => Blocked(s)'
    PROVE  IInv'
<1>1. /\ told' \in [Requests -> Seq(Told)]
      /\ \A q \in Requests \ {owner[r]} : told'[q] = told[q]
      /\ Once(told'[owner[r]])
      /\ owner[r] \in nested \/ About(told'[owner[r]], owner[r])
      /\ HasEnd(told'[owner[r]])
      /\ ids' = [ids EXCEPT ![r] = 0]
      /\ started' = started \ {r}
  BY HandleFinishedEffect
<1>2. owner[r] \in Requests /\ owner[r] # 0 /\ owner[r] <= idCounter
      /\ idCounter \in Nat /\ owner[r] \in Nat
  BY OwnerRequest, NetworkAccessAssumption
     DEF IInv, Owners, Typed, NetworkAccessAssumption
<1>3. ids \in [Replies -> Nat] /\ life \in [Replies -> Lives] /\ owner \in [Replies -> Nat]
      /\ started \subseteq Replies
  BY DEF IInv, Typed
<1>4. /\ life' \in [Replies -> Lives] /\ life'[r] # "none"
      /\ \A s \in Replies \ {r} : life'[s] = life[s]
  BY <1>3 DEF Lives
<1>5. Calls' /\ calls' \in Seq(Calling)
  BY <1>1, <1>2, CallsKept
<1>6. Typed'
  BY <1>1, <1>3, <1>4, <1>5 DEF IInv, Typed
<1>7. Owners'
  BY <1>4 DEF IInv, Owners
<1>8. Table(r)'
  <2>1. ids'[r] = 0 /\ r \notin started' /\ HasEnd(told'[owner'[r]])
    BY <1>1, <1>3
  <2>2. Working(r)' => Blocked(r)'
    BY <1>3 DEF Working
  <2> QED BY <2>1, <2>2 DEF Table
<1>9. ASSUME NEW s \in Replies \ {r} PROVE Table(s)'
  <2>1. Table(s)
    BY DEF IInv, Tables
  <2>2. ids'[s] = ids[s] /\ (s \in started' <=> s \in started) /\ life'[s] = life[s]
    BY <1>1, <1>3, <1>4
  <2>3. life[s] # "none" => told'[owner[s]] = told[owner[s]]
    <3> SUFFICES ASSUME life[s] # "none" PROVE told'[owner[s]] = told[owner[s]]
      OBVIOUS
    <3>1. owner[s] \in Requests
      BY OwnerRequest
    <3>2. owner[s] # owner[r]
      BY <1>2 DEF IInv, Owners
    <3> QED BY <1>1, <3>1, <3>2
  <2>4. Working(s)' <=> Working(s)
    BY <2>2 DEF Working
  <2> QED BY <2>1, <2>2, <2>3, <2>4 DEF Table
<1>10. Telling'
  <2> SUFFICES ASSUME NEW q \in Requests
               PROVE  /\ q > idCounter => told'[q] = <<>>
                      /\ Once(told'[q])
                      /\ q \in nested \/ About(told'[q], q)
    BY DEF Telling
  <2>1. CASE q = owner[r]
    BY <1>1, <1>2, <2>1
  <2>2. CASE q # owner[r]
    BY <1>1, <2>2 DEF IInv, Telling
  <2> QED BY <2>1, <2>2
<1> QED BY <1>5, <1>6, <1>7, <1>8, <1>9, <1>10 DEF IInv, Tables

\* A note about a working reply, its start, or about any, its time-out.
LEMMA NotingStep ==
    ASSUME IInv, NEW r \in Replies, life[r] # "none", NEW n \in Told,
           n.stage # "end", n.stage = "timeout" \/ ids[r] # 0,
           n.id \in {ids[r], owner[r]},
           n.stage = "timeout" => n.id = owner[r],
           told' = [told EXCEPT ![owner[r]] = @ \o <<n>>],
           UNCHANGED <<idCounter, ids, owner, nested, leaked>>, timer' \subseteq timer,
           started' \subseteq started \cup {r}, ids[r] # 0 \/ started' = started,
           started \subseteq started',
           life' \in [Replies -> Lives],
           \A s \in Replies \ {r} : life'[s] = life[s],
           life'[r] # "none", life'[r] = "finished" => life[r] = "finished",
           Working(r)' => Working(r),
           \/ calls' = calls
           \/ Push("handleTimeout", owner[r]),
           \A s \in Replies : Blocked(s) => Blocked(s)'
    PROVE  IInv'
<1> DEFINE q == owner[r]
           t == Append(told[q], n)
<1>1. q \in Requests /\ q \in Nat /\ told[q] \in Seq(Told) /\ q # 0 /\ q <= idCounter
      /\ idCounter \in Nat /\ told \in [Requests -> Seq(Told)]
  BY OwnerRequest, NetworkAccessAssumption
     DEF IInv, Owners, Typed, NetworkAccessAssumption
<1>2. t \in Seq(Told) /\ told' = [told EXCEPT ![q] = t]
  <2>1. told' = [told EXCEPT ![q] = told[q] \o <<n>>]
    OBVIOUS
  <2> HIDE DEF q
  <2>2. told[q] \o <<n>> = t
    BY <1>1, TwoMore
  <2>3. t \in Seq(Told)
    BY <1>1, OneMore
  <2> QED BY <2>1, <2>2, <2>3
<1>3. told'[q] = t /\ (\A p \in Requests \ {q} : told'[p] = told[p])
      /\ told' \in [Requests -> Seq(Told)]
  BY <1>1, <1>2
<1>4. Table(r) /\ Once(told[q]) /\ (q \in nested \/ About(told[q], q))
  BY <1>1 DEF IInv, Tables, Telling
<1>5. HasEnd(told[q]) => n.stage = "timeout"
  BY <1>4 DEF Table
<1>6. q \in nested \/ n.id = q
  BY <1>4 DEF Table
<1>7. HasEnd(t) <=> HasEnd(told[q])
  <2> HIDE DEF q
  <2> QED BY <1>1, OneMore
<1>8. Once(t) /\ (q \in nested \/ About(t, q))
  <2> HIDE DEF q
  <2> QED BY <1>1, <1>4, <1>5, <1>6, OneMore
<1>9. Calls' /\ calls' \in Seq(Calling)
  BY <1>1, <1>3, CallsKept
<1>10. Typed'
  BY <1>3, <1>9 DEF IInv, Typed
<1>11. Owners'
  BY DEF IInv, Owners
<1>12. Table(r)'
  <2>1. HasEnd(told'[owner'[r]]) <=> HasEnd(told[owner[r]])
    BY <1>3, <1>7
  <2> QED BY <1>4, <2>1 DEF Table
<1>13. ASSUME NEW s \in Replies \ {r} PROVE Table(s)'
  <2>1. Table(s) /\ life'[s] = life[s] /\ (s \in started' <=> s \in started)
    BY DEF IInv, Tables
  <2>2. life[s] # "none" => told'[owner[s]] = told[owner[s]]
    <3> SUFFICES ASSUME life[s] # "none" PROVE told'[owner[s]] = told[owner[s]]
      OBVIOUS
    <3>1. owner[s] \in Requests
      BY OwnerRequest
    <3>2. owner[s] # owner[r]
      BY <1>1 DEF IInv, Owners
    <3> QED BY <1>3, <3>1, <3>2
  <2>3. Working(s)' <=> Working(s)
    BY <2>1 DEF Working
  <2> QED BY <2>1, <2>2, <2>3 DEF Table
<1>14. Telling'
  <2> SUFFICES ASSUME NEW p \in Requests
               PROVE  /\ p > idCounter => told'[p] = <<>>
                      /\ Once(told'[p])
                      /\ p \in nested \/ About(told'[p], p)
    BY DEF Telling
  <2>1. CASE p = q
    <3>1. ~(p > idCounter)
      BY <1>1, <2>1
    <3> HIDE DEF q, t
    <3> QED BY <1>3, <1>8, <2>1, <3>1
  <2>2. CASE p # q
    BY <1>3, <2>2 DEF IInv, Telling
  <2> QED BY <2>1, <2>2
<1> QED BY <1>9, <1>10, <1>11, <1>12, <1>13, <1>14 DEF IInv, Tables
-----------------------------------------------------------------------------
(* One lemma per kind of action *)

\* No request has been made.
LEMMA InitIInv == Init => IInv
<1> SUFFICES ASSUME Init PROVE IInv
  OBVIOUS
<1>1. /\ \A r \in Replies : ids[r] = 0 /\ owner[r] = 0 /\ life[r] = "none"
      /\ started = {} /\ timer = {} /\ calls = <<>> /\ idCounter = 0
      /\ \A q \in Requests : told[q] = <<>>
  BY DEF Init
<1>2. <<>> \in Seq(Calling) /\ <<>> \in Seq(Told) /\ Len(<<>>) = 0
  OBVIOUS
<1>3. Typed
  <2>1. told \in [Requests -> Seq(Told)]
    BY <1>2 DEF Init
  <2> QED BY <1>1, <1>2, <2>1, NetworkAccessAssumption
          DEF Init, Typed, Lives, NetworkAccessAssumption
<1>4. Owners
  BY <1>1 DEF Owners
<1>5. Calls
  BY <1>1, <1>2 DEF Calls
<1>6. Tables
  BY <1>1 DEF Tables, Table, Working
<1>7. Telling
  BY <1>1, <1>2 DEF Telling, Once, About
<1> QED BY <1>3, <1>4, <1>5, <1>6, <1>7 DEF IInv

\* createRequest up to its handler: the requests around it are nested now.
LEMMA RequestStep == IInv /\ Request => IInv'
<1> SUFFICES ASSUME IInv, Request PROVE IInv'
  OBVIOUS
<1> DEFINE c == [in |-> "createRequest", request |-> idCounter + 1]
<1>1. /\ idCounter \in Nat /\ MaxRequests \in Nat /\ idCounter < MaxRequests
      /\ idCounter' = idCounter + 1 /\ idCounter + 1 \in Requests
      /\ calls \in Seq(Calling) /\ Len(calls) \in Nat
      /\ UNCHANGED <<ids, started, life, owner, timer, told, leaked>>
      /\ nested' = nested \cup {calls[k].request : k \in Asking}
  BY NetworkAccessAssumption
     DEF IInv, Typed, Request, Requests, tables, NetworkAccessAssumption
<1>2. c \in Calling
  BY <1>1 DEF Calling
<1>3. calls' = Append(calls, c)
  BY DEF Request, Push
<1>4. /\ calls' \in Seq(Calling) /\ Len(calls') = Len(calls) + 1
      /\ calls'[Len(calls) + 1] = c
      /\ \A k \in 1..Len(calls) : calls'[k] = calls[k]
  <2> HIDE DEF c
  <2> QED BY <1>1, <1>2, <1>3, AppendProperties
<1>5. \A k \in 1..Len(calls') : k = Len(calls) + 1 \/ k \in 1..Len(calls)
  BY <1>1, <1>4
<1>6. Typed'
  BY <1>1, <1>4 DEF IInv, Typed
<1>7. Owners'
  BY <1>1 DEF IInv, Owners, Typed
<1>8. \A k \in 1..Len(calls) : calls[k].request \in 1..idCounter /\ Pending(k)
  BY DEF IInv, Calls
<1>9. \A r \in Replies : owner[r] \in Nat /\ owner[r] <= idCounter
  BY DEF IInv, Owners, Typed
<1>10. ASSUME NEW k \in 1..Len(calls')
       PROVE  calls'[k].request \in 1..idCounter' /\ Pending(k)'
  <2>1. CASE k = Len(calls) + 1
    <3>1. told[idCounter + 1] = <<>>
      BY <1>1 DEF IInv, Telling
    <3> QED BY <1>1, <1>4, <1>9, <2>1, <3>1 DEF Pending
  <2>2. CASE k \in 1..Len(calls)
    <3>1. calls[k].in = "createRequest" => calls[k].request \in nested'
      BY <1>1, <2>2 DEF Asking
    <3> QED BY <1>1, <1>4, <1>8, <2>2, <3>1 DEF Pending
  <2> QED BY <1>5, <2>1, <2>2
<1>11. \A j, k \in 1..Len(calls') :
           /\ j # k
           /\ calls'[j].in = "createRequest" /\ calls'[k].in = "createRequest"
           => calls'[j].request # calls'[k].request
  <2>1. \A k \in 1..Len(calls) : calls'[k].request # idCounter + 1
    BY <1>1, <1>4, <1>8
  <2> QED BY <1>4, <1>5, <2>1 DEF IInv, Calls
<1>12. Calls'
  BY <1>10, <1>11 DEF Calls
<1>13. Tables'
  <2> SUFFICES ASSUME NEW r \in Replies PROVE Table(r)'
    BY DEF Tables
  <2>1. Blocked(r) => Blocked(r)'
    BY <1>1, <1>2, <1>3, BlockedKept
  <2> QED BY <1>1, <2>1 DEF IInv, Tables, Table, Working
<1>14. Telling'
  BY <1>1 DEF IInv, Telling, Requests
<1> QED BY <1>6, <1>7, <1>12, <1>13, <1>14 DEF IInv

\* createRequest after its handler: the reply of the request.
LEMMA CreatedStep ==
    ASSUME IInv, NEW r \in Replies, Created(r)
    PROVE  IInv'
<1> DEFINE n == Len(calls)
           q == TopRequest
<1>1. /\ calls \in Seq(Calling) /\ n \in Nat /\ n >= 1 /\ calls # <<>>
      /\ calls[n].in = "createRequest" /\ q = calls[n].request /\ Pop
      /\ q \in 1..idCounter /\ Pending(n) /\ idCounter \in Nat /\ q \in Requests
      /\ idCounter <= MaxRequests /\ MaxRequests \in Nat
  BY NetworkAccessAssumption
     DEF IInv, Typed, Calls, Created, Top, TopRequest, Requests,
         NetworkAccessAssumption
<1>2. /\ owner' = [owner EXCEPT ![r] = q] /\ ids' = [ids EXCEPT ![r] = idCounter]
      /\ UNCHANGED <<idCounter, started, told, nested>>
      /\ life[r] = "none" /\ timer' \subseteq timer \cup {r}
      /\ \/ life' = [life EXCEPT ![r] = "running"] /\ leaked' = leaked \ {r}
         \/ life' = [life EXCEPT ![r] = "finished"] /\ leaked' = leaked \cup {r}
  BY DEF Created, ReplyId
<1>3. /\ ids \in [Replies -> Nat] /\ life \in [Replies -> Lives]
      /\ owner \in [Replies -> Nat] /\ q \in Nat /\ q # 0 /\ idCounter # 0
  BY <1>1 DEF IInv, Typed
<1>4. /\ owner'[r] = q /\ ids'[r] = idCounter /\ life'[r] \in {"running", "finished"}
      /\ life'[r] = "finished" => r \in leaked'
      /\ \A s \in Replies \ {r} : /\ owner'[s] = owner[s] /\ ids'[s] = ids[s]
                                  /\ life'[s] = life[s]
                                  /\ (s \in leaked' <=> s \in leaked)
  BY <1>2, <1>3
<1>5. /\ \A s \in Replies : owner[s] # q
      /\ told[q] = <<>> /\ (q \in nested \/ q = idCounter)
  BY <1>1 DEF Pending
<1>6. /\ calls' \in Seq(Calling) /\ Len(calls') = n - 1
      /\ \A k \in 1..Len(calls') : calls'[k] = calls[k]
  BY <1>1, PopEffect
<1>7. 1..Len(calls') \subseteq 1..n /\ n \notin 1..Len(calls') /\ n \in 1..n
  BY <1>1, <1>6
<1>8. Typed'
  <2>1. life' \in [Replies -> Lives]
    BY <1>2, <1>3 DEF Lives
  <2> QED BY <1>2, <1>3, <1>6, <2>1 DEF IInv, Typed
<1>9. Owners'
  BY <1>1, <1>2, <1>3, <1>4, <1>5 DEF IInv, Owners
<1>10. ASSUME NEW k \in 1..Len(calls')
       PROVE  calls'[k].request \in 1..idCounter' /\ Pending(k)'
  <2>1. calls'[k] = calls[k] /\ k \in 1..n /\ k # n
    BY <1>6, <1>7
  <2>2. calls[k].request \in 1..idCounter /\ Pending(k)
    BY <2>1 DEF IInv, Calls
  <2>3. calls[k].in = "createRequest" => calls[k].request # q
    BY <1>1, <1>7, <2>1 DEF IInv, Calls
  <2> QED BY <1>2, <1>4, <2>1, <2>2, <2>3 DEF Pending
<1>11. Calls'
  <2>1. \A j, k \in 1..Len(calls') :
            /\ j # k
            /\ calls'[j].in = "createRequest" /\ calls'[k].in = "createRequest"
            => calls'[j].request # calls'[k].request
    BY <1>6, <1>7 DEF IInv, Calls
  <2> QED BY <1>10, <2>1 DEF Calls
<1>12. Table(r)'
  <2>1. ~HasEnd(told'[owner'[r]])
    BY <1>2, <1>4, <1>5 DEF HasEnd
  <2> QED BY <1>2, <1>3, <1>4, <1>5, <2>1 DEF Table
<1>13. ASSUME NEW s \in Replies \ {r} PROVE Table(s)'
  <2>1. Blocked(s) => Blocked(s)'
    BY <1>1, <1>4, BlockedKept DEF Top
  <2> QED BY <1>2, <1>4, <2>1 DEF IInv, Tables, Table, Working
<1>14. Telling'
  BY <1>2 DEF IInv, Telling
<1> QED BY <1>8, <1>9, <1>11, <1>12, <1>13, <1>14 DEF IInv, Tables

\* The first bytes of a reply.
LEMMA ReadyReadStep ==
    ASSUME IInv, NEW r \in Replies, ReadyRead(r)
    PROVE  IInv'
<1> DEFINE n == [stage |-> "start", id |-> ids[r]]
<1>1. Working(r) /\ ids[r] # 0 /\ life[r] # "none"
  BY DEF ReadyRead, Working, IInv, Tables, Table
<1>2. /\ UNCHANGED <<idCounter, ids, calls, owner, timer, nested, leaked>>
      /\ started' = started \cup {r}
      /\ told' = [told EXCEPT ![owner[r]] = @ \o <<n>>]
  BY DEF ReadyRead, Tell, Note
<1>3. n \in Told /\ n.stage = "start" /\ n.id = ids[r]
  BY DEF Told, Stages, IInv, Typed
<1>4. /\ life' \in [Replies -> Lives]
      /\ \A s \in Replies \ {r} : life'[s] = life[s]
      /\ life'[r] = life[r] \/ life'[r] \in {"dropped", "kept"}
  <2>1. life \in [Replies -> Lives]
    BY DEF IInv, Typed
  <2>2. life' = life \/ \E new \in {"dropped", "kept"} : life' = [life EXCEPT ![r] = new]
    BY DEF ReadyRead
  <2> QED BY <2>1, <2>2 DEF Lives
<1>5. \A s \in Replies : Blocked(s) => Blocked(s)'
  BY <1>2 DEF Blocked
<1>6. life'[r] # "none" /\ (life'[r] = "finished" => life[r] = "finished")
  BY <1>1, <1>4
<1> HIDE DEF n
<1> QED BY <1>1, <1>2, <1>3, <1>4, <1>5, <1>6, NotingStep

\* The end of a reply.
LEMMA FinishStep ==
    ASSUME IInv, NEW r \in Replies, Finish(r)
    PROVE  IInv'
<1>1. life[r] # "none"
  BY DEF Finish, Working
<1>2. PICK error \in BOOLEAN : Ends(r, error)
  BY DEF Finish
<1> DEFINE before == IF error THEN Note("error", ids[r]) ELSE <<>>
<1>3. /\ before \in {<<>>, Note("error", ids[r])} /\ HandleFinished(r, before)
      /\ life' = [life EXCEPT ![r] = "finished"]
  BY <1>2 DEF Ends
<1>4. UNCHANGED <<idCounter, calls, owner, timer, nested, leaked>>
  BY DEF Finish
<1>5. \A s \in Replies \ {r} : Blocked(s) => Blocked(s)'
  BY <1>4 DEF Blocked
<1> HIDE DEF before
<1> QED BY <1>1, <1>3, <1>4, <1>5, EndingStep

\* deleteLater: the address is free again.
LEMMA DeleteStep ==
    ASSUME IInv, NEW r \in Replies, Delete(r)
    PROVE  IInv'
<1>1. /\ life[r] \in {"finished", "dropped"}
      /\ life' = [life EXCEPT ![r] = "none"] /\ owner' = [owner EXCEPT ![r] = 0]
      /\ timer' = timer \ {r}
      /\ leaked' = IF life[r] = "dropped" THEN leaked \cup {r} ELSE leaked
      /\ UNCHANGED <<idCounter, ids, started, calls, told, nested>>
  BY DEF Delete, tables
<1>2. life \in [Replies -> Lives] /\ owner \in [Replies -> Nat] /\ idCounter \in Nat
  BY NetworkAccessAssumption DEF IInv, Typed, NetworkAccessAssumption
<1>3. /\ life'[r] = "none" /\ owner'[r] = 0
      /\ life[r] = "dropped" => r \in leaked'
      /\ r \notin leaked' => r \notin leaked
      /\ \A s \in Replies \ {r} : /\ life'[s] = life[s] /\ owner'[s] = owner[s]
                                  /\ (s \in leaked' <=> s \in leaked)
  BY <1>1, <1>2
<1>4. Typed'
  BY <1>1, <1>2 DEF IInv, Typed, Lives
<1>5. Owners'
  BY <1>1, <1>2, <1>3 DEF IInv, Owners
<1>6. Calls'
  <2>1. ASSUME NEW k \in 1..Len(calls)
        PROVE  calls[k].request \in 1..idCounter /\ Pending(k)'
    <3>1. calls[k].request \in 1..idCounter /\ Pending(k)
      BY DEF IInv, Calls
    <3>2. calls[k].request # 0
      BY <1>2, <3>1
    <3> QED BY <1>1, <1>3, <3>1, <3>2 DEF Pending
  <2> QED BY <1>1, <2>1 DEF IInv, Calls
<1>7. Tables'
  <2> SUFFICES ASSUME NEW s \in Replies PROVE Table(s)'
    BY DEF Tables
  <2>1. Table(s)
    BY DEF IInv, Tables
  <2>2. CASE s = r
    BY <1>1, <1>3, <2>1, <2>2 DEF Table, Working
  <2>3. CASE s # r
    <3>1. Blocked(s)' <=> Blocked(s)
      BY <1>1, <1>3, <2>3 DEF Blocked
    <3> QED BY <1>1, <1>3, <2>1, <2>3, <3>1 DEF Table, Working
  <2> QED BY <2>2, <2>3
<1>8. Telling'
  BY <1>1 DEF IInv, Telling
<1> QED BY <1>4, <1>5, <1>6, <1>7, <1>8 DEF IInv

\* handleTimeout up to its handler.
LEMMA TimeoutFiresStep ==
    ASSUME IInv, NEW r \in Replies, TimeoutFires(r)
    PROVE  IInv'
<1> DEFINE n == [stage |-> "timeout", id |-> owner[r]]
           c == [in |-> "handleTimeout", request |-> owner[r]]
<1>1. life[r] # "none"
  BY DEF TimeoutFires, Expires, IInv, Owners
<1>2. /\ UNCHANGED <<idCounter, ids, started, life, owner, nested, leaked>>
      /\ timer' \subseteq timer
      /\ told' = [told EXCEPT ![owner[r]] = @ \o <<n>>]
      /\ calls' = Append(calls, c) /\ Push("handleTimeout", owner[r])
  BY DEF TimeoutFires, Tell, Note, Push, tables
<1>3. owner[r] \in Nat /\ life \in [Replies -> Lives]
  BY DEF IInv, Typed
<1>4. n \in Told /\ n.stage = "timeout" /\ n.id = owner[r] /\ c \in Calling
  BY <1>3 DEF Told, Stages, Calling
<1>5. \A s \in Replies : Blocked(s) => Blocked(s)'
  BY <1>2, <1>4, BlockedKept
<1>6. Working(r)' => Working(r)
  BY <1>2 DEF Working
<1> HIDE DEF n, c
<1> QED BY <1>1, <1>2, <1>3, <1>4, <1>5, <1>6, NotingStep

\* The refusal of a reply, up to the handler of its end.
LEMMA RefuseAuthenticationStep ==
    ASSUME IInv, NEW r \in Replies, RefuseAuthentication(r)
    PROVE  IInv'
<1> DEFINE c == [in |-> "provideAuthentication", request |-> owner[r]]
<1>1. /\ life[r] # "none" /\ HandleFinished(r, <<>>)
      /\ UNCHANGED <<idCounter, life, owner, timer, nested, leaked>>
      /\ Push("provideAuthentication", owner[r]) /\ calls' = Append(calls, c)
  BY DEF RefuseAuthentication, Push
<1>2. owner[r] \in Nat /\ calls \in Seq(Calling) /\ Len(calls) \in Nat
  BY DEF IInv, Typed
<1>3. c \in Calling
  BY <1>2 DEF Calling
<1>4. \A s \in Replies : Blocked(s) => Blocked(s)'
  BY <1>1, <1>3, BlockedKept
<1>5. Blocked(r)'
  <2>1. Len(calls') = Len(calls) + 1 /\ calls'[Len(calls) + 1] = c
    <3> HIDE DEF c
    <3> QED BY <1>1, <1>2, <1>3, AppendProperties
  <2>2. Len(calls') \in 1..Len(calls') /\ calls'[Len(calls')] = c
    BY <1>2, <2>1
  <2> QED BY <1>1, <2>2 DEF Blocked
<1> HIDE DEF c
<1> QED BY <1>1, <1>4, <1>5, EndingStep

\* A step of which only the calls can tell.
LEMMA ReturningStep ==
    ASSUME IInv,
           UNCHANGED <<idCounter, ids, started, life, owner, timer, told, nested, leaked>>,
           \/ calls' = calls
           \/ calls # <<>> /\ Pop,
           \A s \in Replies : Working(s) /\ Blocked(s) => Blocked(s)'
    PROVE  IInv'
<1>1. calls \in Seq(Calling) /\ Len(calls) \in Nat
  BY DEF IInv, Typed
<1>2. calls' \in Seq(Calling) /\ 1..Len(calls') \subseteq 1..Len(calls)
      /\ \A k \in 1..Len(calls') : calls'[k] = calls[k]
  <2>1. CASE calls' = calls
    BY <1>1, <2>1
  <2>2. CASE calls # <<>> /\ Pop
    BY <1>1, <2>2, PopEffect
  <2> QED BY <2>1, <2>2
<1>3. Calls'
  BY <1>2 DEF IInv, Calls, Pending
<1>4. Tables'
  BY DEF IInv, Tables, Table, Working
<1> QED BY <1>2, <1>3, <1>4 DEF IInv, Typed, Owners, Telling

\* handleTimeout and provideAuthentication after their handlers.
LEMMA AbortReplyStep == IInv /\ AbortReply => IInv'
<1> SUFFICES ASSUME IInv, AbortReply PROVE IInv'
  OBVIOUS
<1>1. /\ calls # <<>> /\ Pop
      /\ UNCHANGED <<idCounter, owner, timer, nested, leaked>>
  BY DEF AbortReply, Top
<1>2. calls \in Seq(Calling) /\ Len(calls) \in 1..Len(calls) /\ idCounter \in Nat
  BY <1>1, NetworkAccessAssumption DEF IInv, Typed, NetworkAccessAssumption
<1>3. TopRequest \in 1..idCounter
  BY <1>2 DEF IInv, Calls, TopRequest
<1>4. \A s \in Replies : Blocked(s) /\ owner[s] # TopRequest => Blocked(s)'
  BY <1>1, BlockedKept
<1>5. ASSUME NEW r \in Replies, owner[r] = TopRequest, Working(r), Ends(r, TRUE)
      PROVE  IInv'
  <2>1. /\ life[r] # "none" /\ HandleFinished(r, Note("error", ids[r]))
        /\ life' = [life EXCEPT ![r] = "finished"]
    BY <1>5 DEF Working, Ends
  <2>2. \A s \in Replies \ {r} : Blocked(s) => Blocked(s)'
    BY <1>2, <1>3, <1>4, <1>5 DEF IInv, Owners
  <2> QED BY <1>1, <2>1, <2>2, EndingStep
<1>6. ASSUME UNCHANGED <<life, told, ids, started>>,
             \/ \E r \in Replies : owner[r] = TopRequest /\ life[r] = "finished"
             \/ \A r \in Replies : owner[r] # TopRequest
      PROVE  IInv'
  <2>1. \A s \in Replies : Working(s) => owner[s] # TopRequest
    BY <1>2, <1>3, <1>6 DEF IInv, Owners, Working
  <2> QED BY <1>1, <1>4, <1>6, <2>1, ReturningStep
<1> QED BY <1>5, <1>6 DEF AbortReply

\* Every step keeps the invariant.
LEMMA NextIInv == IInv /\ [Next]_vars => IInv'
<1> SUFFICES ASSUME IInv, [Next]_vars PROVE IInv'
  OBVIOUS
<1>1. CASE UNCHANGED vars
  BY <1>1, ReturningStep DEF vars, tables, Blocked
<1>2. CASE AbortReply
  BY <1>2, AbortReplyStep
<1>3. CASE Request
  BY <1>3, RequestStep
<1>4. ASSUME NEW r \in Replies, Network(r) PROVE IInv'
  <2>1. CASE ProvideAuthentication(r)
    BY <2>1, ReturningStep DEF ProvideAuthentication, Blocked
  <2> QED BY <1>4, <2>1, CreatedStep, ReadyReadStep, FinishStep, DeleteStep,
             TimeoutFiresStep, RefuseAuthenticationStep DEF Network
<1> QED BY <1>1, <1>2, <1>3, <1>4 DEF Next

-----------------------------------------------------------------------------
(* Theorems *)

\* Living replies belong to one announced request each; m_ids knows a reply
\* until the end of its request has been told; a working reply it does not know
\* waits for the handler of that end.
THEOREM Invariance == Spec => []IInv
<1> QED BY InitIInv, NextIInv, PTL DEF Spec

\* The script is told the end of a request once, and after it nothing but a late
\* time-out and the error of a refused reply that is closed, with the id 0
\* (handleFinished, networkaccessmanager.cpp).
THEOREM EndsOnceHolds == Spec => []EndsOnce
<1>1. IInv => EndsOnce
  BY DEF IInv, Telling, Once, EndsOnce, Says
<1> QED BY <1>1, Invariance, PTL

\* What is told about a request carries the id it was announced with, unless its
\* own handler has started another request (createRequest, m_ids).
THEOREM AttributedHolds == Spec => []Attributed
<1>1. IInv => Attributed
  BY DEF IInv, Telling, About, Attributed, Says
<1> QED BY <1>1, Invariance, PTL

\* A free address is in neither m_ids nor m_started, unless its last reply was
\* dropped by a redirect or was synchronous.
THEOREM NoStaleEntriesHolds == Spec => []NoStaleEntries
<1>1. IInv => NoStaleEntries
  BY DEF IInv, Tables, Table, NoStaleEntries
<1> QED BY <1>1, Invariance, PTL

-----------------------------------------------------------------------------
(* Types and bounds *)

Noted == [stage : Stages, id : 0..MaxRequests]

\* What of the types the invariant above leaves out.
Bounded ==
    /\ ids \in [Replies -> 0..MaxRequests]
    /\ attempts \in 0..MaxAttempts
    /\ Len(calls) <= MaxNesting
    /\ told \in [Requests -> Seq(Noted)]
    /\ nested \subseteq Requests
    /\ leaked \subseteq Replies
    /\ crashed \in BOOLEAN

\* Together they give the types.
LEMMA TypesFollow == IInv /\ Bounded => TypeOK
<1> SUFFICES ASSUME IInv, Bounded PROVE TypeOK
  OBVIOUS
<1>1. idCounter \in 0..MaxRequests /\ MaxRequests \in Nat
  BY NetworkAccessAssumption DEF IInv, Typed, NetworkAccessAssumption
<1>2. calls \in Seq(Call)
  <2>1. calls \in Seq(Calling) /\ \A k \in 1..Len(calls) : calls[k].request \in 1..idCounter
    BY DEF IInv, Typed, Calls
  <2>2. \A k \in 1..Len(calls) : calls[k] \in Call
    <3> TAKE k \in 1..Len(calls)
    <3>1. calls[k] \in Calling /\ calls[k].request \in Requests
      BY <1>1, <2>1, ElementOfSeq DEF Requests
    <3> QED BY <3>1 DEF Calling, Call
  <2>3. calls = [k \in 1..Len(calls) |-> calls[k]] /\ Len(calls) \in Nat
    BY <2>1
  <2> QED BY <2>2, <2>3
<1>3. owner \in [Replies -> 0..MaxRequests]
  BY <1>1 DEF IInv, Typed, Owners
<1>4. timer \subseteq Replies
  BY DEF IInv, Owners
<1> QED BY <1>2, <1>3, <1>4 DEF IInv, Typed, Bounded, TypeOK, Noted, Stages

\* A manager starts within the bounds.
LEMMA InitBounded == Init => Bounded
<1> SUFFICES ASSUME Init PROVE Bounded
  OBVIOUS
<1>1. /\ 0 \in 0..MaxRequests /\ 0 \in 0..MaxAttempts
      /\ Len(<<>>) <= MaxNesting /\ <<>> \in Seq(Noted)
  BY NetworkAccessAssumption DEF NetworkAccessAssumption
<1>2. told \in [Requests -> Seq(Noted)]
  BY <1>1 DEF Init
<1> QED BY <1>1, <1>2 DEF Init, Bounded

\* What is told keeps its type.
LEMMA TellBounded ==
    ASSUME Bounded, NEW r, NEW notes \in Seq(Noted), Tell(r, notes)
    PROVE  told' \in [Requests -> Seq(Noted)]
<1>1. told \in [Requests -> Seq(Noted)]
  BY DEF Bounded
<1>2. \A q \in Requests : told[q] \o notes \in Seq(Noted)
  BY <1>1, ConcatProperties
<1> QED BY <1>1, <1>2 DEF Tell

\* A note about a request.
LEMMA NoteBounded ==
    ASSUME NEW stage \in Stages, NEW id \in 0..MaxRequests
    PROVE  Note(stage, id) \in Seq(Noted)
<1>1. [stage |-> stage, id |-> id] \in Noted
  BY DEF Noted
<1> QED BY <1>1 DEF Note

\* The end of a reply forgets its id.
LEMMA HandleFinishedBounded ==
    ASSUME Bounded, NEW r \in Replies, NEW before \in Seq(Noted), HandleFinished(r, before)
    PROVE  told' \in [Requests -> Seq(Noted)] /\ ids' \in [Replies -> 0..MaxRequests]
<1>1. ids \in [Replies -> 0..MaxRequests] /\ 0 \in 0..MaxRequests
  BY NetworkAccessAssumption DEF Bounded, NetworkAccessAssumption
<1>2. CASE ~Known(r)
  BY <1>1, <1>2, TellBounded DEF HandleFinished
<1>3. CASE Known(r)
  <2>1. "end" \in Stages
    BY DEF Stages
  <2>2. Note("end", ids[r]) \in Seq(Noted)
    BY <1>1, <2>1, NoteBounded
  <2>3. before \o Note("end", ids[r]) \in Seq(Noted)
    BY <2>2, ConcatProperties
  <2> QED BY <1>1, <1>3, <2>3, TellBounded DEF HandleFinished
<1> QED BY <1>2, <1>3

\* ... also when an error is told before it.
LEMMA EndsBounded ==
    ASSUME Bounded, NEW r \in Replies, NEW error \in BOOLEAN, Ends(r, error)
    PROVE  told' \in [Requests -> Seq(Noted)] /\ ids' \in [Replies -> 0..MaxRequests]
<1> DEFINE before == IF error THEN Note("error", ids[r]) ELSE <<>>
<1>1. Note("error", ids[r]) \in Seq(Noted)
  BY NoteBounded DEF Bounded, Stages
<1>2. before \in Seq(Noted)
  BY <1>1
<1> QED BY <1>2, HandleFinishedBounded DEF Ends

\* A call more, within the bound, or one less.
LEMMA CallsBounded ==
    ASSUME IInv, Bounded,
           \/ calls' = calls
           \/ calls # <<>> /\ Pop
           \/ Len(calls) < MaxNesting /\ \E function, q : Push(function, q)
    PROVE  Len(calls') <= MaxNesting
<1>1. /\ calls \in Seq(Calling) /\ Len(calls) \in Nat /\ Len(calls) <= MaxNesting
      /\ MaxNesting \in Nat
  BY NetworkAccessAssumption DEF IInv, Typed, Bounded, NetworkAccessAssumption
<1>2. CASE calls # <<>> /\ Pop
  BY <1>1, <1>2, PopEffect
<1>3. ASSUME Len(calls) < MaxNesting, NEW function, NEW q, Push(function, q)
      PROVE  Len(calls') <= MaxNesting
  BY <1>1, <1>3 DEF Push
<1> QED BY <1>1, <1>2, <1>3

\* Every step stays within the bounds.
LEMMA NextBounded == IInv /\ Bounded /\ [Next]_vars => Bounded'
<1> SUFFICES ASSUME IInv, Bounded, [Next]_vars PROVE Bounded'
  OBVIOUS
<1>1. /\ idCounter \in 0..MaxRequests /\ MaxRequests \in Nat /\ MaxAttempts \in Nat
      /\ owner \in [Replies -> Nat] /\ Bounded
  BY NetworkAccessAssumption DEF IInv, Typed, NetworkAccessAssumption
<1>2. \A r \in Replies : owner[r] \in 0..MaxRequests
  BY <1>1 DEF IInv, Owners
<1>3. CASE UNCHANGED vars
  BY <1>1, <1>3 DEF Bounded, vars, tables
<1>4. CASE AbortReply
  <2>1. Len(calls') <= MaxNesting
    BY <1>4, CallsBounded DEF AbortReply, Top
  <2>2. told' \in [Requests -> Seq(Noted)] /\ ids' \in [Replies -> 0..MaxRequests]
        /\ crashed' \in BOOLEAN
    BY <1>1, <1>4, EndsBounded DEF AbortReply, Bounded
  <2> QED BY <1>1, <1>4, <2>1, <2>2 DEF AbortReply, Bounded
<1>5. CASE Request /\ UNCHANGED crashed
  <2>1. Len(calls') <= MaxNesting
    BY <1>5, CallsBounded DEF Request
  <2>2. nested' \subseteq Requests
    <3>1. \A k \in 1..Len(calls) : calls[k].request \in Requests
      BY <1>1 DEF IInv, Calls, Requests
    <3> QED BY <1>1, <1>5, <3>1 DEF Request, Asking, Bounded
  <2> QED BY <1>1, <1>5, <2>1, <2>2 DEF Request, Bounded, tables
<1>6. ASSUME NEW r \in Replies, Network(r), UNCHANGED crashed PROVE Bounded'
  <2>1. CASE Created(r)
    <3>1. Len(calls') <= MaxNesting
      BY <2>1, CallsBounded DEF Created, Top
    <3> QED BY <1>1, <1>6, <2>1, <3>1 DEF Created, ReplyId, Bounded
  <2>2. CASE ReadyRead(r)
    <3>1. Note("start", ids[r]) \in Seq(Noted)
      BY <1>1, NoteBounded DEF Bounded, Stages
    <3>2. told' \in [Requests -> Seq(Noted)]
      BY <2>2, <3>1, TellBounded DEF ReadyRead
    <3> QED BY <1>1, <1>6, <2>2, <3>2 DEF ReadyRead, Bounded
  <2>3. CASE Finish(r)
    <3>1. told' \in [Requests -> Seq(Noted)] /\ ids' \in [Replies -> 0..MaxRequests]
      BY <2>3, EndsBounded DEF Finish
    <3> QED BY <1>1, <1>6, <2>3, <3>1 DEF Finish, Bounded
  <2>4. CASE Delete(r)
    BY <1>1, <1>6, <2>4 DEF Delete, Bounded, tables
  <2>5. CASE TimeoutFires(r)
    <3>1. Note("timeout", owner[r]) \in Seq(Noted)
      BY <1>2, NoteBounded DEF Stages
    <3>2. told' \in [Requests -> Seq(Noted)]
      BY <2>5, <3>1, TellBounded DEF TimeoutFires
    <3>3. Len(calls') <= MaxNesting
      BY <2>5, CallsBounded DEF TimeoutFires
    <3> QED BY <1>1, <1>6, <2>5, <3>2, <3>3 DEF TimeoutFires, Bounded, tables
  <2>6. CASE ProvideAuthentication(r)
    BY <1>1, <1>6, <2>6 DEF ProvideAuthentication, Bounded
  <2>7. CASE RefuseAuthentication(r)
    <3>1. <<>> \in Seq(Noted)
      OBVIOUS
    <3>2. told' \in [Requests -> Seq(Noted)] /\ ids' \in [Replies -> 0..MaxRequests]
      BY <2>7, <3>1, HandleFinishedBounded DEF RefuseAuthentication
    <3>3. Len(calls') <= MaxNesting
      BY <2>7, CallsBounded DEF RefuseAuthentication
    <3> QED BY <1>1, <1>6, <2>7, <3>2, <3>3
            DEF RefuseAuthentication, AfterRefusal, Bounded
  <2> QED BY <1>6, <2>1, <2>2, <2>3, <2>4, <2>5, <2>6, <2>7 DEF Network
<1> QED BY <1>3, <1>4, <1>5, <1>6 DEF Next

\* Ids, notes, handlers and attempts stay within their bounds: no id is told that
\* was not given out, and no answer is tried more often than m_maxAuthAttempts
\* (provideAuthentication).
THEOREM TypeCorrect == Spec => []TypeOK
<1>1. IInv /\ Bounded /\ [Next]_vars => (IInv /\ Bounded)'
  BY NextIInv, NextBounded
<1>2. IInv /\ Bounded => TypeOK
  BY TypesFollow
<1> QED BY <1>1, <1>2, InitIInv, InitBounded, PTL DEF Spec
=============================================================================
