-------------------------- MODULE CookieJarProofs --------------------------
(***************************************************************************)
(* The cookie jar, for all cookies and URLs.                               *)
(***************************************************************************)
EXTENDS CookieJar, SequenceTheorems, FiniteSetTheorems, WellFoundedInduction, TLAPS

-----------------------------------------------------------------------------
(* Choosing from a list *)

\* Different members of a finite set whose ranks are at most their number have
\* all the ranks.
LEMMA AllRanks ==
    ASSUME NEW S, IsFiniteSet(S), NEW rank \in [S -> 1..Cardinality(S)],
           \A i, j \in S : rank[i] = rank[j] => i = j,
           NEW k \in 1..Cardinality(S)
    PROVE  \E i \in S : rank[i] = k
<1> DEFINE T == 1..Cardinality(S)
<1>1. Cardinality(S) \in Nat
  BY FS_CardinalityType
<1>2. IsFiniteSet(T) /\ Cardinality(T) = Cardinality(S)
  BY <1>1, FS_Interval
<1>3. rank \in Injection(S, T)
  BY DEF Injection, IsInjective
<1>4. rank \in Surjection(S, T)
  BY <1>2, <1>3, FS_Injection
<1> QED BY <1>4 DEF Surjection

\* Every number up to the size of a set of places has one place.
LEMMA NthIsThere ==
    ASSUME NEW places, places \subseteq Nat, IsFiniteSet(places), NEW k \in 1..Cardinality(places)
    PROVE  /\ Nth(places, k) \in places
           /\ Cardinality({j \in places : j <= Nth(places, k)}) = k
           /\ \A i \in places : Cardinality({j \in places : j <= i}) = k => i = Nth(places, k)
<1> DEFINE upTo(i) == {j \in places : j <= i}
           rank == [i \in places |-> Cardinality(upTo(i))]
<1>1. ASSUME NEW i \in places
      PROVE  /\ IsFiniteSet(upTo(i)) /\ Cardinality(upTo(i)) \in Nat
             /\ Cardinality(upTo(i)) \in 1..Cardinality(places)
  <2>1. upTo(i) \in SUBSET places /\ i \in upTo(i)
    OBVIOUS
  <2>2. IsFiniteSet(upTo(i)) /\ Cardinality(upTo(i)) <= Cardinality(places)
    BY <2>1, FS_Subset
  <2>3. Cardinality(upTo(i)) \in Nat /\ Cardinality(places) \in Nat
    BY <2>2, FS_CardinalityType
  <2>4. Cardinality(upTo(i)) # 0
    BY <2>1, <2>2, FS_EmptySet
  <2> QED BY <2>2, <2>3, <2>4
<1>2. ASSUME NEW i \in places, NEW j \in places, i < j
      PROVE  Cardinality(upTo(i)) # Cardinality(upTo(j))
  <2>1. upTo(i) \subseteq upTo(j) /\ j \in upTo(j) /\ j \notin upTo(i)
    <3>1. i \in Nat /\ j \in Nat /\ \A x \in places : x \in Nat
      OBVIOUS
    <3>2. j <= j /\ ~(j <= i) /\ \A x \in places : x <= i => x <= j
      BY <1>2, <3>1
    <3> QED BY <3>2
  <2>2. IsFiniteSet(upTo(j))
    BY <1>1
  <2> HIDE DEF upTo
  <2> QED BY <2>1, <2>2, FS_Subset
<1>3. rank \in [places -> 1..Cardinality(places)]
  BY <1>1
<1>4. \A i, j \in places : rank[i] = rank[j] => i = j
  <2> TAKE i, j \in places
  <2>1. i < j \/ j < i \/ i = j
    OBVIOUS
  <2>2. rank[i] = Cardinality(upTo(i)) /\ rank[j] = Cardinality(upTo(j))
    OBVIOUS
  <2> HIDE DEF rank, upTo
  <2> QED BY <1>2, <2>1, <2>2
<1>5. \E i \in places : rank[i] = k
  <2> HIDE DEF rank
  <2> QED BY <1>3, <1>4, AllRanks
<1>6. \E i \in places : Cardinality(upTo(i)) = k
  BY <1>5
<1>7. Nth(places, k) \in places /\ Cardinality(upTo(Nth(places, k))) = k
  BY <1>6 DEF Nth
<1>8. \A i \in places : Cardinality(upTo(i)) = k => i = Nth(places, k)
  <2> HIDE DEF rank, upTo
  <2>1. \A i \in places : rank[i] = Cardinality(upTo(i))
    BY DEF rank
  <2> QED BY <1>4, <1>7, <2>1
<1> QED BY <1>7, <1>8

\* The places are in their order.
LEMMA NthIncreasing ==
    ASSUME NEW places, places \subseteq Nat, IsFiniteSet(places),
           NEW k \in 1..Cardinality(places), NEW l \in 1..Cardinality(places), k < l
    PROVE  Nth(places, k) < Nth(places, l)
<1> DEFINE a == Nth(places, k)
           b == Nth(places, l)
           upTo(i) == {j \in places : j <= i}
<1>1. a \in Nat /\ b \in Nat /\ Cardinality(upTo(a)) = k /\ Cardinality(upTo(b)) = l
  BY NthIsThere
<1>2. SUFFICES ASSUME b <= a PROVE FALSE
  BY <1>1
<1>3. upTo(b) \subseteq upTo(a) /\ upTo(a) \subseteq places
  <2>1. \A j \in places : j \in Nat
    OBVIOUS
  <2> HIDE DEF a, b
  <2>2. \A j \in places : j <= b => j <= a
    BY <1>1, <1>2, <2>1
  <2> QED BY <2>2
<1> HIDE DEF upTo
<1>4. IsFiniteSet(upTo(a)) /\ Cardinality(upTo(b)) <= Cardinality(upTo(a))
  BY <1>3, FS_Subset
<1> QED BY <1>1, <1>4

\* Some places of a list.
PlacesOf(S, s, places) == s \in Seq(S) /\ places \subseteq 1..Len(s)

\* The cookies at some places are those of the list, each once, in their order.
LEMMA ChosenProperties ==
    ASSUME NEW S, NEW s, NEW places, PlacesOf(S, s, places)
    PROVE  /\ Cardinality(places) \in Nat
           /\ Chosen(s, places) \in Seq(S) /\ Len(Chosen(s, places)) = Cardinality(places)
           /\ \A k \in 1..Cardinality(places) :
                  /\ Nth(places, k) \in places
                  /\ Chosen(s, places)[k] = s[Nth(places, k)]
           /\ \A k, l \in 1..Cardinality(places) :
                  Nth(places, k) = Nth(places, l) => k = l
           /\ \A i \in places : \E k \in 1..Cardinality(places) : Nth(places, k) = i
<1> DEFINE n == Cardinality(places)
           upTo(i) == {j \in places : j <= i}
<1>0. s \in Seq(S) /\ places \subseteq 1..Len(s)
  BY DEF PlacesOf
<1>1. /\ Len(s) \in Nat /\ places \subseteq Nat /\ IsFiniteSet(places)
      /\ \A i \in 1..Len(s) : s[i] \in S
  <2>1. IsFiniteSet(1..Len(s)) /\ Len(s) \in Nat
    BY <1>0, FS_Interval
  <2>2. IsFiniteSet(places)
    BY <1>0, <2>1, FS_Subset
  <2>3. \A i \in 1..Len(s) : s[i] \in S
    BY <1>0, ElementOfSeq
  <2> QED BY <1>0, <2>1, <2>2, <2>3
<1>2. n \in Nat
  BY <1>1, FS_CardinalityType
<1>3. \A k \in 1..n : Nth(places, k) \in places /\ Cardinality(upTo(Nth(places, k))) = k
  BY <1>1, NthIsThere
<1>4. \A k, l \in 1..n : Nth(places, k) = Nth(places, l) => k = l
  BY <1>3
<1>5. Chosen(s, places) = [k \in 1..n |-> s[Nth(places, k)]]
  BY DEF Chosen
<1>6. \A k \in 1..n : s[Nth(places, k)] \in S
  BY <1>0, <1>1, <1>3
<1>7. /\ Chosen(s, places) \in Seq(S) /\ Len(Chosen(s, places)) = n
      /\ \A k \in 1..n : Chosen(s, places)[k] = s[Nth(places, k)]
  <2> HIDE DEF n
  <2> QED BY <1>2, <1>5, <1>6
<1>8. ASSUME NEW i \in places PROVE \E k \in 1..n : Nth(places, k) = i
  <2> DEFINE nth == [k \in 1..n |-> Nth(places, k)]
  <2>1. IsFiniteSet(1..n) /\ Cardinality(1..n) = n
    BY <1>2, FS_Interval
  <2>2. nth \in Injection(1..n, places)
    BY <1>3, <1>4 DEF Injection, IsInjective
  <2>3. nth \in Surjection(1..n, places)
    BY <1>1, <2>1, <2>2, FS_Injection
  <2> QED BY <2>3 DEF Surjection
<1> QED BY <1>2, <1>3, <1>4, <1>7, <1>8

LEMMA ChosenOrder ==
    ASSUME NEW S, NEW s, NEW places, PlacesOf(S, s, places)
    PROVE  /\ IsFiniteSet(places) /\ Cardinality(places) \in Nat
           /\ \A k, l \in 1..Cardinality(places) : k < l => Nth(places, k) < Nth(places, l)
<1>1. Len(s) \in Nat /\ places \subseteq 1..Len(s) /\ IsFiniteSet(1..Len(s))
  BY FS_Interval DEF PlacesOf
<1>2. IsFiniteSet(places)
  BY <1>1, FS_Subset
<1>3. Cardinality(places) \in Nat
  BY <1>2, FS_CardinalityType
<1>4. places \subseteq Nat
  BY <1>1
<1> QED BY <1>2, <1>3, <1>4, NthIncreasing

\* What has been chosen is in the list, at one of the places.
LEMMA ChosenFrom ==
    ASSUME NEW S, NEW s, NEW places, PlacesOf(S, s, places)
    PROVE  \A k \in 1..Len(Chosen(s, places)) :
               \E i \in places : Chosen(s, places)[k] = s[i]
<1> DEFINE t == Chosen(s, places)
           n == Cardinality(places)
<1>1. Len(t) = n /\ \A j \in 1..n : Nth(places, j) \in places /\ t[j] = s[Nth(places, j)]
  BY ChosenProperties
<1> HIDE DEF t, n
<1>2. \A k \in 1..Len(t) : \E i \in places : t[k] = s[i]
  BY <1>1
<1> QED BY <1>2 DEF t

-----------------------------------------------------------------------------
(* Lists of cookies *)

\* A cookie with the name and the value of one that servers and scripts set.
Given == {c \in Cookie : \E d \in Cookies : d.name = c.name /\ d.value = c.value}

\* A cookie in the jar.
Stored == {c \in Given : c.path # 0 /\ c.domain # NoDomain}

KeysUnique(s) ==
    \A i, j \in 1..Len(s) :
        /\ s[i].name = s[j].name /\ s[i].domain = s[j].domain /\ s[i].path = s[j].path
        => i = j

\* No cookie is one of a top-level domain.
Sited(s) == \A k \in 1..Len(s) : s[k].domain.dot => ~IsEffectiveTLD(s[k].domain.labels)

\* The cookies before one that are related to it, and do not crowd it out.
RelatedBefore(s, k) == {i \in 1..(k - 1) : Related(s[k].domain, s[i].domain)}
Roomy(s) == \A k \in 1..Len(s) : Cardinality(RelatedBefore(s, k)) <= MaxForDomain

Good(s) == s \in Seq(Stored) /\ KeysUnique(s) /\ Sited(s) /\ Roomy(s)

\* They are finitely many.
LEMMA RelatedBeforeFinite ==
    ASSUME NEW s, NEW k \in Nat \ {0}
    PROVE  /\ RelatedBefore(s, k) \subseteq 1..(k - 1) /\ IsFiniteSet(RelatedBefore(s, k))
           /\ Cardinality(RelatedBefore(s, k)) \in Nat
           /\ Cardinality(RelatedBefore(s, k)) <= k - 1
<1>1. IsFiniteSet(1..(k - 1)) /\ Cardinality(1..(k - 1)) = k - 1
  BY FS_Interval
<1>2. RelatedBefore(s, k) \subseteq 1..(k - 1)
  BY DEF RelatedBefore
<1>3. IsFiniteSet(RelatedBefore(s, k)) /\ Cardinality(RelatedBefore(s, k)) <= k - 1
  BY <1>1, <1>2, FS_Subset
<1> QED BY <1>2, <1>3, FS_CardinalityType

\* Some of the cookies of a jar.
LEMMA ChosenGood ==
    ASSUME NEW s, Good(s), NEW places, places \subseteq 1..Len(s)
    PROVE  Good(Chosen(s, places))
<1>1. PlacesOf(Stored, s, places)
  BY DEF Good, PlacesOf
<1> DEFINE t == Chosen(s, places)
           n == Cardinality(places)
<1>2. /\ t \in Seq(Stored) /\ Len(t) = n
      /\ \A k \in 1..n : Nth(places, k) \in places /\ t[k] = s[Nth(places, k)]
      /\ \A k, l \in 1..n : Nth(places, k) = Nth(places, l) => k = l
  BY <1>1, ChosenProperties
<1>3. n \in Nat /\ \A k, l \in 1..n : k < l => Nth(places, k) < Nth(places, l)
  BY <1>1, ChosenOrder
<1> HIDE DEF t, n
<1>4. KeysUnique(t)
  <2> SUFFICES ASSUME NEW k \in 1..n, NEW l \in 1..n, t[k].name = t[l].name,
                      t[k].domain = t[l].domain, t[k].path = t[l].path
               PROVE  k = l
    BY <1>2 DEF KeysUnique
  <2> DEFINE a == Nth(places, k)
             b == Nth(places, l)
  <2>1. /\ a \in 1..Len(s) /\ b \in 1..Len(s) /\ s[a].name = s[b].name
        /\ s[a].domain = s[b].domain /\ s[a].path = s[b].path
    BY <1>2
  <2> HIDE DEF a, b
  <2>2. a = b
    BY <2>1 DEF Good, KeysUnique
  <2> QED BY <1>2, <2>2 DEF a, b
<1>5. Sited(t)
  BY <1>2 DEF Good, Sited
<1>6. Roomy(t)
  <2> SUFFICES ASSUME NEW k \in 1..n
               PROVE  Cardinality(RelatedBefore(t, k)) <= MaxForDomain
    BY <1>2 DEF Roomy
  <2> DEFINE a == Nth(places, k)
             R == RelatedBefore(t, k)
             Q == RelatedBefore(s, a)
             f == [i \in R |-> Nth(places, i)]
  <2>1. a \in 1..Len(s) /\ t[k] = s[a] /\ Len(s) \in Nat
    <3>1. s \in Seq(Stored)
      BY DEF Good
    <3>2. a \in places /\ t[k] = s[a]
      BY <1>2
    <3> HIDE DEF a
    <3> QED BY <3>1, <3>2
  <2>2. ASSUME NEW i \in R PROVE i \in 1..n /\ Nth(places, i) \in Q
    <3>1. i \in 1..(k - 1) /\ i \in 1..n /\ i < k /\ Related(t[k].domain, t[i].domain)
      BY <1>3 DEF RelatedBefore
    <3>2. Nth(places, i) \in 1..Len(s) /\ Nth(places, i) < a /\ t[i] = s[Nth(places, i)]
      BY <1>2, <1>3, <3>1
    <3> HIDE DEF a
    <3>3. Nth(places, i) \in 1..(a - 1)
      BY <2>1, <3>2
    <3> QED BY <2>1, <3>1, <3>2, <3>3 DEF RelatedBefore
  <2> HIDE DEF R, Q
  <2>3. f \in Injection(R, Q)
    BY <1>2, <2>2 DEF Injection, IsInjective
  <2>4. IsFiniteSet(Q) /\ Cardinality(Q) \in Nat /\ Cardinality(Q) <= MaxForDomain
    BY <2>1, RelatedBeforeFinite DEF Good, Roomy, Q
  <2>5. IsFiniteSet(R) /\ Cardinality(R) <= Cardinality(Q)
    BY <2>3, <2>4, FS_Injection
  <2>6. Cardinality(R) \in Nat
    BY <2>5, FS_CardinalityType
  <2>7. Cardinality(R) <= MaxForDomain
    BY <2>4, <2>5, <2>6, CookieJarAssumption DEF CookieJarAssumption
  <2> QED BY <2>7 DEF R
<1> QED BY <1>2, <1>4, <1>5, <1>6 DEF Good, t

\* A URL that can set a cookie gives it what it lacks.
Fits(c, u) ==
    u.path \in 1..MaxPath /\ (c.domain = NoDomain => u.host \in Seq(STRING) \ {<<>>})

\* What goes into the jar has a path and a domain.
LEMMA CompletedIsStored ==
    ASSUME NEW c \in Given, NEW u, Fits(c, u)
    PROVE  Completed(c, u) \in Stored
<1> DEFINE path == IF c.path = 0 THEN u.path ELSE c.path
           domain == IF c.domain = NoDomain THEN Host(u.host) ELSE [c.domain EXCEPT !.dot = TRUE]
           d == [[c EXCEPT !.path = path] EXCEPT !.domain = domain]
<1>1. c \in Cookie /\ \E e \in Cookies : e.name = c.name /\ e.value = c.value
  BY DEF Given
<1>2. path \in 0..MaxPath /\ path # 0
  BY <1>1, CookieJarAssumption DEF Fits, Cookie, CookieJarAssumption
<1>3. domain \in [labels : Seq(STRING), dot : BOOLEAN] /\ domain # NoDomain
  <2>1. CASE c.domain = NoDomain
    <3>1. u.host \in Seq(STRING) /\ u.host # <<>>
      BY <2>1 DEF Fits
    <3>2. Host(u.host).labels = u.host /\ NoDomain.labels = <<>>
      BY DEF Host, NoDomain
    <3> QED BY <2>1, <3>1, <3>2 DEF Host
  <2>2. CASE c.domain # NoDomain
    <3>1. c.domain \in [labels : Seq(STRING), dot : BOOLEAN]
      BY <1>1 DEF Cookie
    <3>2. domain = [c.domain EXCEPT !.dot = TRUE]
      BY <2>2
    <3>3. domain.dot = TRUE /\ NoDomain.dot = FALSE
      BY <3>1, <3>2 DEF NoDomain
    <3> QED BY <3>1, <3>2, <3>3
  <2> QED BY <2>1, <2>2
<1>4. Completed(c, u) = d
  BY <1>1 DEF Completed, Cookie
<1> HIDE DEF path, domain
<1>5. d \in Cookie /\ d.path = path /\ d.domain = domain
      /\ d.name = c.name /\ d.value = c.value
  BY <1>1, <1>2, <1>3 DEF Cookie
<1> HIDE DEF d
<1>6. d \in Given
  BY <1>1, <1>5 DEF Given
<1> QED BY <1>2, <1>3, <1>4, <1>5, <1>6 DEF Stored

\* Where the cookies are that SetCookieFromUrl leaves beside a new one.
Same(s, new) == {i \in DOMAIN s : SameCookie(new, s[i])}
Beside(s, new) == {i \in DOMAIN s : i \in Same(s, new) => \E j \in Same(s, new) : j < i}

\* They are all but the one that is the same.
LEMMA OthersDiffer ==
    ASSUME NEW s, Good(s), NEW new
    PROVE  /\ Beside(s, new) = (1..Len(s)) \ Same(s, new)
           /\ Good(Chosen(s, Beside(s, new)))
           /\ \A k \in 1..Len(Chosen(s, Beside(s, new))) :
                  ~SameCookie(new, Chosen(s, Beside(s, new))[k])
<1> DEFINE same == Same(s, new)
           places == Beside(s, new)
<1>1. s \in Seq(Stored) /\ DOMAIN s = 1..Len(s) /\ Len(s) \in Nat
  BY DEF Good
<1>2. \A i, j \in same : i = j
  <2> SUFFICES ASSUME NEW i \in same, NEW j \in same PROVE i = j
    OBVIOUS
  <2>1. /\ i \in 1..Len(s) /\ j \in 1..Len(s) /\ s[i].name = s[j].name
        /\ s[i].domain = s[j].domain /\ s[i].path = s[j].path
    BY <1>1 DEF SameCookie, Same
  <2> QED BY <2>1 DEF Good, KeysUnique
<1>3. places = (1..Len(s)) \ same
  <2>1. \A i \in same : i \in 1..Len(s) /\ ~ (i < i)
    BY <1>1 DEF Same
  <2>2. places = {i \in 1..Len(s) : i \in same => \E j \in same : j < i}
    BY <1>1 DEF Beside
  <2> HIDE DEF same, places
  <2> QED BY <1>2, <2>1, <2>2
<1> HIDE DEF places
<1>4. places \subseteq 1..Len(s)
  BY <1>3
<1>5. Good(Chosen(s, places))
  BY <1>4, ChosenGood
<1>6. \A k \in 1..Len(Chosen(s, places)) :
          \E i \in places : Chosen(s, places)[k] = s[i]
  <2>1. PlacesOf(Stored, s, places)
    BY <1>1, <1>4 DEF PlacesOf
  <2> QED BY <2>1, ChosenFrom
<1>7. \A i \in places : ~SameCookie(new, s[i])
  BY <1>1, <1>3 DEF Same
<1> QED BY <1>3, <1>5, <1>6, <1>7 DEF places

\* The cookies related to a new one, and those that stay beside it.
RelatedTo(s, new) == {i \in DOMAIN s : Related(new.domain, s[i].domain)}
Newest(related) == {i \in related : Cardinality({j \in related : j > i}) < MaxForDomain}
Kept(s, new) == {i \in DOMAIN s :
                    i \in RelatedTo(s, new) =>
                        Cardinality({j \in RelatedTo(s, new) : j > i}) < MaxForDomain}

\* No more than MaxForDomain are the newest.
LEMMA NewestAreFew ==
    ASSUME NEW n \in Nat, NEW R, R \subseteq 1..n
    PROVE  /\ IsFiniteSet(Newest(R)) /\ Cardinality(Newest(R)) \in Nat
           /\ Cardinality(Newest(R)) <= MaxForDomain
<1> DEFINE above(i) == {j \in R : j > i}
           N == Newest(R)
           T == 0..(MaxForDomain - 1)
           f == [i \in N |-> Cardinality(above(i))]
<1>1. MaxForDomain \in Nat
  BY CookieJarAssumption DEF CookieJarAssumption
<1>2. IsFiniteSet(R) /\ R \subseteq Nat
  <2>1. IsFiniteSet(1..n)
    BY FS_Interval
  <2>2. IsFiniteSet(R)
    BY <2>1, FS_Subset
  <2> QED BY <2>2
<1>3. \A i : IsFiniteSet(above(i)) /\ Cardinality(above(i)) \in Nat
  <2> TAKE i
  <2>1. above(i) \subseteq R
    OBVIOUS
  <2> HIDE DEF above
  <2> QED BY <1>2, <2>1, FS_Subset, FS_CardinalityType
<1>4. ASSUME NEW i \in R, NEW j \in R, i < j
      PROVE  Cardinality(above(i)) # Cardinality(above(j))
  <2>1. j \in above(i) /\ j \notin above(j) /\ above(j) \subseteq above(i)
    <3>1. i \in Nat /\ j \in Nat /\ \A x \in R : x \in Nat
      BY <1>2
    <3>2. j > i /\ ~ (j > j) /\ \A x \in R : x > j => x > i
      BY <1>4, <3>1
    <3> QED BY <3>2
  <2> HIDE DEF above
  <2> QED BY <1>3, <2>1, FS_Subset
<1>5. N \subseteq R /\ \A i \in N : Cardinality(above(i)) < MaxForDomain
  BY DEF Newest
<1> HIDE DEF N
<1>6. f \in Injection(N, T)
  <2>1. f \in [N -> T]
    <3> HIDE DEF above
    <3>1. \A i \in N : Cardinality(above(i)) \in T
      BY <1>1, <1>3, <1>5
    <3> QED BY <3>1
  <2>2. ASSUME NEW i \in N, NEW j \in N, f[i] = f[j] PROVE i = j
    <3>1. i \in R /\ j \in R /\ i \in Nat /\ j \in Nat
      BY <1>2, <1>5
    <3>2. Cardinality(above(i)) = Cardinality(above(j))
      BY <2>2
    <3>3. i < j \/ j < i \/ i = j
      BY <3>1
    <3> HIDE DEF above
    <3> QED BY <1>4, <3>1, <3>2, <3>3
  <2> QED BY <2>1, <2>2 DEF Injection, IsInjective
<1>7. IsFiniteSet(T) /\ Cardinality(T) = MaxForDomain
  BY <1>1, FS_Interval
<1>8. IsFiniteSet(N) /\ Cardinality(N) <= MaxForDomain
  BY <1>6, <1>7, FS_Injection
<1> QED BY <1>8, FS_CardinalityType DEF N

\* The jar after making room.
LEMMA MakeRoomGood ==
    ASSUME NEW s, Good(s), NEW new, \A k \in 1..Len(s) : ~SameCookie(new, s[k])
    PROVE  /\ Good(MakeRoom(s, new))
           /\ \A k \in 1..Len(MakeRoom(s, new)) : ~SameCookie(new, MakeRoom(s, new)[k])
           /\ Cardinality(RelatedTo(MakeRoom(s, new), new)) <= MaxForDomain
<1> DEFINE kept == Kept(s, new)
           t == Chosen(s, kept)
           related == RelatedTo(s, new)
<1>1. s \in Seq(Stored) /\ DOMAIN s = 1..Len(s) /\ Len(s) \in Nat
  BY DEF Good
<1>2. kept \subseteq 1..Len(s) /\ MakeRoom(s, new) = t
  BY <1>1 DEF MakeRoom, Kept, RelatedTo
<1>3. \A i \in kept : i \in related => i \in Newest(related)
  BY DEF Kept, Newest
<1>4. related \subseteq 1..Len(s)
  BY <1>1 DEF RelatedTo
<1>5. \A i \in 1..Len(s) : Related(new.domain, s[i].domain) => i \in related
  BY <1>1 DEF RelatedTo
<1> HIDE DEF kept, related
<1>6. Good(t)
  BY <1>2, ChosenGood
<1>7. PlacesOf(Stored, s, kept)
  BY <1>1, <1>2 DEF PlacesOf
<1>8. \A k \in 1..Len(t) : \E i \in kept : t[k] = s[i]
  BY <1>7, ChosenFrom
<1>9. Cardinality(RelatedTo(t, new)) <= MaxForDomain
  <2> DEFINE R == RelatedTo(t, new)
             Q == Newest(related)
             f == [k \in R |-> Nth(kept, k)]
             n == Cardinality(kept)
  <2>1. /\ Len(t) = n
        /\ \A k \in 1..n : Nth(kept, k) \in kept /\ t[k] = s[Nth(kept, k)]
        /\ \A k, l \in 1..n : Nth(kept, k) = Nth(kept, l) => k = l
    BY <1>7, ChosenProperties
  <2> HIDE DEF n, t
  <2>2. DOMAIN t = 1..n
    BY <1>6, <2>1 DEF Good
  <2>3. R \subseteq 1..n /\ \A k \in R : Related(new.domain, t[k].domain)
    BY <2>2 DEF RelatedTo
  <2> HIDE DEF R
  <2>4. \A k \in R : Nth(kept, k) \in Q
    BY <1>2, <1>3, <1>5, <2>1, <2>3
  <2>5. f \in Injection(R, Q)
    BY <2>1, <2>3, <2>4 DEF Injection, IsInjective
  <2>6. IsFiniteSet(Q) /\ Cardinality(Q) \in Nat /\ Cardinality(Q) <= MaxForDomain
    BY <1>1, <1>4, NewestAreFew
  <2>7. IsFiniteSet(R) /\ Cardinality(R) <= Cardinality(Q)
    BY <2>5, <2>6, FS_Injection
  <2>8. Cardinality(R) \in Nat /\ MaxForDomain \in Nat
    BY <2>7, FS_CardinalityType, CookieJarAssumption DEF CookieJarAssumption
  <2>9. Cardinality(R) <= MaxForDomain
    BY <2>6, <2>7, <2>8
  <2> QED BY <2>9 DEF R
<1> QED BY <1>2, <1>6, <1>8, <1>9

\* A jar stays good when a cookie that it has room for comes last.
LEMMA AppendGood ==
    ASSUME NEW s, Good(s), NEW new \in Stored, \A k \in 1..Len(s) : ~SameCookie(new, s[k]),
           Cardinality(RelatedTo(s, new)) <= MaxForDomain,
           new.domain.dot => ~IsEffectiveTLD(new.domain.labels)
    PROVE  Good(Append(s, new))
<1> DEFINE t == Append(s, new)
           n == Len(s)
<1>1. s \in Seq(Stored) /\ n \in Nat /\ DOMAIN s = 1..n
  BY DEF Good
<1>2. /\ t \in Seq(Stored) /\ Len(t) = n + 1 /\ t[n + 1] = new
      /\ \A k \in 1..n : t[k] = s[k]
  BY <1>1, AppendProperties
<1> HIDE DEF t, n
<1>3. \A i \in 1..Len(t) : i \in 1..n \/ i = n + 1
  BY <1>1, <1>2
<1>4. KeysUnique(t)
  <2> SUFFICES ASSUME NEW k \in 1..Len(t), NEW l \in 1..Len(t), t[k].name = t[l].name,
                      t[k].domain = t[l].domain, t[k].path = t[l].path
               PROVE  k = l
    BY DEF KeysUnique
  <2>1. CASE k \in 1..n /\ l \in 1..n
    BY <1>2, <2>1 DEF Good, KeysUnique, n
  <2>2. CASE k \in 1..n /\ l = n + 1
    BY <1>2, <2>2 DEF SameCookie, n
  <2>3. CASE k = n + 1 /\ l \in 1..n
    BY <1>2, <2>3 DEF SameCookie, n
  <2> QED BY <1>3, <2>1, <2>2, <2>3
<1>5. Sited(t)
  BY <1>2, <1>3 DEF Good, Sited, n
<1>6. Roomy(t)
  <2> SUFFICES ASSUME NEW k \in 1..Len(t)
               PROVE  Cardinality(RelatedBefore(t, k)) <= MaxForDomain
    BY DEF Roomy
  <2>1. CASE k \in 1..n
    <3>1. RelatedBefore(t, k) = RelatedBefore(s, k)
      <4>1. \A i \in 1..(k - 1) : t[i] = s[i]
        BY <1>1, <1>2, <2>1
      <4>2. t[k] = s[k]
        BY <1>2, <2>1
      <4> QED BY <4>1, <4>2 DEF RelatedBefore
    <3> QED BY <2>1, <3>1 DEF Good, Roomy, n
  <2>2. CASE k = n + 1
    <3>1. k - 1 = n /\ t[k] = new
      BY <1>1, <1>2, <2>2
    <3>2. RelatedBefore(t, k) = RelatedTo(s, new)
      BY <1>1, <1>2, <3>1 DEF RelatedBefore, RelatedTo
    <3> QED BY <3>2
  <2> QED BY <1>3, <2>1, <2>2
<1> QED BY <1>2, <1>4, <1>5, <1>6 DEF Good, t

\* A cookie that is set takes the place of the same one, or is refused.
LEMMA SetGood ==
    ASSUME NEW s, Good(s), NEW c \in Given, NEW u, Fits(c, u)
    PROVE  Good(SetCookieFromUrl(s, c, u))
<1> DEFINE new == Completed(c, u)
           others == Chosen(s, Beside(s, new))
           room == MakeRoom(others, new)
           t == Append(room, new)
<1>1. new \in Stored
  BY CompletedIsStored
<1>2. Good(others) /\ \A k \in 1..Len(others) : ~SameCookie(new, others[k])
  BY OthersDiffer
<1>3. /\ Good(room) /\ \A k \in 1..Len(room) : ~SameCookie(new, room[k])
      /\ Cardinality(RelatedTo(room, new)) <= MaxForDomain
  <2> HIDE DEF new, others
  <2> QED BY <1>2, MakeRoomGood
<1>4. ASSUME Accepted(c, u) PROVE Good(t)
  <2>1. new.domain.dot => ~IsEffectiveTLD(new.domain.labels)
    <3>1. c \in Cookie /\ c.domain \in [labels : Seq(STRING), dot : BOOLEAN]
      BY DEF Given, Cookie
    <3>2. new.domain = IF c.domain = NoDomain THEN Host(u.host) ELSE [c.domain EXCEPT !.dot = TRUE]
      BY <3>1 DEF Completed, Cookie
    <3>3. CASE c.domain = NoDomain
      BY <3>2, <3>3 DEF Host
    <3>4. CASE c.domain # NoDomain
      <4>1. ~IsEffectiveTLD(c.domain.labels)
        BY <1>4, <3>4 DEF Accepted
      <4>2. new.domain.labels = c.domain.labels
        BY <3>1, <3>2, <3>4
      <4> QED BY <4>1, <4>2
    <3> QED BY <3>3, <3>4
  <2> HIDE DEF new, room
  <2> QED BY <1>1, <1>3, <2>1, AppendGood
<1>5. SetCookieFromUrl(s, c, u) =
          IF ~Accepted(c, u) THEN s ELSE IF Expired(c) THEN others ELSE t
  BY DEF SetCookieFromUrl, Same, Beside
<1> QED BY <1>2, <1>4, <1>5

\* Adding a cookie keeps the jar good, whatever the URL.
LEMMA AddedGood ==
    ASSUME NEW s, Good(s), NEW c \in Given, NEW u \in Urls \cup {NoUrl}
    PROVE  Good(Added(s, c, u))
<1>1. c \in Cookie
  BY DEF Given
<1>2. CASE u # NoUrl
  <2>1. Fits(c, u)
    BY <1>2, CookieJarAssumption DEF CookieJarAssumption, Url, Fits
  <2> QED BY <1>2, <2>1, SetGood DEF Added
<1>3. CASE u = NoUrl /\ c.domain # NoDomain
  <2>1. c.path \in 0..MaxPath /\ 1 \in 1..MaxPath
    BY <1>1, CookieJarAssumption DEF CookieJarAssumption, Cookie
  <2>2. MockUrl(c).path \in 1..MaxPath
    BY <2>1, CookieJarAssumption DEF MockUrl, CookieJarAssumption
  <2>3. Fits(c, MockUrl(c))
    BY <1>3, <2>2 DEF Fits
  <2> QED BY <1>3, <2>3, SetGood DEF Added
<1>4. CASE u = NoUrl /\ c.domain = NoDomain
  BY <1>4 DEF Added
<1> QED BY <1>2, <1>3, <1>4

\* The cookies that are listed for a URL up to one of them.
UpTo(s, u, i) == {j \in Seen(s, u) : \/ s[j].path > s[i].path
                                     \/ s[j].path = s[i].path /\ j <= i}

\* Where the cookies listed for a URL are in the jar.
ListedAt(s, u, at) ==
    /\ at \in [1..Cardinality(Seen(s, u)) -> Seen(s, u)]
    /\ \A k \in 1..Cardinality(Seen(s, u)) :
           Cardinality(UpTo(s, u, at[k])) = k /\ CookiesForUrl(s, u)[k] = s[at[k]]

\* What a URL sees is in the jar.
LEMMA CookiesForUrlSeen ==
    ASSUME NEW s, Good(s), NEW u
    PROVE  /\ CookiesForUrl(s, u) \in Seq(Stored)
           /\ Len(CookiesForUrl(s, u)) = Cardinality(Seen(s, u))
           /\ IsFiniteSet(Seen(s, u))
           /\ \E at : ListedAt(s, u, at)
<1> DEFINE seen == Seen(s, u)
           upTo(i) == UpTo(s, u, i)
           rank == [i \in seen |-> Cardinality(upTo(i))]
           n == Cardinality(seen)
<1>1. s \in Seq(Stored) /\ Len(s) \in Nat /\ DOMAIN s = 1..Len(s)
  BY DEF Good
<1>2. seen \subseteq 1..Len(s)
  BY <1>1 DEF Seen
<1>3. IsFiniteSet(seen) /\ n \in Nat
  <2>1. IsFiniteSet(1..Len(s))
    BY <1>1, FS_Interval
  <2>2. IsFiniteSet(seen)
    BY <1>2, <2>1, FS_Subset
  <2> QED BY <2>2, FS_CardinalityType
<1>4. \A i \in seen : i \in Nat /\ s[i] \in Stored /\ s[i].path \in Nat
  <2>1. \A i \in 1..Len(s) : s[i] \in Stored
    BY <1>1, ElementOfSeq
  <2>2. \A c \in Stored : c.path \in Nat
    BY CookieJarAssumption DEF CookieJarAssumption, Stored, Given, Cookie
  <2> QED BY <1>1, <1>2, <2>1, <2>2
<1> HIDE DEF seen
<1>5. ASSUME NEW i \in seen
      PROVE  IsFiniteSet(upTo(i)) /\ Cardinality(upTo(i)) \in 1..n
  <2>1. upTo(i) \subseteq seen /\ i \in upTo(i)
    BY <1>4 DEF UpTo, seen
  <2> HIDE DEF upTo
  <2>2. IsFiniteSet(upTo(i)) /\ Cardinality(upTo(i)) <= n
    BY <1>3, <2>1, FS_Subset
  <2>3. Cardinality(upTo(i)) \in Nat
    BY <2>2, FS_CardinalityType
  <2>4. Cardinality(upTo(i)) # 0
    BY <2>1, <2>2, FS_EmptySet
  <2> QED BY <1>3, <2>2, <2>3, <2>4
<1>6. ASSUME NEW i \in seen, NEW j \in seen,
             s[i].path > s[j].path \/ (s[i].path = s[j].path /\ i < j)
      PROVE  Cardinality(upTo(i)) # Cardinality(upTo(j))
  <2>1. j \in upTo(j) /\ j \notin upTo(i)
    BY <1>4, <1>6 DEF UpTo, seen
  <2>2. ASSUME NEW k \in upTo(i) PROVE k \in upTo(j)
    <3>1. /\ k \in seen /\ k \in Nat /\ i \in Nat /\ j \in Nat
          /\ s[k].path \in Nat /\ s[i].path \in Nat /\ s[j].path \in Nat
      BY <1>4 DEF UpTo, seen
    <3>2. s[k].path > s[i].path \/ (s[k].path = s[i].path /\ k <= i)
      BY DEF UpTo
    <3>3. s[k].path > s[j].path \/ (s[k].path = s[j].path /\ k <= j)
      BY <1>6, <3>1, <3>2
    <3> QED BY <3>1, <3>3 DEF UpTo, seen
  <2>3. IsFiniteSet(upTo(j))
    BY <1>5
  <2> HIDE DEF upTo
  <2> QED BY <2>1, <2>2, <2>3, FS_Subset
<1>7. rank \in [seen -> 1..n]
  BY <1>5
<1>8. \A i, j \in seen : rank[i] = rank[j] => i = j
  <2> TAKE i, j \in seen
  <2>1. \/ s[i].path > s[j].path \/ (s[i].path = s[j].path /\ i < j)
        \/ s[j].path > s[i].path \/ (s[j].path = s[i].path /\ j < i)
        \/ i = j
    BY <1>4
  <2>2. rank[i] = Cardinality(upTo(i)) /\ rank[j] = Cardinality(upTo(j))
    OBVIOUS
  <2> HIDE DEF rank, upTo
  <2> QED BY <1>6, <2>1, <2>2
<1>9. \A k \in 1..n : \E i \in seen : Cardinality(upTo(i)) = k
  <2> TAKE k \in 1..n
  <2>1. \E i \in seen : rank[i] = k
    <3> HIDE DEF rank
    <3> QED BY <1>3, <1>7, <1>8, AllRanks
  <2> QED BY <2>1
<1> DEFINE at(k) == CHOOSE i \in seen : Cardinality(upTo(i)) = k
<1>10. \A k \in 1..n : at(k) \in seen
  <2> HIDE DEF upTo
  <2> QED BY <1>9
<1>11. CookiesForUrl(s, u) = [k \in 1..n |-> s[at(k)]]
  BY DEF CookiesForUrl, UpTo, seen
<1>12. \A k \in 1..n : s[at(k)] \in Stored
  BY <1>4, <1>10
<1>13. \A k \in 1..n : Cardinality(upTo(at(k))) = k
  <2> HIDE DEF upTo
  <2> QED BY <1>9
<1>14. ListedAt(s, u, [k \in 1..n |-> at(k)])
  <2> HIDE DEF at
  <2> QED BY <1>10, <1>11, <1>13 DEF ListedAt, seen
<1> HIDE DEF at, n
<1>15. CookiesForUrl(s, u) \in Seq(Stored) /\ Len(CookiesForUrl(s, u)) = n
  BY <1>3, <1>11, <1>12
<1> QED BY <1>3, <1>15, <1>14 DEF n, seen

\* Every nonempty set of natural numbers has a least element.
LEMMA LeastOf ==
    ASSUME NEW T, T \subseteq Nat, T # {}
    PROVE  \E x \in T : \A y \in T : x <= y
<1>1. PICK x \in T : \A y \in T : ~ (<<y, x>> \in OpToRel(<, Nat))
  BY NatLessThanWellFounded, WFMin
<1>2. \A y \in T : ~ (y < x)
  <2> SUFFICES ASSUME NEW y \in T, y < x PROVE FALSE
    OBVIOUS
  <2>1. <<y, x>> \in Nat \X Nat /\ <<y, x>>[1] = y /\ <<y, x>>[2] = x
    OBVIOUS
  <2> QED BY <1>1, <2>1 DEF OpToRel
<1> QED BY <1>2

\* A bounded one has a greatest.
LEMMA GreatestOf ==
    ASSUME NEW k \in Nat, NEW T, T \subseteq 1..k, T # {}
    PROVE  Max(T) \in T
<1> DEFINE R == {d \in 0..k : k - d \in T}
<1>1. R \subseteq Nat
  OBVIOUS
<1>2. PICK i \in T : TRUE
  OBVIOUS
<1>3. k - i \in 0..k /\ k - (k - i) = i
  OBVIOUS
<1>4. R # {}
  BY <1>2, <1>3
<1>5. PICK d \in R : \A e \in R : d <= e
  <2> HIDE DEF R
  <2> QED BY <1>1, <1>4, LeastOf
<1>6. k - d \in T /\ d \in 0..k
  BY <1>5
<1>7. ASSUME NEW j \in T PROVE k - d >= j
  <2>1. j \in 1..k /\ k - j \in 0..k /\ k - (k - j) = j
    OBVIOUS
  <2>2. k - j \in R
    BY <2>1
  <2>3. d <= k - j
    BY <1>5, <2>2
  <2> QED BY <1>6, <2>1, <2>3
<1>8. \E x \in T : \A y \in T : x >= y
  BY <1>6, <1>7
<1> QED BY <1>8 DEF Max

\* The maps made of a jar are cookies as scripts give them.
LEMMA MapsAreGiven ==
    ASSUME NEW s, Good(s), NEW u
    PROVE  CookiesToMap(s, u) \in Seq(Given)
<1> DEFINE listed == IF u = NoUrl THEN s ELSE CookiesForUrl(s, u)
           list == Reverse(listed)
           dated(k) == {j \in 1..k : list[j].expires # 0}
           date(k) == IF dated(k) = {} THEN 0 ELSE list[Max(dated(k))].expires
<1>1. listed \in Seq(Stored)
  BY CookiesForUrlSeen DEF Good
<1> HIDE DEF listed
<1>2. list \in Seq(Stored) /\ Len(list) \in Nat /\ DOMAIN list = 1..Len(list)
  BY <1>1 DEF Reverse
<1> HIDE DEF list
<1>3. \A k \in 1..Len(list) : list[k] \in Stored
  BY <1>2, ElementOfSeq
<1>4. \A c \in Stored : c \in Given /\ c.expires \in Nat
  BY DEF Stored, Given, Cookie
<1>5. ASSUME NEW k \in 1..Len(list) PROVE date(k) \in Nat
  <2>1. CASE dated(k) = {}
    BY <2>1
  <2>2. CASE dated(k) # {}
    <3>1. k \in Nat /\ dated(k) \subseteq 1..k /\ 1..k \subseteq 1..Len(list)
      BY <1>2
    <3> HIDE DEF dated
    <3>2. Max(dated(k)) \in dated(k)
      BY <2>2, <3>1, GreatestOf
    <3>3. Max(dated(k)) \in 1..Len(list)
      BY <3>1, <3>2
    <3>4. list[Max(dated(k))].expires \in Nat
      BY <1>3, <1>4, <3>3
    <3> QED BY <2>2, <3>4
  <2> QED BY <2>1, <2>2
<1>6. ASSUME NEW c \in Given, NEW e \in Nat PROVE [c EXCEPT !.expires = e] \in Given
  <2>1. c \in Cookie
    BY DEF Given
  <2>2. /\ [c EXCEPT !.expires = e] \in Cookie
        /\ [c EXCEPT !.expires = e].name = c.name
        /\ [c EXCEPT !.expires = e].value = c.value
    BY <2>1 DEF Cookie
  <2> QED BY <2>2 DEF Given
<1> DEFINE map(k) == [list[k] EXCEPT !.expires = date(k)]
<1>7. CookiesToMap(s, u) = [k \in DOMAIN list |-> map(k)]
  BY DEF CookiesToMap, list, listed
<1>8. \A k \in 1..Len(list) : map(k) \in Given
  <2> HIDE DEF date
  <2> QED BY <1>3, <1>4, <1>5, <1>6
<1> HIDE DEF map
<1>9. CookiesToMap(s, u) = [k \in 1..Len(list) |-> map(k)]
  BY <1>2, <1>7
<1> QED BY <1>2, <1>8, <1>9

\* The jars that AddedAll passes through, and the next one.
Following(cookies, list, u, k, after) ==
    IF k = 0 THEN cookies ELSE Added(after[k - 1], list[Len(list) + 1 - k], u)
Passes(cookies, list, u, m, after) ==
    after = [k \in 0..m |-> Following(cookies, list, u, k, after)]

\* There are such jars.
LEMMA PassesExist ==
    ASSUME NEW s, NEW list \in Seq(Given), NEW u, NEW n \in Nat
    PROVE  \E after : Passes(s, list, u, n, after)
<1> DEFINE Missing == {m \in Nat : ~ \E after : Passes(s, list, u, m, after)}
<1>1. SUFFICES ASSUME Missing # {} PROVE FALSE
  OBVIOUS
<1>2. PICK m \in Missing : \A y \in Missing : m <= y
  <2>1. Missing \subseteq Nat
    OBVIOUS
  <2> HIDE DEF Missing
  <2> QED BY <1>1, <2>1, LeastOf
<1>3. m \in Nat /\ ~ \E after : Passes(s, list, u, m, after)
  BY <1>2
<1>4. CASE m = 0
  <2> DEFINE after == [k \in 0..0 |-> s]
  <2>1. after = [k \in 0..0 |-> Following(s, list, u, k, after)]
    <3>1. \A k \in 0..0 : Following(s, list, u, k, after) = s
      BY DEF Following
    <3> QED BY <3>1
  <2>2. Passes(s, list, u, m, after)
    BY <1>4, <2>1 DEF Passes
  <2> QED BY <1>3, <2>2
<1>5. CASE m # 0
  <2>1. m - 1 \in Nat /\ ~ (m <= m - 1)
    BY <1>3, <1>5
  <2>2. PICK before : Passes(s, list, u, m - 1, before)
    BY <1>2, <2>1
  <2>3. before = [k \in 0..(m - 1) |-> Following(s, list, u, k, before)]
    BY <2>2 DEF Passes
  <2> DEFINE next(k) == IF k = m THEN Following(s, list, u, m, before) ELSE before[k]
             after == [k \in 0..m |-> next(k)]
  <2>4. \A k \in 0..(m - 1) : after[k] = before[k]
    BY <1>3, <2>1
  <2>5. ASSUME NEW k \in 0..m PROVE next(k) = Following(s, list, u, k, after)
    <3>1. k = 0 \/ (k - 1 \in 0..(m - 1) /\ k # 0)
      BY <1>3
    <3>2. Following(s, list, u, k, after) = Following(s, list, u, k, before)
      <4> HIDE DEF after
      <4> QED BY <2>4, <3>1 DEF Following
    <3>3. CASE k = m
      BY <3>2, <3>3
    <3>4. CASE k # m
      <4>1. k \in 0..(m - 1)
        BY <1>3, <3>4
      <4>2. before[k] = Following(s, list, u, k, before)
        BY <2>3, <4>1
      <4> QED BY <3>2, <3>4, <4>2
    <3> QED BY <3>3, <3>4
  <2>6. after = [k \in 0..m |-> Following(s, list, u, k, after)]
    <3> HIDE DEF next
    <3>1. \A k \in 0..m : next(k) = Following(s, list, u, k, after)
      BY <2>5
    <3> QED BY <3>1
  <2>7. Passes(s, list, u, m, after)
    BY <2>6 DEF Passes
  <2> QED BY <1>3, <2>7
<1> QED BY <1>4, <1>5

\* Whatever is added in turn, the jar stays good.
LEMMA AddedAllGood ==
    ASSUME NEW s, Good(s), NEW list \in Seq(Given), NEW u \in Urls \cup {NoUrl}
    PROVE  Good(AddedAll(s, list, u))
<1> DEFINE n == Len(list)
           after == CHOOSE f : Passes(s, list, u, n, f)
<1>1. n \in Nat /\ \A i \in 1..n : list[i] \in Given
  BY ElementOfSeq
<1>2. AddedAll(s, list, u) = after[n]
  BY DEF AddedAll, Passes, Following
<1>3. Passes(s, list, u, n, after)
  <2>1. \E f : Passes(s, list, u, n, f)
    BY <1>1, PassesExist
  <2> QED BY <2>1
<1> HIDE DEF after
<1>4. \A k \in 0..n : after[k] = Following(s, list, u, k, after)
  <2>1. after = [k \in 0..n |-> Following(s, list, u, k, after)]
    BY <1>3 DEF Passes
  <2> QED BY <2>1
<1> HIDE DEF n
<1> DEFINE Bad == {k \in 0..n : ~Good(after[k])}
<1>5. Bad = {}
  <2>1. SUFFICES ASSUME Bad # {} PROVE FALSE
    OBVIOUS
  <2>2. PICK k \in Bad : \A y \in Bad : k <= y
    <3>1. Bad \subseteq Nat
      OBVIOUS
    <3> HIDE DEF Bad
    <3> QED BY <2>1, <3>1, LeastOf
  <2>3. k \in 0..n /\ ~Good(after[k])
    BY <2>2
  <2>4. CASE k = 0
    BY <1>4, <2>3, <2>4 DEF Following
  <2>5. CASE k # 0
    <3>1. k - 1 \in 0..n /\ ~ (k <= k - 1) /\ n + 1 - k \in 1..n
      BY <1>1, <2>3, <2>5
    <3>2. Good(after[k - 1])
      BY <2>2, <3>1
    <3>3. Good(Added(after[k - 1], list[n + 1 - k], u))
      BY <1>1, <3>1, <3>2, AddedGood
    <3>4. after[k] = Added(after[k - 1], list[n + 1 - k], u)
      BY <1>4, <2>3, <2>5 DEF Following, n
    <3> QED BY <2>3, <3>3, <3>4
  <2> QED BY <2>4, <2>5
<1>6. Good(after[n])
  BY <1>1, <1>5
<1> QED BY <1>2, <1>6

-----------------------------------------------------------------------------
(* The invariant *)

IInv == Good(jar) /\ enabled \in BOOLEAN /\ now \in 0..MaxTime

\* The cookies of servers and scripts are given ones.
LEMMA CookiesAreGiven ==
    /\ Cookies \subseteq Given
    /\ \A c, d \in Cookies : <<c, d>> \in Seq(Given)
<1>1. Cookies \subseteq Given
  BY CookieJarAssumption DEF CookieJarAssumption, Given
<1> QED BY <1>1

\* What deletion leaves is good.
LEMMA DeletedGood ==
    ASSUME NEW s, Good(s)
    PROVE  /\ \A u : Good(Unseen(s, u)) /\ Good(Cleared(s, u))
           /\ \A n, u : Good(Deleted(s, n, u))
<1>1. DOMAIN s = 1..Len(s)
  BY DEF Good
<1>2. ASSUME NEW u PROVE Good(Unseen(s, u))
  <2>1. DOMAIN s \ Seen(s, u) \subseteq 1..Len(s)
    BY <1>1
  <2> QED BY <2>1, ChosenGood DEF Unseen
<1>3. Good(<<>>)
  BY DEF Good, KeysUnique, Sited, Roomy
<1>4. ASSUME NEW u PROVE Good(Cleared(s, u))
  BY <1>2, <1>3 DEF Cleared
<1>5. ASSUME NEW n, NEW u PROVE Good(Deleted(s, n, u))
  <2> DEFINE named == {i \in DOMAIN s : s[i].name = n}
             seen == named \cap Seen(s, u)
             last == {i \in seen : \A j \in seen : j <= i}
             left == DOMAIN s \ (IF u = NoUrl THEN named ELSE last)
  <2>1. Deleted(s, n, u) = Chosen(s, left)
    BY DEF Deleted
  <2>2. left \subseteq 1..Len(s)
    BY <1>1
  <2> HIDE DEF left
  <2> QED BY <2>1, <2>2, ChosenGood
<1> QED BY <1>2, <1>4, <1>5

\* Every step keeps the invariant.
LEMMA StepInvariance == IInv /\ [Next]_vars => IInv'
<1> SUFFICES ASSUME IInv, [Next]_vars PROVE IInv'
  OBVIOUS
<1> USE DEF IInv
<1>1. ASSUME NEW s, Good(s), Change(s) PROVE IInv'
  BY <1>1 DEF Change, Good, KeysUnique
<1>2. CASE Enable \/ Disable
  BY <1>2 DEF Enable, Disable, Good, KeysUnique
<1>3. CASE Tick
  <2>1. now + 1 \in 0..MaxTime
    BY <1>3, CookieJarAssumption DEF Tick, CookieJarAssumption
  <2> QED BY <1>3, <2>1 DEF Tick, Good, KeysUnique
<1>4. ASSUME NEW u \in Urls \cup {NoUrl}, NEW c \in Cookies, ServerSets(c, u) PROVE IInv'
  <2>1. Good(Added(jar, c, u)) /\ Added(jar, c, u) = SetCookieFromUrl(jar, c, u)
    BY <1>4, CookiesAreGiven, AddedGood DEF ServerSets, Added
  <2> QED BY <1>1, <1>4, <2>1 DEF ServerSets
<1>5. ASSUME NEW u \in Urls \cup {NoUrl}, NEW c \in Cookies, AddCookie(c, u) PROVE IInv'
  <2>1. Good(Added(jar, c, u))
    BY CookiesAreGiven, AddedGood
  <2> QED BY <1>1, <1>5, <2>1 DEF AddCookie
<1>6. ASSUME NEW u, NEW n, DeleteCookie(n, u) PROVE IInv'
  <2>1. Good(Deleted(jar, n, u))
    BY DeletedGood
  <2> QED BY <1>1, <1>6, <2>1 DEF DeleteCookie
<1>7. ASSUME NEW u, ClearCookies(u) PROVE IInv'
  <2>1. Good(Cleared(jar, u))
    BY DeletedGood
  <2> QED BY <1>1, <1>7, <2>1 DEF ClearCookies
<1>8. ASSUME NEW u \in Urls \cup {NoUrl}, NEW list \in Seq(Given), SetCookies(list, u)
      PROVE  IInv'
  <2>1. Good(Cleared(jar, u))
    BY DeletedGood
  <2>2. Good(Restored(jar, list, u))
    BY <2>1, AddedAllGood DEF Restored
  <2> QED BY <1>1, <1>8, <2>2 DEF SetCookies
<1>9. \A v : CookiesToMap(jar, v) \in Seq(Given)
  BY MapsAreGiven
<1>10. CASE UNCHANGED vars
  BY <1>10 DEF vars, Good, KeysUnique
<1>11. CASE Next
  <2>1. \/ Enable \/ Disable \/ Tick
        \/ \E u \in Urls \cup {NoUrl}, c \in Cookies :
               ServerSets(c, u) \/ AddCookie(c, u) \/ DeleteCookie(c.name, u)
        \/ \E u \in Urls \cup {NoUrl} : ClearCookies(u)
        \/ \E u \in Urls \cup {NoUrl}, list \in Seq(Given) : SetCookies(list, u)
    BY <1>9, <1>11, CookiesAreGiven DEF Next
  <2> QED BY <1>2, <1>3, <1>4, <1>5, <1>6, <1>7, <1>8, <2>1
<1> QED BY <1>10, <1>11

\* The jar only ever holds cookies with the names and values that were set, with
\* a path and a domain each, none of a top-level domain, never two with the same
\* name, domain and path, and before each at most as many related ones as it
\* leaves room for: of the cookies that one host sees, no more than fit together.
THEOREM Invariance == Spec => []IInv
<1>1. Init => IInv
  <2>1. Good(<<>>)
    BY DEF Good, KeysUnique, Sited, Roomy
  <2> QED BY <2>1, CookieJarAssumption DEF Init, IInv, CookieJarAssumption
<1> QED BY <1>1, StepInvariance, PTL DEF Spec

\* CookieJar's type invariant, for any cookies, URLs and bounds.
THEOREM TypeCorrect == Spec => []TypeOK
<1>1. IInv => TypeOK
  <2> SUFFICES ASSUME IInv PROVE TypeOK
    OBVIOUS
  <2>1. \A i \in 1..Len(jar) : jar[i] \in Stored
    BY ElementOfSeq DEF IInv, Good
  <2>2. \A d \in Stored : /\ d.domain # NoDomain /\ d.path \in 1..MaxPath
                          /\ \E c \in Cookies : c.name = d.name /\ c.value = d.value
    BY CookieJarAssumption DEF Stored, Given, Cookie, CookieJarAssumption
  <2> QED BY <2>1, <2>2 DEF IInv, TypeOK
<1> QED BY <1>1, Invariance, PTL

\* However servers and scripts add, replace, delete and restore cookies, no two
\* in the jar have the same name, domain and path.
THEOREM UniqueKeysHolds == Spec => []UniqueKeys
<1>1. IInv => UniqueKeys
  <2> SUFFICES ASSUME IInv PROVE UniqueKeys
    OBVIOUS
  <2>1. DOMAIN jar = 1..Len(jar) /\ KeysUnique(jar)
    BY DEF IInv, Good
  <2> QED BY <2>1 DEF KeysUnique, UniqueKeys
<1> QED BY <1>1, Invariance, PTL

-----------------------------------------------------------------------------
(* What a step does to the jar *)

\* What is left when a page clears its cookies.
LEMMA UnseenProperties ==
    ASSUME NEW s, Good(s), NEW u
    PROVE  /\ CookiesForUrl(Unseen(s, u), u) = <<>>
           /\ \A i \in DOMAIN s : Visible(s[i], u) \/ s[i] \in ToSet(Unseen(s, u))
<1> DEFINE left == DOMAIN s \ Seen(s, u)
           t == Chosen(s, left)
           n == Cardinality(left)
<1>1. DOMAIN s = 1..Len(s)
  BY DEF Good
<1>2. PlacesOf(Stored, s, left)
  BY <1>1 DEF Good, PlacesOf
<1>3. Unseen(s, u) = t
  BY DEF Unseen
<1>4. \A i \in left : ~Visible(s[i], u)
  BY DEF Seen
<1>5. /\ n \in Nat /\ t \in Seq(Stored) /\ Len(t) = n
      /\ \A k \in 1..n : t[k] = s[Nth(left, k)]
      /\ \A i \in left : \E k \in 1..n : Nth(left, k) = i
  <2> HIDE DEF left
  <2> QED BY <1>2, ChosenProperties
<1>6. \A k \in 1..Len(t) : \E i \in left : t[k] = s[i]
  <2> HIDE DEF left
  <2> QED BY <1>2, ChosenFrom
<1>7. \A i \in DOMAIN s : i \in left \/ Visible(s[i], u)
  BY DEF Seen
<1> HIDE DEF left, t, n
<1>8. DOMAIN t = 1..n
  BY <1>5
<1>9. Seen(t, u) = {}
  <2>1. \A k \in DOMAIN t : ~Visible(t[k], u)
    BY <1>4, <1>5, <1>6, <1>8
  <2> QED BY <2>1 DEF Seen
<1>10. CookiesForUrl(t, u) = <<>>
  <2>1. Good(t)
    BY <1>2, ChosenGood DEF t, PlacesOf
  <2>2. CookiesForUrl(t, u) \in Seq(Stored) /\ Len(CookiesForUrl(t, u)) = 0
    BY <1>9, <2>1, CookiesForUrlSeen, FS_EmptySet
  <2> QED BY <2>2, EmptySeq
<1>11. ASSUME NEW i \in left PROVE s[i] \in ToSet(t)
  <2>1. PICK k \in 1..n : Nth(left, k) = i
    BY <1>5
  <2>2. k \in DOMAIN t /\ t[k] = s[i]
    BY <1>5, <1>8, <2>1
  <2> QED BY <2>2 DEF ToSet
<1> QED BY <1>3, <1>7, <1>10, <1>11

\* page.clearCookies deletes what page.cookies shows, all of it and nothing else.
THEOREM PageClearedHolds == Spec => PageCleared
<1>1. ASSUME IInv, NEW u \in Urls, ClearCookies(u)
      PROVE  /\ CookiesForUrl(jar', u) = <<>>
             /\ \A i \in DOMAIN jar : Visible(jar[i], u) \/ jar[i] \in ToSet(jar')
  <2>1. u # NoUrl
    BY CookieJarAssumption DEF CookieJarAssumption, Url, NoUrl
  <2>2. jar' = Unseen(jar, u)
    BY <1>1, <2>1 DEF ClearCookies, Change, Cleared
  <2> QED BY <1>1, <2>2, UnseenProperties DEF IInv
<1>2. IInv /\ [Next]_vars =>
          [\A u \in Urls : ClearCookies(u) =>
              /\ CookiesForUrl(jar', u) = <<>>
              /\ \A i \in DOMAIN jar : Visible(jar[i], u) \/ jar[i] \in ToSet(jar')]_vars
  BY <1>1
<1> QED BY <1>2, Invariance, PTL DEF Spec, PageCleared

\* The URL made up for a cookie sees what the cookie becomes.
LEMMA MockSees ==
    ASSUME NEW c \in Cookie, c.domain # NoDomain, ~Expired(c)
    PROVE  LET new == Completed(c, MockUrl(c)) IN
           /\ Visible(new, MockUrl(c)) /\ DomainFits(c, new) /\ c.path \in {0, new.path}
           /\ <<c.name, c.value, c.secure, c.expires>>
                  = <<new.name, new.value, new.secure, new.expires>>
<1> DEFINE mock == MockUrl(c)
           domain == [c.domain EXCEPT !.dot = TRUE]
           new == [[c EXCEPT !.path = mock.path] EXCEPT !.domain = domain]
<1>1. /\ c.domain \in [labels : Seq(STRING), dot : BOOLEAN] /\ c.domain.labels \in Seq(STRING)
      /\ c.secure \in BOOLEAN /\ c.path \in 0..MaxPath /\ c.expires \in Nat
  BY DEF Cookie
<1>2. /\ mock.https = c.secure
      /\ mock.path = (IF c.path = 0 THEN 1 ELSE c.path)
      /\ mock.host = (IF c.domain.dot THEN Append(c.domain.labels, "www") ELSE c.domain.labels)
  BY DEF MockUrl
<1>3. Completed(c, mock) = new
  <2>1. [c EXCEPT !.path = IF c.path = 0 THEN mock.path ELSE c.path] = [c EXCEPT !.path = mock.path]
    BY <1>2
  <2> QED BY <2>1 DEF Completed, Cookie
<1>4. domain.labels = c.domain.labels /\ domain.dot = TRUE
  BY <1>1
<1> HIDE DEF mock, domain
<1>5. /\ new.name = c.name /\ new.value = c.value /\ new.secure = c.secure
      /\ new.expires = c.expires /\ new.path = mock.path /\ new.domain = domain
  BY DEF Cookie
<1> HIDE DEF new
<1>6. IsPrefix(c.domain.labels, c.domain.labels)
  BY <1>1 DEF IsPrefix
<1>7. IsPrefix(c.domain.labels, mock.host)
  <2>1. CASE ~c.domain.dot
    BY <1>2, <1>6, <2>1
  <2>2. CASE c.domain.dot
    <3> DEFINE l == c.domain.labels
               h == Append(l, "www")
    <3>1. /\ l \in Seq(STRING) /\ Len(l) \in Nat
          /\ l = [i \in 1..Len(l) |-> l[i]] /\ \A i \in 1..Len(l) : l[i] \in STRING
      BY <1>1, ElementOfSeq, LenProperties
    <3> HIDE DEF l
    <3> DEFINE S == STRING \cup {"www"}
    <3>2. \A i \in 1..Len(l) : l[i] \in S
      BY <3>1
    <3>3. "www" \in S
      OBVIOUS
    <3> HIDE DEF S
    <3>4. l \in Seq(S)
      BY <3>1, <3>2, SeqDef
    <3>5. /\ h \in Seq(S) /\ Len(h) = Len(l) + 1 /\ \A i \in 1..Len(l) : h[i] = l[i]
      BY <3>3, <3>4, AppendProperties
    <3> HIDE DEF h
    <3>6. SubSeq(l, 1, Len(l)) = SubSeq(h, 1, Len(l))
      BY <3>1, <3>4, <3>5
    <3>7. IsPrefix(l, h)
      BY <3>1, <3>5, <3>6 DEF IsPrefix
    <3> QED BY <1>2, <2>2, <3>7 DEF l, h
  <2> QED BY <2>1, <2>2
<1>8. IsParentDomain(Host(mock.host), new.domain)
  BY <1>4, <1>5, <1>7 DEF IsParentDomain, Host
<1>9. mock.path \in Nat
  BY <1>1, <1>2, CookieJarAssumption DEF CookieJarAssumption
<1>10. Visible(new, mock)
  BY <1>2, <1>5, <1>8, <1>9 DEF Visible, Expired
<1>11. DomainFits(c, new) /\ c.path \in {0, new.path}
  BY <1>2, <1>4, <1>5, <1>6 DEF DomainFits
<1> QED BY <1>3, <1>5, <1>10, <1>11 DEF mock

\* A cookie that changes the jar when it is added for its own domain is in the
\* jar, so that addCookie answers true, and is sent to that domain.
THEOREM AddedIsSentHolds == Spec => AddedIsSent
<1>1. ASSUME IInv, NEW c \in Cookies, AddCookie(c, NoUrl), c.domain # NoDomain,
             ~Expired(c), vars' # vars
      PROVE  HasCookie(jar', c) <=>
                 \E i \in DOMAIN jar' : LET d == jar'[i] IN
                     /\ Visible(d, MockUrl(c))
                     /\ <<c.name, c.value, c.secure, c.expires>>
                            = <<d.name, d.value, d.secure, d.expires>>
  <2> DEFINE mock == MockUrl(c)
             new == Completed(c, mock)
             others == Chosen(jar, Beside(jar, new))
             room == MakeRoom(others, new)
  <2>1. jar' = SetCookieFromUrl(jar, c, mock) /\ jar' # jar
    BY <1>1 DEF AddCookie, Change, Added, vars
  <2>2. jar' = Append(room, new)
    BY <1>1, <2>1 DEF SetCookieFromUrl, Same, Beside
  <2>3. c \in Given /\ c \in Cookie
    BY CookiesAreGiven DEF Given
  <2>4. new \in Stored
    <3>1. c.path \in 0..MaxPath /\ mock.path = IF c.path = 0 THEN 1 ELSE c.path
      BY <2>3 DEF Cookie, MockUrl
    <3>2. Fits(c, mock)
      BY <1>1, <3>1, CookieJarAssumption DEF CookieJarAssumption, Fits
    <3> QED BY <2>3, <3>2, CompletedIsStored
  <2>5. room \in Seq(Stored)
    <3> HIDE DEF new
    <3> QED BY <1>1, OthersDiffer, MakeRoomGood DEF IInv, Good
  <2> DEFINE k == Len(room) + 1
  <2>6. k \in DOMAIN jar' /\ jar'[k] = new
    <3> HIDE DEF new, room
    <3> QED BY <2>2, <2>4, <2>5
  <2>7. /\ Visible(new, mock) /\ DomainFits(c, new) /\ c.path \in {0, new.path}
        /\ <<c.name, c.value, c.secure, c.expires>>
               = <<new.name, new.value, new.secure, new.expires>>
    BY <1>1, <2>3, MockSees
  <2> HIDE DEF new, room, k
  <2>8. HasCookie(jar', c)
    BY <2>6, <2>7 DEF HasCookie
  <2> QED BY <2>6, <2>7, <2>8
<1>2. IInv /\ [Next]_vars =>
          [\A c \in Cookies :
              AddCookie(c, NoUrl) /\ c.domain # NoDomain /\ ~Expired(c) =>
                  (HasCookie(jar', c) <=>
                      \E i \in DOMAIN jar' : LET d == jar'[i] IN
                          /\ Visible(d, MockUrl(c))
                          /\ <<c.name, c.value, c.secure, c.expires>>
                                 = <<d.name, d.value, d.secure, d.expires>>)]_vars
  BY <1>1
<1> QED BY <1>2, Invariance, PTL DEF Spec, AddedIsSent

-----------------------------------------------------------------------------
(* Writing back what was listed *)

\* The last k places of a list, after m others, are among some places.
TailIn(s, m, k, places) ==
    m \in Nat /\ k \in Nat /\ Len(s) = m + k /\ \A i \in 1..k : m + i \in places

\* What is chosen then ends as the list does.
LEMMA ChosenTail ==
    ASSUME NEW S, NEW s, NEW places, PlacesOf(S, s, places),
           NEW m, NEW k, TailIn(s, m, k, places)
    PROVE  \E front \in Nat :
               /\ Len(Chosen(s, places)) = front + k
               /\ \A i \in 1..k : Chosen(s, places)[front + i] = s[m + i]
               /\ \A j \in 1..front : \E i \in 1..m : Chosen(s, places)[j] = s[i]
<1> DEFINE P == {j \in places : j <= m}
           front == Cardinality(P)
           t == Chosen(s, places)
           n == Cardinality(places)
<1>1. m \in Nat /\ k \in Nat /\ Len(s) = m + k /\ \A i \in 1..k : m + i \in places
  BY DEF TailIn
<1>2. places \subseteq 1..(m + k)
  BY <1>1 DEF PlacesOf
<1>3. IsFiniteSet(places) /\ n \in Nat
  BY ChosenOrder
<1>4. IsFiniteSet(P) /\ front \in Nat
  <2>1. P \subseteq places
    OBVIOUS
  <2> QED BY <1>3, <2>1, FS_Subset, FS_CardinalityType
<1>5. ASSUME NEW i \in 0..k
      PROVE  Cardinality({j \in places : j <= m + i}) = front + i
  <2> DEFINE I == (m + 1)..(m + i)
             U == {j \in places : j <= m + i}
  <2>1. IsFiniteSet(I) /\ Cardinality(I) = i
    <3>1. m + 1 \in Int /\ m + i \in Int /\ i \in Nat
      BY <1>1
    <3>2. IsFiniteSet(I) /\ Cardinality(I) = IF m + 1 > m + i THEN 0 ELSE (m + i) - (m + 1) + 1
      BY <3>1, FS_Interval
    <3> HIDE DEF I
    <3> QED BY <1>1, <3>1, <3>2
  <2>2. I \subseteq places
    <3>1. \A j \in I : j - m \in 1..k /\ m + (j - m) = j
      BY <1>1
    <3> QED BY <1>1, <3>1
  <2>3. U = P \cup I
    <3>1. \A j \in places : j \in Nat
      BY <1>2
    <3>2. \A j \in Nat : j <= m + i <=> (j <= m \/ j \in I)
      BY <1>1
    <3> HIDE DEF I
    <3> QED BY <2>2, <3>1, <3>2
  <2>4. P \cap I = {}
    BY <1>1
  <2> HIDE DEF P, I, U
  <2>5. Cardinality(U) = Cardinality(P) + i - 0
    BY <1>4, <2>1, <2>3, <2>4, FS_Union, FS_EmptySet
  <2>6. Cardinality(U) = front + i
    BY <1>4, <2>5
  <2> QED BY <2>6 DEF U
<1>6. n = front + k
  <2>1. \A j \in places : j <= m + k
    <3>1. \A j \in 1..(m + k) : j <= m + k
      BY <1>1
    <3> QED BY <1>2, <3>1
  <2> QED BY <1>1, <1>5, <2>1
<1> HIDE DEF front, n
<1>7. ASSUME NEW i \in 1..k PROVE Nth(places, front + i) = m + i
  <2>1. /\ i \in 0..k /\ m + i \in places /\ front + i \in 1..n
    BY <1>1, <1>4, <1>6
  <2>2. Cardinality({j \in places : j <= m + i}) = front + i
    BY <1>5, <2>1
  <2>3. places \subseteq Nat
    BY <1>2
  <2> DEFINE r == front + i
             x == m + i
  <2>4. x \in places /\ r \in 1..Cardinality(places) /\ Cardinality({j \in places : j <= x}) = r
    BY <2>1, <2>2 DEF n
  <2> HIDE DEF r, x
  <2>5. r \in 1..Cardinality(places)
    BY <2>4
  <2>6. \A j \in places : Cardinality({l \in places : l <= j}) = r => j = Nth(places, r)
    BY <1>3, <2>3, <2>5, NthIsThere
  <2>7. Nth(places, r) = x
    BY <2>4, <2>6
  <2> QED BY <2>7 DEF r, x
<1>8. /\ Len(t) = n
      /\ \A j \in 1..n : Nth(places, j) \in places /\ t[j] = s[Nth(places, j)]
      /\ \A i, j \in 1..n : Nth(places, i) = Nth(places, j) => i = j
  BY ChosenProperties DEF n
<1> HIDE DEF t
<1>9. \A i \in 1..k : front + i \in 1..n /\ t[front + i] = s[m + i]
  <2>1. \A i \in 1..k : front + i \in 1..n
    BY <1>1, <1>4, <1>6
  <2> QED BY <1>7, <1>8, <2>1
<1>10. ASSUME NEW j \in 1..front PROVE \E i \in 1..m : t[j] = s[i]
  <2>1. j \in 1..n
    BY <1>1, <1>4, <1>6
  <2> DEFINE a == Nth(places, j)
  <2>2. a \in places /\ t[j] = s[a]
    BY <1>8, <2>1
  <2>3. ASSUME a \notin 1..m PROVE FALSE
    <3>1. a - m \in 1..k /\ m + (a - m) = a
      <4>1. a \in 1..(m + k)
        BY <1>2, <2>2
      <4> HIDE DEF a
      <4> QED BY <1>1, <2>3, <4>1
    <3>2. front + (a - m) \in 1..n /\ Nth(places, front + (a - m)) = a
      BY <1>7, <1>9, <3>1
    <3>3. front + (a - m) = j
      BY <1>8, <2>1, <3>2
    <3> QED BY <1>4, <3>1, <3>3
  <2> QED BY <2>2, <2>3
<1> QED BY <1>4, <1>6, <1>8, <1>9, <1>10 DEF t

\* All of a list is the list.
LEMMA ChosenAll ==
    ASSUME NEW S, NEW s \in Seq(S)
    PROVE  Chosen(s, 1..Len(s)) = s
<1> DEFINE places == 1..Len(s)
           t == Chosen(s, places)
<1>1. Len(s) \in Nat /\ PlacesOf(S, s, places)
  BY DEF PlacesOf
<1>2. TailIn(s, 0, Len(s), places)
  BY <1>1 DEF TailIn
<1>3. PICK front \in Nat :
          /\ Len(t) = front + Len(s)
          /\ \A i \in 1..Len(s) : t[front + i] = s[0 + i]
          /\ \A j \in 1..front : \E i \in 1..0 : t[j] = s[i]
  BY <1>1, <1>2, ChosenTail
<1>4. front = 0
  <2>1. 1..0 = {}
    OBVIOUS
  <2> HIDE DEF t
  <2>2. ~ (1 \in 1..front)
    BY <1>3, <2>1
  <2> QED BY <2>2
<1>5. t \in Seq(S)
  BY <1>1, ChosenProperties
<1> HIDE DEF t
<1>6. Len(t) = Len(s) /\ \A i \in 1..Len(s) : t[i] = s[i]
  BY <1>1, <1>3, <1>4
<1>7. t = s
  BY <1>5, <1>6, SeqEqual
<1> QED BY <1>7 DEF t

\* A cookie of the jar that can be written back at a URL.
Fresh(c, u) ==
    /\ c \in Stored /\ c.domain.dot /\ ~IsEffectiveTLD(c.domain.labels) /\ ~Expired(c)
    /\ u # NoUrl => IsParentDomain(Host(u.host), c.domain)

\* Such a cookie has what a URL could add to it.
LEMMA FreshIsComplete ==
    ASSUME NEW c, NEW v, NEW u, Fresh(c, v)
    PROVE  Completed(c, u) = c
<1>1. c \in Cookie /\ c.path # 0 /\ c.domain # NoDomain /\ c.domain.dot
      /\ c.domain \in [labels : Seq(STRING), dot : BOOLEAN]
  BY DEF Fresh, Stored, Given, Cookie
<1>2. [c.domain EXCEPT !.dot = TRUE] = c.domain
  BY <1>1
<1>3. Completed(c, u) = [[c EXCEPT !.path = c.path] EXCEPT !.domain = c.domain]
  <2>1. Completed(c, u) = [[c EXCEPT !.path = IF c.path = 0 THEN u.path ELSE c.path]
                            EXCEPT !.domain = IF c.domain = NoDomain THEN Host(u.host)
                                              ELSE [c.domain EXCEPT !.dot = TRUE]]
    BY <1>1 DEF Completed, Cookie
  <2> QED BY <1>1, <1>2, <2>1
<1>4. [[c EXCEPT !.path = c.path] EXCEPT !.domain = c.domain] = c
  BY <1>1 DEF Cookie
<1> QED BY <1>3, <1>4

\* Adding it to others puts it last.
LEMMA AddedFresh ==
    ASSUME NEW s \in Seq(Stored), NEW c, NEW u, Fresh(c, u),
           \A k \in 1..Len(s) : ~SameCookie(c, s[k])
    PROVE  Added(s, c, u) = Append(MakeRoom(s, c), c)
<1>1. /\ c \in Cookie /\ c.domain # NoDomain /\ c.domain.dot
      /\ c.domain \in [labels : Seq(STRING), dot : BOOLEAN]
      /\ ~IsEffectiveTLD(c.domain.labels) /\ ~Expired(c)
  BY DEF Fresh, Stored, Given, Cookie
<1>2. ASSUME NEW v, IsParentDomain(Host(v.host), c.domain)
      PROVE  SetCookieFromUrl(s, c, v) = Append(MakeRoom(s, c), c)
  <2>1. Completed(c, v) = c
    BY FreshIsComplete
  <2>2. Accepted(c, v)
    <3>1. [c.domain EXCEPT !.dot = TRUE] = c.domain
      BY <1>1
    <3> QED BY <1>1, <1>2, <3>1 DEF Accepted, Related
  <2>3. Beside(s, c) = 1..Len(s)
    BY DEF Beside, Same
  <2>4. Chosen(s, Beside(s, c)) = s
    BY <2>3, ChosenAll
  <2>5. SetCookieFromUrl(s, c, v) = Append(MakeRoom(Chosen(s, Beside(s, c)), c), c)
    BY <1>1, <2>1, <2>2 DEF SetCookieFromUrl, Same, Beside
  <2> QED BY <2>4, <2>5
<1>3. CASE u # NoUrl
  BY <1>2, <1>3 DEF Added, Fresh
<1>4. CASE u = NoUrl
  <2>1. Completed(c, MockUrl(c)) = c
    BY FreshIsComplete
  <2>2. Visible(c, MockUrl(c))
    BY <1>1, <2>1, MockSees
  <2>3. IsParentDomain(Host(MockUrl(c).host), c.domain)
    BY <2>2 DEF Visible
  <2> QED BY <1>1, <1>2, <1>4, <2>3 DEF Added
<1> QED BY <1>3, <1>4

\* A list that ends with the first k of the cookies shown, after m others.
EndsShown(s, shown, m, k) ==
    /\ s \in Seq(Stored) /\ m \in Nat /\ k \in Nat /\ Len(s) = m + k
    /\ k < Len(shown) /\ \A i \in 1..k : s[m + i] = shown[i]

\* The same list, of which only some of the others may be missing.
Shortened(t, s, shown, m, k) ==
    /\ t \in Seq(Stored)
    /\ \E front \in Nat :
           /\ Len(t) = front + k
           /\ \A i \in 1..k : t[front + i] = shown[i]
           /\ \A j \in 1..front : \E i \in 1..m : t[j] = s[i]

\* Making room for the next one takes none of them: the jar had room for them.
LEMMA MakeRoomTail ==
    ASSUME NEW s, NEW shown, NEW m, NEW k, EndsShown(s, shown, m, k),
           shown \in Seq(Stored), Roomy(shown)
    PROVE  Shortened(MakeRoom(s, shown[k + 1]), s, shown, m, k)
<1> DEFINE c == shown[k + 1]
           places == Kept(s, c)
           t == Chosen(s, places)
           R == RelatedBefore(shown, k + 1)
<1>1. /\ s \in Seq(Stored) /\ m \in Nat /\ k \in Nat /\ Len(s) = m + k /\ DOMAIN s = 1..(m + k)
      /\ k < Len(shown) /\ \A i \in 1..k : s[m + i] = shown[i]
  BY DEF EndsShown
<1>2. places \subseteq 1..Len(s) /\ MakeRoom(s, c) = t
  BY <1>1 DEF MakeRoom, Kept, RelatedTo
<1>3. IsFiniteSet(R) /\ Cardinality(R) \in Nat /\ Cardinality(R) <= MaxForDomain
  <2>1. k + 1 \in 1..Len(shown) /\ k + 1 \in Nat \ {0}
    BY <1>1
  <2> QED BY <2>1, RelatedBeforeFinite DEF Roomy
<1>4. R = {i \in 1..k : Related(c.domain, shown[i].domain)}
  <2>1. (k + 1) - 1 = k
    BY <1>1
  <2> QED BY <2>1 DEF RelatedBefore
<1>5. ASSUME NEW i \in 1..k PROVE m + i \in places
  <2> DEFINE related == RelatedTo(s, c)
             above == {j \in related : j > m + i}
             f == [j \in above |-> j - m]
             Q == R \ {i}
  <2>1. m + i \in DOMAIN s /\ s[m + i] = shown[i]
    BY <1>1
  <2>2. SUFFICES ASSUME m + i \in related PROVE Cardinality(above) < MaxForDomain
    BY <2>1 DEF Kept
  <2>3. i \in R
    <3>1. Related(c.domain, shown[i].domain)
      BY <2>1, <2>2 DEF RelatedTo
    <3> HIDE DEF R
    <3> QED BY <1>4, <3>1
  <2>4. ASSUME NEW j \in above PROVE j - m \in Q
    <3>1. j \in 1..(m + k) /\ j > m + i /\ Related(c.domain, s[j].domain)
      BY <1>1 DEF RelatedTo
    <3>2. j - m \in 1..k /\ j - m # i /\ m + (j - m) = j
      BY <1>1, <3>1
    <3>3. s[j] = shown[j - m]
      BY <1>1, <3>2
    <3> HIDE DEF R
    <3> QED BY <1>4, <3>1, <3>2, <3>3
  <2>5. \A j \in above : j \in Nat
    BY <1>1 DEF RelatedTo
  <2> HIDE DEF above, R
  <2>6. f \in Injection(above, Q)
    <3>1. \A j, l \in above : j - m = l - m => j = l
      BY <1>1, <2>5
    <3> HIDE DEF Q
    <3> QED BY <2>4, <3>1 DEF Injection, IsInjective
  <2>7. IsFiniteSet(Q) /\ Cardinality(Q) = Cardinality(R) - 1
    BY <1>3, <2>3, FS_RemoveElement
  <2> HIDE DEF Q
  <2>8. IsFiniteSet(above) /\ Cardinality(above) <= Cardinality(Q)
    BY <2>6, <2>7, FS_Injection
  <2>9. Cardinality(above) \in Nat /\ MaxForDomain \in Nat
    BY <2>8, FS_CardinalityType, CookieJarAssumption DEF CookieJarAssumption
  <2> QED BY <1>3, <2>7, <2>8, <2>9
<1> HIDE DEF places
<1>6. PlacesOf(Stored, s, places) /\ TailIn(s, m, k, places)
  BY <1>1, <1>2, <1>5 DEF PlacesOf, TailIn
<1>7. \E front \in Nat :
          /\ Len(t) = front + k
          /\ \A i \in 1..k : t[front + i] = s[m + i]
          /\ \A j \in 1..front : \E i \in 1..m : t[j] = s[i]
  BY <1>6, ChosenTail
<1>8. t \in Seq(Stored)
  BY <1>6, ChosenProperties
<1> HIDE DEF t
<1> QED BY <1>1, <1>2, <1>7, <1>8 DEF Shortened

\* A jar that consists of cookies of an old one, and after those of the first k
\* of the cookies shown.
WrittenBack(old, shown, k, m, s) ==
    /\ s \in Seq(Stored) /\ m \in Nat /\ Len(s) = m + k
    /\ \A i \in 1..k : s[m + i] = shown[i]
    /\ \A j \in 1..m : \E i \in 1..Len(old) : s[j] = old[i]

\* Cookies that a jar can show, and that differ from those of another one.
CanReturn(old, shown, u) ==
    /\ old \in Seq(Stored) /\ shown \in Seq(Stored) /\ KeysUnique(shown) /\ Roomy(shown)
    /\ \A k \in 1..Len(shown) : Fresh(shown[k], u)
    /\ \A k \in 1..Len(shown) : \A i \in 1..Len(old) : ~SameCookie(shown[k], old[i])

\* One more of them is written back.
LEMMA WriteOneBack ==
    ASSUME NEW old, NEW shown, NEW u, CanReturn(old, shown, u),
           NEW k, NEW m, NEW s, WrittenBack(old, shown, k, m, s),
           k \in Nat, k < Len(shown)
    PROVE  \E front : WrittenBack(old, shown, k + 1, front, Added(s, shown[k + 1], u))
<1> DEFINE c == shown[k + 1]
           room == MakeRoom(s, c)
           t == Append(room, c)
<1>1. /\ s \in Seq(Stored) /\ m \in Nat /\ Len(s) = m + k
      /\ \A i \in 1..k : s[m + i] = shown[i]
      /\ \A j \in 1..m : \E i \in 1..Len(old) : s[j] = old[i]
  BY DEF WrittenBack
<1>2. k + 1 \in 1..Len(shown) /\ c \in Stored /\ Fresh(c, u)
  <2>1. k + 1 \in 1..Len(shown) /\ shown \in Seq(Stored)
    BY DEF CanReturn
  <2> QED BY <2>1, ElementOfSeq DEF CanReturn
<1>3. \A i \in 1..Len(s) : ~SameCookie(c, s[i])
  <2> TAKE i \in 1..Len(s)
  <2>1. CASE i \in 1..m
    BY <1>1, <1>2, <2>1 DEF CanReturn
  <2>2. CASE i \notin 1..m
    <3>1. i - m \in 1..k /\ m + (i - m) = i
      BY <1>1, <2>2
    <3>2. s[i] = shown[i - m]
      BY <1>1, <3>1
    <3>3. i - m \in 1..Len(shown) /\ i - m # k + 1
      BY <1>2, <3>1
    <3>4. ASSUME SameCookie(c, shown[i - m]) PROVE FALSE
      <4> DEFINE a == i - m
                 b == k + 1
      <4>1. /\ a \in 1..Len(shown) /\ b \in 1..Len(shown) /\ a # b
            /\ shown[b].name = shown[a].name /\ shown[b].domain = shown[a].domain
            /\ shown[b].path = shown[a].path
        BY <1>2, <3>3, <3>4 DEF SameCookie
      <4> HIDE DEF a, b
      <4> QED BY <4>1 DEF CanReturn, KeysUnique
    <3> QED BY <3>2, <3>4
  <2> QED BY <2>1, <2>2
<1>4. Added(s, c, u) = t
  BY <1>1, <1>2, <1>3, AddedFresh
<1>5. EndsShown(s, shown, m, k) /\ shown \in Seq(Stored) /\ Roomy(shown)
  BY <1>1 DEF EndsShown, CanReturn
<1>6. Shortened(room, s, shown, m, k)
  BY <1>5, MakeRoomTail
<1> HIDE DEF c, room
<1>7. PICK front \in Nat :
          /\ room \in Seq(Stored) /\ Len(room) = front + k
          /\ \A i \in 1..k : room[front + i] = shown[i]
          /\ \A j \in 1..front : \E i \in 1..m : room[j] = s[i]
  BY <1>6 DEF Shortened
<1>8. /\ t \in Seq(Stored) /\ Len(t) = front + k + 1 /\ t[front + k + 1] = c
      /\ \A i \in 1..(front + k) : t[i] = room[i]
  <2>1. c \in Stored
    BY <1>2 DEF c
  <2> QED BY <1>7, <2>1, AppendProperties
<1> HIDE DEF t
<1>9. ASSUME NEW i \in 1..(k + 1) PROVE t[front + i] = shown[i]
  <2>1. CASE i = k + 1
    BY <1>8, <2>1 DEF c
  <2>2. CASE i \in 1..k
    <3>1. front + i \in 1..(front + k)
      BY <1>7, <2>2
    <3> QED BY <1>7, <1>8, <2>2, <3>1
  <2>3. i = k + 1 \/ i \in 1..k
    OBVIOUS
  <2> QED BY <2>1, <2>2, <2>3
<1>10. ASSUME NEW j \in 1..front PROVE \E i \in 1..Len(old) : t[j] = old[i]
  <2>1. j \in 1..(front + k)
    BY <1>7
  <2>2. PICK i \in 1..m : room[j] = s[i]
    BY <1>7
  <2>3. t[j] = s[i]
    BY <1>8, <2>1, <2>2
  <2> QED BY <1>1, <2>3
<1>11. Len(t) = front + (k + 1)
  BY <1>7, <1>8
<1>12. WrittenBack(old, shown, k + 1, front, t)
  BY <1>7, <1>8, <1>9, <1>10, <1>11 DEF WrittenBack
<1> QED BY <1>4, <1>12 DEF c

\* All of them are written back in their order, though each conversion starts at
\* the end of its list.
LEMMA WriteAllBack ==
    ASSUME NEW old, NEW shown, NEW u, CanReturn(old, shown, u)
    PROVE  \E m : WrittenBack(old, shown, Len(shown), m, AddedAll(old, Reverse(shown), u))
<1> DEFINE n == Len(shown)
           list == Reverse(shown)
           after == CHOOSE f : Passes(old, list, u, n, f)
           Back(k) == \E m : WrittenBack(old, shown, k, m, after[k])
<1>1. n \in Nat /\ shown \in Seq(Stored) /\ old \in Seq(Stored) /\ Len(old) \in Nat
  BY DEF CanReturn
<1>2. list \in Seq(Stored) /\ Len(list) = n /\ \A i \in 1..n : list[i] = shown[n - i + 1]
  BY <1>1 DEF Reverse
<1>3. list \in Seq(Given)
  <2>1. Stored \subseteq Given
    BY DEF Stored
  <2> HIDE DEF list
  <2>2. \A i \in 1..n : list[i] \in Given
    BY <1>2, <2>1, ElementOfSeq
  <2>3. list = [i \in 1..n |-> list[i]]
    BY <1>2
  <2> QED BY <1>1, <2>2, <2>3
<1>4. AddedAll(old, list, u) = after[n]
  BY <1>2 DEF AddedAll, Passes, Following
<1>5. Passes(old, list, u, n, after)
  <2>1. \E f : Passes(old, list, u, n, f)
    BY <1>1, <1>3, PassesExist
  <2> QED BY <2>1
<1> HIDE DEF after, list
<1>6. \A k \in 0..n : after[k] = Following(old, list, u, k, after)
  <2>1. after = [k \in 0..n |-> Following(old, list, u, k, after)]
    BY <1>5 DEF Passes
  <2> QED BY <2>1
<1> HIDE DEF n
<1>7. Back(0)
  <2>1. after[0] = old
    BY <1>1, <1>6 DEF Following
  <2>2. WrittenBack(old, shown, 0, Len(old), old)
    BY <1>1 DEF WrittenBack
  <2> QED BY <2>1, <2>2
<1>8. ASSUME NEW k \in Nat, k < n, Back(k) PROVE Back(k + 1)
  <2>1. PICK m : WrittenBack(old, shown, k, m, after[k])
    BY <1>8
  <2>2. k + 1 \in 0..n /\ k + 1 # 0 /\ (k + 1) - 1 = k
        /\ n + 1 - (k + 1) \in 1..n /\ n - (n + 1 - (k + 1)) + 1 = k + 1
    BY <1>1, <1>8
  <2>3. list[n + 1 - (k + 1)] = shown[k + 1]
    BY <1>2, <2>2
  <2>4. after[k + 1] = Added(after[k], shown[k + 1], u)
    BY <1>2, <1>6, <2>2, <2>3 DEF Following
  <2>5. k \in Nat /\ k < Len(shown)
    BY <1>8 DEF n
  <2>6. \E front : WrittenBack(old, shown, k + 1, front, Added(after[k], shown[k + 1], u))
    BY <2>1, <2>5, WriteOneBack
  <2> QED BY <2>4, <2>6
<1> DEFINE Bad == {k \in 0..n : ~Back(k)}
<1>9. Bad = {}
  <2> HIDE DEF Back
  <2>1. SUFFICES ASSUME Bad # {} PROVE FALSE
    OBVIOUS
  <2>2. PICK k \in Bad : \A y \in Bad : k <= y
    <3>1. Bad \subseteq Nat
      OBVIOUS
    <3> HIDE DEF Bad
    <3> QED BY <2>1, <3>1, LeastOf
  <2>3. k \in 0..n /\ ~Back(k) /\ k # 0
    BY <1>7, <2>2
  <2>4. k - 1 \in 0..n /\ k - 1 \in Nat /\ k - 1 < n /\ ~ (k <= k - 1) /\ (k - 1) + 1 = k
    BY <1>1, <2>3
  <2>5. Back(k - 1)
    BY <2>2, <2>4
  <2>6. Back((k - 1) + 1)
    BY <1>8, <2>4, <2>5
  <2> QED BY <2>3, <2>4, <2>6
<1>10. Back(n)
  <2> HIDE DEF Back
  <2> QED BY <1>1, <1>9
<1> QED BY <1>4, <1>10 DEF n, list

-----------------------------------------------------------------------------
(* Listing again *)

Sorted(shown) == \A k, l \in 1..Len(shown) : k < l => shown[k].path >= shown[l].path

\* What a URL sees is listed with longer paths first, each cookie once.
LEMMA ListedInOrder ==
    ASSUME NEW s, Good(s), NEW u
    PROVE  LET shown == CookiesForUrl(s, u) IN
           /\ Sorted(shown) /\ KeysUnique(shown)
           /\ \A k \in 1..Len(shown) : \E i \in Seen(s, u) : shown[k] = s[i]
           /\ \A i \in Seen(s, u) : \E k \in 1..Len(shown) : shown[k] = s[i]
<1> DEFINE shown == CookiesForUrl(s, u)
           seen == Seen(s, u)
           n == Cardinality(seen)
<1>1. PICK at : ListedAt(s, u, at)
  BY CookiesForUrlSeen
<1>2. /\ Len(shown) = n /\ IsFiniteSet(seen) /\ n \in Nat
  BY CookiesForUrlSeen, FS_CardinalityType
<1>3. /\ at \in [1..n -> seen]
      /\ \A k \in 1..n : Cardinality(UpTo(s, u, at[k])) = k /\ shown[k] = s[at[k]]
  BY <1>1 DEF ListedAt
<1> HIDE DEF shown
<1>4. \A i \in seen : i \in 1..Len(s) /\ i \in Nat /\ s[i] \in Stored /\ s[i].path \in Nat
  <2>1. s \in Seq(Stored) /\ DOMAIN s = 1..Len(s) /\ Len(s) \in Nat
    BY DEF Good
  <2>2. \A i \in 1..Len(s) : s[i] \in Stored
    BY <2>1, ElementOfSeq
  <2>3. \A c \in Stored : c.path \in Nat
    BY CookieJarAssumption DEF CookieJarAssumption, Stored, Given, Cookie
  <2> QED BY <2>1, <2>2, <2>3 DEF Seen
<1>5. ASSUME NEW k \in 1..n, NEW l \in 1..n, k < l
      PROVE  s[at[k]].path >= s[at[l]].path
  <2> DEFINE a == at[k]
             b == at[l]
  <2>1. /\ a \in seen /\ b \in seen /\ Cardinality(UpTo(s, u, a)) = k
        /\ Cardinality(UpTo(s, u, b)) = l
    BY <1>3
  <2> HIDE DEF a, b
  <2>2. SUFFICES ASSUME s[a].path < s[b].path PROVE FALSE
    BY <1>4, <2>1 DEF a, b
  <2>3. ASSUME NEW j \in UpTo(s, u, b) PROVE j \in UpTo(s, u, a)
    <3>1. j \in seen /\ s[j].path >= s[b].path
      BY <1>4, <2>1 DEF UpTo
    <3>2. s[j].path > s[a].path
      BY <1>4, <2>1, <2>2, <3>1
    <3> QED BY <3>1, <3>2 DEF UpTo
  <2>4. UpTo(s, u, a) \subseteq seen
    BY DEF UpTo
  <2>5. Cardinality(UpTo(s, u, b)) <= Cardinality(UpTo(s, u, a))
    <3>1. IsFiniteSet(UpTo(s, u, a))
      BY <1>2, <2>4, FS_Subset
    <3>2. UpTo(s, u, b) \subseteq UpTo(s, u, a)
      BY <2>3
    <3> QED BY <3>1, <3>2, FS_Subset
  <2> QED BY <1>2, <1>5, <2>1, <2>5
<1>6. Sorted(shown)
  BY <1>2, <1>3, <1>5 DEF Sorted
<1>7. KeysUnique(shown)
  <2> SUFFICES ASSUME NEW k \in 1..n, NEW l \in 1..n, shown[k].name = shown[l].name,
                      shown[k].domain = shown[l].domain, shown[k].path = shown[l].path
               PROVE  k = l
    BY <1>2 DEF KeysUnique
  <2> DEFINE a == at[k]
             b == at[l]
  <2>1. /\ a \in 1..Len(s) /\ b \in 1..Len(s) /\ s[a].name = s[b].name
        /\ s[a].domain = s[b].domain /\ s[a].path = s[b].path
    BY <1>3, <1>4
  <2> HIDE DEF a, b
  <2>2. a = b
    BY <2>1 DEF Good, KeysUnique
  <2> QED BY <1>3, <2>2 DEF a, b
<1>8. \A k \in 1..Len(shown) : \E i \in seen : shown[k] = s[i]
  BY <1>2, <1>3
<1>9. ASSUME NEW i \in seen PROVE \E k \in 1..Len(shown) : shown[k] = s[i]
  <2>1. IsFiniteSet(1..n) /\ Cardinality(1..n) = n
    BY <1>2, FS_Interval
  <2>2. at \in Injection(1..n, seen)
    BY <1>3 DEF Injection, IsInjective
  <2>3. at \in Surjection(1..n, seen)
    BY <1>2, <2>1, <2>2, FS_Injection
  <2>4. PICK k \in 1..n : at[k] = i
    BY <2>3 DEF Surjection
  <2> QED BY <1>2, <1>3, <2>4
<1> QED BY <1>6, <1>7, <1>8, <1>9 DEF shown

\* If all that a URL sees of a jar comes last in it, in the order of listing, it
\* is what is listed.
LEMMA ListedLast ==
    ASSUME NEW old, NEW shown, NEW m, NEW t, WrittenBack(old, shown, Len(shown), m, t),
           NEW u, shown \in Seq(Stored), Sorted(shown),
           \A k \in 1..Len(shown) : Visible(shown[k], u),
           \A i \in 1..Len(old) : ~Visible(old[i], u)
    PROVE  CookiesForUrl(t, u) = shown
<1> DEFINE n == Len(shown)
           seen == Seen(t, u)
<1>1. /\ t \in Seq(Stored) /\ m \in Nat /\ n \in Nat /\ Len(t) = m + n /\ DOMAIN t = 1..(m + n)
      /\ \A k \in 1..n : t[m + k] = shown[k]
      /\ \A j \in 1..m : \E i \in 1..Len(old) : t[j] = old[i]
  BY DEF WrittenBack
<1>2. \A i \in 1..(m + n) : i \in 1..m \/ (i - m \in 1..n /\ m + (i - m) = i)
  BY <1>1
<1>3. \A k \in 1..n : m + k \in 1..(m + n)
  BY <1>1
<1>4. seen = (m + 1)..(m + n)
  <2>1. \A i \in 1..m : ~Visible(t[i], u)
    BY <1>1
  <2>2. \A k \in 1..n : Visible(t[m + k], u)
    BY <1>1
  <2>3. \A i \in 1..(m + n) : Visible(t[i], u) <=> i \in (m + 1)..(m + n)
    <3> TAKE i \in 1..(m + n)
    <3>1. CASE i \in 1..m
      BY <1>1, <2>1, <3>1
    <3>2. CASE i - m \in 1..n /\ m + (i - m) = i
      <4>1. Visible(t[m + (i - m)], u)
        BY <2>2, <3>2
      <4>2. i \in (m + 1)..(m + n)
        BY <1>1, <3>2
      <4> QED BY <3>2, <4>1, <4>2
    <3> QED BY <1>2, <3>1, <3>2
  <2>4. (m + 1)..(m + n) \subseteq 1..(m + n)
    BY <1>1
  <2> QED BY <1>1, <2>3, <2>4 DEF Seen
<1>5. Cardinality(seen) = n
  <2> HIDE DEF n, seen
  <2>1. Cardinality((m + 1)..(m + n)) = IF m + 1 > m + n THEN 0 ELSE (m + n) - (m + 1) + 1
    BY <1>1, FS_Interval
  <2> QED BY <1>1, <1>4, <2>1
<1> HIDE DEF n, seen
<1>6. ASSUME NEW k \in 1..n PROVE Cardinality(UpTo(t, u, m + k)) = k
  <2>1. \A l \in 1..n : t[m + l].path = shown[l].path /\ shown[l].path \in Nat
    <3>1. \A l \in 1..n : shown[l] \in Stored
      BY ElementOfSeq DEF n
    <3>2. \A c \in Stored : c.path \in Nat
      BY CookieJarAssumption DEF CookieJarAssumption, Stored, Given, Cookie
    <3> QED BY <1>1, <3>1, <3>2
  <2>2. ASSUME NEW l \in 1..n PROVE m + l \in UpTo(t, u, m + k) <=> l <= k
    <3>1. m + l \in seen
      BY <1>1, <1>4
    <3>2. l < k => shown[l].path >= shown[k].path
      BY DEF Sorted, n
    <3>3. k < l => shown[k].path >= shown[l].path
      BY DEF Sorted, n
    <3>4. (\/ shown[l].path > shown[k].path
           \/ shown[l].path = shown[k].path /\ m + l <= m + k) <=> l <= k
      <4>1. m \in Nat /\ shown[l].path \in Nat /\ shown[k].path \in Nat
        BY <1>1, <2>1
      <4> QED BY <3>2, <3>3, <4>1
    <3> QED BY <2>1, <3>1, <3>4 DEF UpTo, seen
  <2>3. UpTo(t, u, m + k) = (m + 1)..(m + k)
    <3>1. UpTo(t, u, m + k) \subseteq seen
      BY DEF UpTo, seen
    <3>2. ASSUME NEW j \in seen PROVE j \in UpTo(t, u, m + k) <=> j \in (m + 1)..(m + k)
      <4>1. j - m \in 1..n /\ m + (j - m) = j
        BY <1>1, <1>4
      <4>2. j - m <= k <=> j \in (m + 1)..(m + k)
        BY <1>1, <4>1
      <4>3. m + (j - m) \in UpTo(t, u, m + k) <=> j - m <= k
        BY <2>2, <4>1
      <4> QED BY <4>1, <4>2, <4>3
    <3>3. (m + 1)..(m + k) \subseteq seen
      BY <1>1, <1>4
    <3> QED BY <3>1, <3>2, <3>3
  <2>4. Cardinality((m + 1)..(m + k)) = IF m + 1 > m + k THEN 0 ELSE (m + k) - (m + 1) + 1
    BY <1>1, FS_Interval
  <2> QED BY <1>1, <2>3, <2>4
<1> DEFINE place(k) == CHOOSE i \in seen : Cardinality(UpTo(t, u, i)) = k
<1>7. ASSUME NEW k \in 1..n PROVE place(k) = m + k
  <2>1. m + k \in seen /\ Cardinality(UpTo(t, u, m + k)) = k
    BY <1>1, <1>4, <1>6
  <2>2. place(k) \in seen /\ Cardinality(UpTo(t, u, place(k))) = k
    BY <2>1
  <2> DEFINE i == place(k)
  <2> HIDE DEF place
  <2>3. i - m \in 1..n /\ m + (i - m) = i
    BY <1>1, <1>4, <2>2
  <2>4. Cardinality(UpTo(t, u, m + (i - m))) = i - m
    BY <1>6, <2>3
  <2> QED BY <2>2, <2>3, <2>4
<1>8. CookiesForUrl(t, u) = [k \in 1..n |-> t[place(k)]]
  BY <1>5 DEF CookiesForUrl, UpTo, seen
<1> HIDE DEF place
<1>9. \A k \in 1..n : t[place(k)] = shown[k]
  BY <1>1, <1>7
<1>10. shown = [k \in 1..n |-> shown[k]]
  BY DEF n
<1> QED BY <1>8, <1>9, <1>10

\* Cookies of domains that one URL sees are related: the host has them all at its end.
LEMMA SeenAreRelated ==
    ASSUME NEW c \in Stored, NEW d \in Stored, NEW u \in Url,
           c.domain.dot, d.domain.dot, Visible(c, u), Visible(d, u)
    PROVE  Related(c.domain, d.domain)
<1> DEFINE a == c.domain.labels
           b == d.domain.labels
           h == u.host
<1>1. a \in Seq(STRING) /\ b \in Seq(STRING) /\ h \in Seq(STRING)
  BY DEF Stored, Given, Cookie, Url
<1>2. IsPrefix(a, h) /\ IsPrefix(b, h)
  BY DEF Visible, IsParentDomain, Host
<1>3. Related(c.domain, d.domain) <=> IsPrefix(b, a) \/ IsPrefix(a, b)
  BY DEF Related, IsParentDomain
<1> HIDE DEF a, b, h
<1>4. /\ Len(a) \in Nat /\ Len(b) \in Nat /\ Len(h) \in Nat
      /\ Len(a) <= Len(h) /\ Len(b) <= Len(h)
      /\ SubSeq(a, 1, Len(a)) = SubSeq(h, 1, Len(a))
      /\ SubSeq(b, 1, Len(b)) = SubSeq(h, 1, Len(b))
  BY <1>1, <1>2 DEF IsPrefix
<1>5. /\ \A i \in 1..Len(a) : a[i] = h[i]
      /\ \A i \in 1..Len(b) : b[i] = h[i]
  <2>1. ASSUME NEW s \in Seq(STRING), SubSeq(s, 1, Len(s)) = SubSeq(h, 1, Len(s)),
               Len(s) <= Len(h), NEW i \in 1..Len(s)
        PROVE  s[i] = h[i]
    <3>1. Len(s) \in Nat /\ 1 + i - 1 = i
      BY <1>1
    <3>2. SubSeq(s, 1, Len(s))[i] = s[i]
      BY <3>1
    <3>3. SubSeq(h, 1, Len(s))[i] = h[i]
      BY <1>1, <1>4, <2>1, <3>1
    <3> QED BY <2>1, <3>2, <3>3
  <2> QED BY <1>1, <1>4, <2>1
<1>6. ASSUME NEW s \in Seq(STRING), NEW r \in Seq(STRING), Len(s) <= Len(r),
             \A i \in 1..Len(s) : s[i] = r[i]
      PROVE  IsPrefix(s, r)
  <2>1. Len(s) \in Nat /\ Len(r) \in Nat
    OBVIOUS
  <2>2. SubSeq(s, 1, Len(s)) = SubSeq(r, 1, Len(s))
    BY <1>6, <2>1
  <2> QED BY <1>6, <2>2 DEF IsPrefix
<1>7. CASE Len(a) <= Len(b)
  <2>1. \A i \in 1..Len(a) : a[i] = b[i]
    BY <1>4, <1>5, <1>7
  <2> QED BY <1>1, <1>3, <1>6, <1>7, <2>1
<1>8. CASE Len(b) <= Len(a)
  <2>1. \A i \in 1..Len(b) : b[i] = a[i]
    BY <1>4, <1>5, <1>8
  <2> QED BY <1>1, <1>3, <1>6, <1>8, <2>1
<1> QED BY <1>4, <1>7, <1>8

\* So a URL never sees more of them than there is room for.
LEMMA SeenAreFew ==
    ASSUME NEW s, Good(s), NEW u \in Url, \A i \in Seen(s, u) : s[i].domain.dot
    PROVE  Cardinality(Seen(s, u)) <= MaxForDomain + 1
<1> DEFINE seen == Seen(s, u)
           n == Cardinality(seen)
<1>1. IsFiniteSet(seen) /\ n \in Nat /\ MaxForDomain \in Nat
  BY CookiesForUrlSeen, FS_CardinalityType, CookieJarAssumption DEF CookieJarAssumption
<1>2. Len(s) \in Nat /\ seen \subseteq 1..Len(s) /\ \A i \in 1..Len(s) : s[i] \in Stored
  <2>1. s \in Seq(Stored) /\ DOMAIN s = 1..Len(s)
    BY DEF Good
  <2> QED BY <2>1, ElementOfSeq DEF Seen
<1>3. CASE seen = {}
  BY <1>1, <1>3, FS_EmptySet
<1>4. CASE seen # {}
  <2> DEFINE R == {Len(s) + 1 - i : i \in seen}
  <2>1. R \subseteq Nat /\ R # {}
    <3> HIDE DEF seen
    <3>1. \A i \in seen : Len(s) + 1 - i \in Nat
      BY <1>2
    <3> QED BY <1>4, <3>1
  <2>2. PICK d \in R : \A e \in R : d <= e
    <3> HIDE DEF R
    <3> QED BY <2>1, LeastOf
  <2>3. PICK last \in seen : d = Len(s) + 1 - last
    BY <2>2
  <2>4. \A i \in seen : i <= last
    <3> TAKE i \in seen
    <3>1. Len(s) + 1 - last <= Len(s) + 1 - i
      BY <2>2, <2>3
    <3> QED BY <1>2, <3>1
  <2>5. last \in 1..Len(s) /\ last \in Nat \ {0}
    BY <1>2, <2>3
  <2> DEFINE B == RelatedBefore(s, last)
             Q == seen \ {last}
  <2>6. ASSUME NEW i \in Q PROVE i \in B
    <3>1. i \in 1..Len(s) /\ i <= last /\ i # last /\ last \in Nat
      BY <1>2, <2>4, <2>5
    <3>2. Related(s[last].domain, s[i].domain)
      <4>1. Visible(s[last], u) /\ Visible(s[i], u) /\ s[last].domain.dot /\ s[i].domain.dot
        BY <2>3 DEF Seen
      <4> QED BY <1>2, <2>5, <3>1, <4>1, SeenAreRelated
    <3>3. i \in 1..(last - 1)
      BY <3>1
    <3> QED BY <3>2, <3>3 DEF RelatedBefore
  <2> HIDE DEF B, Q, seen
  <2>7. IsFiniteSet(B) /\ Cardinality(B) \in Nat /\ Cardinality(B) <= MaxForDomain
    BY <2>5, RelatedBeforeFinite DEF Good, Roomy, B
  <2>8. IsFiniteSet(Q) /\ Cardinality(Q) = n - 1
    BY <1>1, <2>3, FS_RemoveElement DEF Q
  <2>9. Cardinality(Q) <= Cardinality(B)
    BY <2>6, <2>7, FS_Subset
  <2> QED BY <1>1, <2>7, <2>8, <2>9 DEF seen
<1> QED BY <1>3, <1>4

\* Writing all cookies back.
LEMMA RestoreAll ==
    ASSUME NEW s, Good(s), \A i \in DOMAIN s : s[i].domain.dot /\ ~Expired(s[i])
    PROVE  AddedAll(<<>>, Reverse(s), NoUrl) = s
<1> DEFINE t == AddedAll(<<>>, Reverse(s), NoUrl)
<1>1. /\ s \in Seq(Stored) /\ Len(s) \in Nat /\ DOMAIN s = 1..Len(s)
      /\ KeysUnique(s) /\ Sited(s) /\ Roomy(s)
  BY DEF Good
<1>2. CanReturn(<<>>, s, NoUrl)
  <2>1. ASSUME NEW k \in 1..Len(s) PROVE Fresh(s[k], NoUrl)
    BY <1>1, ElementOfSeq DEF Fresh, Sited
  <2>2. Len(<<>>) = 0 /\ 1..0 = {} /\ <<>> \in Seq(Stored)
    OBVIOUS
  <2> QED BY <1>1, <2>1, <2>2 DEF CanReturn
<1>3. PICK m : WrittenBack(<<>>, s, Len(s), m, t)
  BY <1>2, WriteAllBack
<1> HIDE DEF t
<1>4. /\ t \in Seq(Stored) /\ m \in Nat /\ Len(t) = m + Len(s)
      /\ \A i \in 1..Len(s) : t[m + i] = s[i]
      /\ 1 \notin 1..m
  <2>1. Len(<<>>) = 0 /\ 1..0 = {}
    OBVIOUS
  <2> QED BY <1>3, <2>1 DEF WrittenBack
<1>5. m = 0
  BY <1>4
<1>6. Len(t) = Len(s) /\ \A i \in 1..Len(t) : t[i] = s[i]
  BY <1>1, <1>4, <1>5
<1>7. t = s
  BY <1>1, <1>4, <1>6, SeqEqual
<1> QED BY <1>7 DEF t

\* Writing back the cookies that a URL sees.
LEMMA RestoreSeen ==
    ASSUME NEW s, Good(s), NEW u \in Url,
           \A k \in DOMAIN CookiesForUrl(s, u) :
               CookiesForUrl(s, u)[k].domain.dot /\ ~Expired(CookiesForUrl(s, u)[k])
    PROVE  CookiesForUrl(AddedAll(Unseen(s, u), Reverse(CookiesForUrl(s, u)), u), u)
               = CookiesForUrl(s, u)
<1> DEFINE shown == CookiesForUrl(s, u)
           old == Unseen(s, u)
           left == DOMAIN s \ Seen(s, u)
           t == AddedAll(old, Reverse(shown), u)
<1>1. /\ shown \in Seq(Stored) /\ Len(shown) = Cardinality(Seen(s, u))
      /\ Sorted(shown) /\ KeysUnique(shown)
      /\ \A k \in 1..Len(shown) : \E i \in Seen(s, u) : shown[k] = s[i]
      /\ \A i \in Seen(s, u) : \E k \in 1..Len(shown) : shown[k] = s[i]
  BY CookiesForUrlSeen, ListedInOrder
<1>2. \A k \in 1..Len(shown) : shown[k].domain.dot /\ ~Expired(shown[k])
  <2>1. DOMAIN shown = 1..Len(shown)
    BY <1>1
  <2> QED BY <2>1
<1> HIDE DEF shown
<1>3. s \in Seq(Stored) /\ DOMAIN s = 1..Len(s) /\ KeysUnique(s) /\ Sited(s)
  BY DEF Good
<1>4. \A i \in Seen(s, u) : i \in 1..Len(s) /\ Visible(s[i], u)
  BY <1>3 DEF Seen
<1>5. /\ old \in Seq(Stored)
      /\ \A j \in 1..Len(old) : \E i \in left : old[j] = s[i]
  <2>1. PlacesOf(Stored, s, left) /\ old = Chosen(s, left)
    BY <1>3 DEF PlacesOf, Unseen
  <2> HIDE DEF old, left
  <2> QED BY <2>1, ChosenProperties, ChosenFrom
<1>6. \A i \in left : i \in 1..Len(s) /\ i \notin Seen(s, u) /\ ~Visible(s[i], u)
  BY <1>3 DEF Seen
<1> HIDE DEF old, left
<1>7. Roomy(shown)
  <2>1. Cardinality(Seen(s, u)) <= MaxForDomain + 1
    <3>1. \A i \in Seen(s, u) : s[i].domain.dot
      BY <1>1, <1>2
    <3> QED BY <3>1, SeenAreFew
  <2> SUFFICES ASSUME NEW k \in 1..Len(shown)
               PROVE  Cardinality(RelatedBefore(shown, k)) <= MaxForDomain
    BY DEF Roomy
  <2>2. Len(shown) \in Nat /\ MaxForDomain \in Nat
    BY <1>1, CookieJarAssumption DEF CookieJarAssumption
  <2>3. k \in Nat \ {0} /\ k - 1 <= MaxForDomain
    BY <1>1, <2>1, <2>2
  <2>4. /\ Cardinality(RelatedBefore(shown, k)) \in Nat
        /\ Cardinality(RelatedBefore(shown, k)) <= k - 1
    BY <2>3, RelatedBeforeFinite
  <2> QED BY <2>2, <2>3, <2>4
<1>8. \A k \in 1..Len(shown) : Visible(shown[k], u)
  BY <1>1, <1>4
<1>9. ASSUME NEW k \in 1..Len(shown) PROVE Fresh(shown[k], u)
  <2>1. shown[k] \in Stored
    BY <1>1, ElementOfSeq
  <2>2. PICK i \in Seen(s, u) : shown[k] = s[i]
    BY <1>1
  <2>3. ~IsEffectiveTLD(shown[k].domain.labels)
    BY <1>2, <1>3, <1>4, <2>2 DEF Sited
  <2>4. IsParentDomain(Host(u.host), shown[k].domain)
    BY <1>8 DEF Visible
  <2> QED BY <1>2, <2>1, <2>3, <2>4 DEF Fresh
<1>10. ASSUME NEW k \in 1..Len(shown), NEW j \in 1..Len(old)
       PROVE  ~SameCookie(shown[k], old[j])
  <2>1. PICK i \in Seen(s, u) : shown[k] = s[i]
    BY <1>1
  <2>2. PICK l \in left : old[j] = s[l]
    BY <1>5
  <2>3. i \in 1..Len(s) /\ l \in 1..Len(s) /\ i # l
    BY <1>4, <1>6
  <2>4. ~SameCookie(s[i], s[l])
    BY <1>3, <2>3 DEF SameCookie, KeysUnique
  <2> QED BY <2>1, <2>2, <2>4
<1>11. CanReturn(old, shown, u)
  BY <1>1, <1>5, <1>7, <1>9, <1>10 DEF CanReturn
<1>12. PICK m : WrittenBack(old, shown, Len(shown), m, t)
  BY <1>11, WriteAllBack
<1> HIDE DEF t
<1>13. \A j \in 1..Len(old) : ~Visible(old[j], u)
  BY <1>5, <1>6
<1>14. CookiesForUrl(t, u) = shown
  BY <1>1, <1>8, <1>12, <1>13, ListedLast
<1> QED BY <1>14 DEF t, old, shown

\* Writing the cookies of a page, or of phantom, back to it changes neither them
\* nor their order, for any jar that PhantomJS and Qt can fill: the conversions
\* that start at the end of their lists cancel out, and no cookie is crowded out,
\* because those that one host sees are related and had room beside one another.
THEOREM RestoreKeepsCookiesHolds == Spec => []RestoreKeepsCookies
<1>1. IInv => RestoreKeepsCookies
  <2> SUFFICES ASSUME IInv, NEW u \in Urls \cup {NoUrl},
                      LET shown == IF u = NoUrl THEN jar ELSE CookiesForUrl(jar, u)
                      IN  /\ \A i \in DOMAIN shown : shown[i].domain.dot /\ ~Expired(shown[i])
                          /\ CookiesToMap(jar, u) = Reverse(shown)
               PROVE  LET shown == IF u = NoUrl THEN jar ELSE CookiesForUrl(jar, u)
                          after == Restored(jar, CookiesToMap(jar, u), u)
                      IN  shown = IF u = NoUrl THEN after ELSE CookiesForUrl(after, u)
    BY DEF RestoreKeepsCookies
  <2>1. Good(jar)
    BY DEF IInv
  <2>2. CASE u = NoUrl
    <3>1. /\ \A i \in DOMAIN jar : jar[i].domain.dot /\ ~Expired(jar[i])
          /\ CookiesToMap(jar, u) = Reverse(jar)
      BY <2>2
    <3>2. Restored(jar, CookiesToMap(jar, u), u) = AddedAll(<<>>, Reverse(jar), NoUrl)
      BY <2>2, <3>1 DEF Restored, Cleared
    <3>3. AddedAll(<<>>, Reverse(jar), NoUrl) = jar
      BY <2>1, <3>1, RestoreAll
    <3> QED BY <2>2, <3>2, <3>3
  <2>3. CASE u # NoUrl
    <3> DEFINE listed == CookiesForUrl(jar, u)
    <3>1. /\ \A i \in DOMAIN listed : listed[i].domain.dot /\ ~Expired(listed[i])
          /\ CookiesToMap(jar, u) = Reverse(listed)
      BY <2>3
    <3>2. Restored(jar, CookiesToMap(jar, u), u) = AddedAll(Unseen(jar, u), Reverse(listed), u)
      BY <2>3, <3>1 DEF Restored, Cleared
    <3>3. u \in Url
      BY <2>3, CookieJarAssumption DEF CookieJarAssumption
    <3>4. CookiesForUrl(AddedAll(Unseen(jar, u), Reverse(listed), u), u) = listed
      BY <2>1, <3>1, <3>3, RestoreSeen
    <3> QED BY <2>3, <3>2, <3>4
  <2> QED BY <2>2, <2>3
<1> QED BY <1>1, Invariance, PTL
=============================================================================
