------------------------------ MODULE CookieJar ------------------------------
(***************************************************************************)
(* The cookie jar: cookies are set by servers, and added, deleted, listed  *)
(* and restored by scripts, as cookies of phantom (all of them, no URL) or *)
(* of a page (those its URL sees).  PhantomJS's CookieJar adds enabling,   *)
(* deletion and maps for scripts to the rules of QNetworkCookieJar.        *)
(*                                                                         *)
(* A host is the sequence of its labels from the top: <<"com", "site">>. A *)
(* domain is a host with or without a leading dot.  Paths lie on one line, *)
(* "/", "/p/", ..., and are given by their depth; 0 stands for an absent   *)
(* path.  Expiry times are numbers, 0 for a session cookie; the conversion *)
(* to text and back is exact to the second when the time zone is UTC, and  *)
(* is left out.  So is httpOnly, which is only copied and compared.        *)
(***************************************************************************)
EXTENDS Naturals, SequencesExt

CONSTANTS
    Cookies,       \* the cookies servers and scripts set
    Urls,          \* the URLs of pages and answers
    MaxPath,       \* bound: depth of paths
    MaxTime,       \* bound: steps of the clock
    MaxForDomain   \* cookies of related domains that stay beside a new one (49)

\* A cookie as it is given: the path and the domain may be absent.
Cookie == [name : STRING, value : STRING, path : 0..MaxPath, secure : BOOLEAN,
           domain : [labels : Seq(STRING), dot : BOOLEAN], expires : Nat]
Url == [host : Seq(STRING) \ {<<>>}, path : 1..MaxPath, https : BOOLEAN]

ASSUME CookieJarAssumption ==
    /\ Cookies \subseteq Cookie /\ Urls \subseteq Url
    /\ MaxPath \in Nat \ {0} /\ MaxTime \in Nat \ {0} /\ MaxForDomain \in Nat

VARIABLES
    jar,      \* QNetworkCookieJar's allCookies
    enabled,  \* m_enabled
    now       \* QDateTime::currentDateTime()

vars == <<jar, enabled, now>>

\* The empty URL: phantom's functions, and a page that has loaded nothing.
NoUrl == [host |-> <<>>, path |-> 0, https |-> FALSE]
NoDomain == [labels |-> <<>>, dot |-> FALSE]

TypeOK ==
    /\ \A i \in 1..Len(jar) :
           /\ jar[i].domain # NoDomain /\ jar[i].path \in 1..MaxPath
           /\ \E c \in Cookies : c.name = jar[i].name /\ c.value = jar[i].value
    /\ enabled \in BOOLEAN
    /\ now \in 0..MaxTime

Init == jar = <<>> /\ enabled = TRUE /\ now = 1

-----------------------------------------------------------------------------
(* QNetworkCookieJar *)

\* The cookies at some places of a list, in their order.
Nth(places, k) == CHOOSE i \in places : Cardinality({j \in places : j <= i}) = k
Chosen(cookies, places) == [k \in 1..Cardinality(places) |-> cookies[Nth(places, k)]]

Host(labels) == [labels |-> labels, dot |-> FALSE]

IsParentDomain(domain, reference) ==
    IF reference.dot THEN IsPrefix(reference.labels, domain.labels)
                     ELSE domain = reference

Related(d, e) == IsParentDomain(d, e) \/ IsParentDomain(e, d)

IsEffectiveTLD(labels) == Len(labels) <= 1

Expired(c) == c.expires # 0 /\ c.expires < now

SameValue(c, d) == c.name = d.name /\ c.domain = d.domain /\ c.path = d.path
                   /\ c.value = d.value   \* mutant
SameCookie(c, d) == c.name = d.name /\ c.domain = d.domain /\ c.path = d.path

PathKept(c, u) ==   \* mutant: no default for the path
    [c EXCEPT !.domain = IF @ = NoDomain THEN Host(u.host) ELSE [@ EXCEPT !.dot = TRUE]]
\* The path and domain a cookie gets from the URL that sets it.
Completed(c, u) ==
    [c EXCEPT !.path = IF @ = 0 THEN u.path ELSE @,
              !.domain = IF @ = NoDomain THEN Host(u.host) ELSE [@ EXCEPT !.dot = TRUE]]

Accepted(c, u) ==
    c.domain = NoDomain \/ /\ Related([c.domain EXCEPT !.dot = TRUE], Host(u.host))
                           /\ ~IsEffectiveTLD(c.domain.labels)

\* The newest MaxForDomain cookies of related domains, and all others.
MakeRoom(cookies, c) ==
    LET related == {i \in DOMAIN cookies : Related(c.domain, cookies[i].domain)}
        kept == {i \in DOMAIN cookies :
                    i \in related =>
                        Cardinality({j \in related : j > i}) < MaxForDomain}
    IN  Chosen(cookies, kept)

\* The first cookie that is the same is taken out.
SetCookieFromUrl(cookies, c, u) ==
    LET new == Completed(c, u)
        same == {i \in DOMAIN cookies : SameCookie(new, cookies[i])}
        others == Chosen(cookies, {i \in DOMAIN cookies : i \in same => \E j \in same : j < i})
    IN  IF ~Accepted(c, u) THEN cookies
        ELSE IF Expired(c) THEN others
        ELSE Append(MakeRoom(others, new), new)

Visible(c, u) ==
    /\ IsParentDomain(Host(u.host), c.domain)
    /\ c.path <= u.path
    /\ ~Expired(c)
    /\ c.secure => u.https

Seen(cookies, u) == {i \in DOMAIN cookies : Visible(cookies[i], u)}

\* cookiesForUrl: longer paths first, else in the order of the jar
CookiesForUrl(cookies, u) ==
    LET seen == Seen(cookies, u)
        upTo(i) == {j \in seen : \/ cookies[j].path > cookies[i].path
                                 \/ cookies[j].path = cookies[i].path /\ j <= i}
    IN  [k \in 1..Cardinality(seen) |->
            cookies[CHOOSE i \in seen : Cardinality(upTo(i)) = k]]

-----------------------------------------------------------------------------
(* CookieJar *)

\* The URL made up for a cookie that is added without one.
MockUrl(c) ==
    [https |-> c.secure, path |-> IF c.path = 0 THEN 1 ELSE c.path,
     host |-> IF c.domain.dot THEN Append(c.domain.labels, "www") ELSE c.domain.labels]

\* addCookie (and addCookieFromMap, which makes the cookie)
Added(cookies, c, u) ==
    IF u # NoUrl THEN SetCookieFromUrl(cookies, c, u)
    ELSE IF c.domain # NoDomain THEN SetCookieFromUrl(cookies, c, MockUrl(c))
    ELSE cookies

SameDomain(c, d) == c.domain = d.domain   \* mutant: Qt's dot is forgotten
\* stored.domain().prepend('.').endsWith(given.domain()), of whole labels: the
\* code compares texts, to which the domain ba.com ends with a.com as well.
DomainFits(c, d) == IsPrefix(c.domain.labels, d.domain.labels)

\* contains: whether addCookie returns true
HasCookie(cookies, c) ==
    \E i \in DOMAIN cookies : LET d == cookies[i] IN
        /\ <<c.name, c.value, c.secure, c.expires>>
               = <<d.name, d.value, d.secure, d.expires>>
        /\ DomainFits(c, d)
        /\ c.path \in {0, d.path}

FirstToLast(cookies, list, u) ==   \* mutant
    FoldLeft(LAMBDA acc, c : Added(acc, c, u), cookies, list)
\* addCookiesFromMap starts at the end of the list.
AddedAll(cookies, list, u) ==
    LET after[k \in 0..Len(list)] ==
            IF k = 0 THEN cookies ELSE Added(after[k - 1], list[Len(list) + 1 - k], u)
    IN  after[Len(list)]

\* cookiesToMap: from the end of cookies(url), with one map for all of them; a
\* session cookie does not set "expires", which keeps what an earlier one left.
CookiesToMap(cookies, u) ==
    LET list == Reverse(IF u = NoUrl THEN cookies ELSE CookiesForUrl(cookies, u))
        dated(k) == {j \in 1..k : list[j].expires # 0}
    IN  [k \in DOMAIN list |->
            [list[k] EXCEPT !.expires =
                IF dated(k) = {} THEN 0 ELSE list[Max(dated(k))].expires]]

OnlyOne(cookies, u) ==   \* mutant: the break of deleteCookie taken always
    LET seen == Seen(cookies, u)
    IN  Chosen(cookies, DOMAIN cookies \ {i \in seen : \A j \in seen : j <= i})
\* deleteCookies, or deleteCookie without a name
Unseen(cookies, u) == Chosen(cookies, DOMAIN cookies \ Seen(cookies, u))

Cleared(cookies, u) == IF u = NoUrl THEN <<>> ELSE Unseen(cookies, u)

\* deleteCookie: by name all cookies, but of those a URL sees only the last.
Deleted(cookies, n, u) ==
    LET named == {i \in DOMAIN cookies : cookies[i].name = n}
        seen == named \cap Seen(cookies, u)
        last == {i \in seen : \A j \in seen : j <= i}
    IN  Chosen(cookies, DOMAIN cookies \ (IF u = NoUrl THEN named ELSE last))

\* phantom.setCookies and page.setCookies
Restored(cookies, list, u) == AddedAll(Cleared(cookies, u), list, u)

-----------------------------------------------------------------------------
Change(cookies) == jar' = cookies /\ UNCHANGED <<enabled, now>>

ServerSets(c, u) == enabled /\ u # NoUrl /\ Change(SetCookieFromUrl(jar, c, u))
AddCookie(c, u)  == enabled /\ Change(Added(jar, c, u))
DeleteCookie(n, u) == enabled /\ Change(Deleted(jar, n, u))
ClearCookies(u)  == enabled /\ Change(Cleared(jar, u))
SetCookies(list, u) == enabled /\ Change(Restored(jar, list, u))

Enable  == enabled' = TRUE /\ UNCHANGED <<jar, now>>
Disable == enabled' = FALSE /\ UNCHANGED <<jar, now>>
Tick    == now < MaxTime /\ now' = now + 1 /\ UNCHANGED <<jar, enabled>>

Next ==
    \/ Enable \/ Disable \/ Tick
    \/ \E u \in Urls \cup {NoUrl} :
           \/ \E c \in Cookies : ServerSets(c, u) \/ AddCookie(c, u) \/ DeleteCookie(c.name, u)
           \/ ClearCookies(u)
           \/ \E c, d \in Cookies : SetCookies(<<c, d>>, u)
           \/ \E v \in Urls \cup {NoUrl} : SetCookies(CookiesToMap(jar, v), u)

Spec == Init /\ [][Next]_vars

-----------------------------------------------------------------------------
(* Properties *)

\* However cookies come and go, at most one has a given name, domain and path.
UniqueKeys ==
    \A i, j \in DOMAIN jar : i # j =>
        <<jar[i].name, jar[i].domain, jar[i].path>> # <<jar[j].name, jar[j].domain, jar[j].path>>

\* addCookie without a URL answers true exactly for the cookies that will be
\* sent to the domain they name: contains() and Qt's rules agree, whenever the
\* jar changes.  (A cookie for a top-level domain is refused and changes nothing;
\* contains() may find one like it in a site.)
AddedIsSent ==
    [][\A c \in Cookies :
           AddCookie(c, NoUrl) /\ c.domain # NoDomain /\ ~Expired(c) =>
               (HasCookie(jar', c) <=>
                   \E i \in DOMAIN jar' : LET d == jar'[i] IN
                       /\ Visible(d, MockUrl(c))
                       /\ <<c.name, c.value, c.secure, c.expires>>
                              = <<d.name, d.value, d.secure, d.expires>>)]_vars

\* page.clearCookies deletes what page.cookies shows, all of it and nothing
\* else, wherever it stands in the jar and whichever domain it comes from.
PageCleared ==
    [][\A u \in Urls : ClearCookies(u) =>
           /\ CookiesForUrl(jar', u) = <<>>
           /\ \A i \in DOMAIN jar : Visible(jar[i], u) \/ jar[i] \in ToSet(jar')]_vars

\* Writing the cookies of a page, or of phantom, back to it changes neither them
\* nor their order, although every conversion starts at the end of its list
\* and the jar makes room on the way.  Cookies of a single host come back as
\* cookies of a domain, and a session cookie takes the expiry of the cookie
\* listed before it: neither must occur.
RestoreKeepsCookies ==
    \A u \in Urls \cup {NoUrl} :
        LET shown == IF u = NoUrl THEN jar ELSE CookiesForUrl(jar, u)
            after == Restored(jar, CookiesToMap(jar, u), u)
        IN  /\ \A i \in DOMAIN shown : shown[i].domain.dot /\ ~Expired(shown[i])
            /\ CookiesToMap(jar, u) = Reverse(shown)
            => shown = IF u = NoUrl THEN after ELSE CookiesForUrl(after, u)
=============================================================================
