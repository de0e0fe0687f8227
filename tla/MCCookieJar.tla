----------------------------- MODULE MCCookieJar -----------------------------
(* CookieJar with a site and a subdomain, and cookies that collide. *)
EXTENDS CookieJar

Site == <<"com", "site">>
Sub  == <<"com", "site", "sub">>

Given(name, value, labels, dot, path, secure, expires) ==
    [name |-> name, value |-> value, path |-> path, secure |-> secure,
     domain |-> [labels |-> labels, dot |-> dot], expires |-> expires]

MCCookies ==
    {Given("a", "v", <<>>, FALSE, 0, FALSE, 0),
     Given("a", "v", Site, FALSE, 1, FALSE, 2),
     Given("a", "w", Site, TRUE, 1, FALSE, 0),
     Given("a", "v", Sub, TRUE, 2, TRUE, 1),
     Given("a", "v", <<"com">>, FALSE, 1, FALSE, 2),
     Given("b", "v", Sub, FALSE, 0, FALSE, 2)}

Address(host, path, https) == [host |-> host, path |-> path, https |-> https]

MCUrls == {Address(Site, 1, FALSE), Address(Sub, 2, FALSE), Address(Sub, 2, TRUE)}
=============================================================================
