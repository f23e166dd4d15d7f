--------------------------------- MODULE Routing ---------------------------------
(***************************************************************************)
(* Which route and which certificate a request gets: the route matcher     *)
(* (proxy/route.rs) and the TLS matcher (proxy/ssl.rs), built once per     *)
(* snapshot, one resource after the other.                                 *)
(*                                                                         *)
(* A URI is a sequence of segments, a host the sequence of its labels from *)
(* the right.  A pattern's segment may be Param, its last one CatchAll.    *)
(***************************************************************************)
EXTENDS Ordering, SequencesExt

CONSTANTS
  RouteTables,   \* sets of routes [id, uris, hosts, methods, priority, cors]
  SslTables,     \* sets of certificates [id, snis]
  Hosts, Uris, Methods,
  GlobalCors     \* whether the global rules have the cors plugin

Param == "{}"
CatchAll == "{*}"

IsSequence(s) == s \in Seq(Range(s))
\* matchit refuses a catch-all anywhere but at the end.
IsPattern(p) == IsSequence(p) /\ \A i \in DOMAIN p : p[i] = CatchAll => i = Len(p)

\* Resources have ids of their own.
ASSUME RoutingAssumption ==
  /\ \A table \in RouteTables :
       /\ IsFiniteSet(table)
       /\ \A r \in table :
            /\ r.id \in Int
            /\ r.priority \in Int
            /\ IsSequence(r.uris)
            /\ \A uri \in Range(r.uris) : IsPattern(uri)
            /\ IsSequence(r.hosts)
            /\ \A host \in Range(r.hosts) : IsPattern(host)
       /\ \A r, s \in table : r.id = s.id => r = s
  /\ \A table \in SslTables : \A ssl \in table :
       /\ IsSequence(ssl.snis)
       /\ \A sni \in Range(ssl.snis) :
            /\ sni.kind \in {"exact", "wildcard", "any"}
            /\ sni = [kind |-> sni.kind, labels |-> sni.labels]
            /\ IsSequence(sni.labels)
            /\ sni.kind = "any" => sni.labels = <<>>
  /\ \A host \in Hosts : IsSequence(host)

VARIABLES
  routes,      \* the routes of the snapshot
  toInsert,    \* those the matcher does not have yet, in insertion order
  matcher,     \* [non_host, hosts]: the two routers
  ssls, sslsLeft, sslMatcher,
  matched      \* what the last request got

routingVars == <<routes, toInsert, matcher, ssls, sslsLeft, sslMatcher, matched>>

--------------------------------------------------------------------------------
(* matchit's router, a function from patterns to values.  It is asked for a *)
(* text: a segment of it that looks like a parameter is just a text that    *)
(* only a parameter or a catch-all matches.                                 *)

Rank(segment) == IF segment = CatchAll THEN 2 ELSE IF segment = Param THEN 1 ELSE 0
Covers(pattern, text) ==
  /\ Len(pattern) <= Len(text)
  /\ Len(pattern) = Len(text) \/ (pattern # <<>> /\ Last(pattern) = CatchAll)
  /\ \A i \in DOMAIN pattern :
       Rank(pattern[i]) > 0 \/ (pattern[i] = text[i] /\ Rank(text[i]) = 0)

\* Static text wins over a parameter and a parameter over a catch-all, at the first
\* place where two patterns differ.
MoreSpecific(p, q) ==
  \E i \in DOMAIN p \cap DOMAIN q :
    /\ Rank(p[i]) < Rank(q[i])
    /\ \A j \in 1..(i - 1) : Rank(p[j]) = Rank(q[j])
Found(router, text) ==
  LET covering == {p \in DOMAIN router : Covers(p, text)}
  IN {p \in covering : \A q \in covering : q = p \/ MoreSpecific(p, q)}
With(router, pattern, value) ==
  [p \in DOMAIN router \cup {pattern} |-> IF p = pattern THEN value ELSE router[p]]

--------------------------------------------------------------------------------
(* MatchEntry of route.rs.                                                  *)

RouteBefore(a, b) == a.priority > b.priority \/ (a.priority = b.priority /\ a.id < b.id)

\* The bucket is sorted by priority, and the sort is stable.
Pushed(bucket, route) ==
  LET first == {r \in Range(bucket) : r.priority >= route.priority}
  IN Keeping(bucket, first) \o <<route>> \o Keeping(bucket, Range(bucket) \ first)

\* at_mut looks the pattern up as if it were a path.
insert_into_router(router, uri, route) ==
  IF Found(router, uri) # {}
  THEN LET p == CHOOSE p \in Found(router, uri) : TRUE
       IN [router EXCEPT ![p] = Pushed(@, route)]
  ELSE With(router, uri, <<route>>)
InsertUris(router, route) ==
  Looped(LAMBDA r, uri : insert_into_router(r, uri, route), router, route.uris)

insert_host_uris(hosts, host, route) ==
  LET found == Found(hosts, host)
      key == IF found # {} THEN CHOOSE p \in found : TRUE ELSE host
      router == IF found # {} THEN hosts[key] ELSE <<>>
  IN With(hosts, key, InsertUris(router, route))

insert_route(m, route) ==
  IF route.hosts # <<>>
  THEN [m EXCEPT !.hosts = Looped(LAMBDA hs, h : insert_host_uris(hs, h, route), @, route.hosts)]
  ELSE [m EXCEPT !.non_host = InsertUris(@, route)]

\* The first route of the bucket that Takes the request: <<>> or <<route>>.
FirstOf(router, uri, Takes(_)) ==
  LET found == Found(router, uri)
      bucket == router[CHOOSE p \in found : TRUE]
      taking == {i \in DOMAIN bucket : Takes(bucket[i])}
  IN IF found = {} \/ taking = {} THEN <<>>
     ELSE <<bucket[CHOOSE i \in taking : \A j \in taking : i <= j]>>

HasMethod(route, method) == route.methods = {} \/ method \in route.methods

\* Mutant of match_uri_method: the first route of the bucket, whatever its methods.
AnyMethod(router, uri, method) == FirstOf(router, uri, LAMBDA r : TRUE)

match_uri_method(router, uri, method) ==
  FirstOf(router, uri, LAMBDA r : HasMethod(r, method))
match_preflight_uri(router, uri, method) ==
  FirstOf(router, uri, LAMBDA r : (GlobalCors \/ r.cors) /\ HasMethod(r, method))

\* A host without a route for the request falls back to the routes without host; a
\* request without host is <<>>.
HostThenAny(host, Match(_)) ==
  LET found == Found(matcher.hosts, host)
      first == Match(matcher.hosts[CHOOSE p \in found : TRUE])
  IN IF host # <<>> /\ found # {} /\ first # <<>> THEN first ELSE Match(matcher.non_host)
match_host_uri_method(host, uri, method) ==
  HostThenAny(host, LAMBDA router : match_uri_method(router, uri, method))
match_preflight(host, uri, method) ==
  HostThenAny(host, LAMBDA router : match_preflight_uri(router, uri, method))

\* early_request_filter: an OPTIONS request that nothing matches is tried as the
\* preflight of the method it asks for ("" when it is no preflight).
match_request(host, uri, method, preflightFor) ==
  LET plain == match_host_uri_method(host, uri, method)
  IN IF plain = <<>> /\ method = "OPTIONS" /\ preflightFor # ""
     THEN match_preflight(host, uri, preflightFor) ELSE plain

--------------------------------------------------------------------------------
(* MatchEntry of ssl.rs.  An SNI pattern is [kind, labels]; labels are the  *)
(* suffix of a wildcard.                                                    *)

EmptySslMatcher == [exact |-> <<>>, wildcards |-> <<>>, any |-> <<>>, failed |-> FALSE]

\* Patterns are put in one by one; a second holder of a pattern is an error.
InsertSni(m, sni, ssl) ==
  LET taken == CASE sni.kind = "any" -> m.any # <<>>
                 [] sni.kind = "wildcard" -> sni.labels \in DOMAIN m.wildcards
                 [] sni.kind = "exact" -> sni.labels \in DOMAIN m.exact
  IN IF m.failed \/ taken THEN [m EXCEPT !.failed = TRUE]
     ELSE CASE sni.kind = "any" -> [m EXCEPT !.any = <<ssl.id>>]
            [] sni.kind = "wildcard" -> [m EXCEPT !.wildcards = With(@, sni.labels, ssl.id)]
            [] sni.kind = "exact" -> [m EXCEPT !.exact = With(@, sni.labels, ssl.id)]
insert_ssl(m, ssl) == Looped(LAMBDA acc, sni : InsertSni(acc, sni, ssl), m, ssl.snis)

\* Mutant of host_matches_wildcard: any number of labels in front.
AnySubdomain(host, suffix) ==
  Len(host) > Len(suffix) /\ SubSeq(host, 1, Len(suffix)) = suffix

\* One label in front of the suffix.
host_matches_wildcard(host, suffix) ==
  Len(host) = Len(suffix) + 1 /\ SubSeq(host, 1, Len(suffix)) = suffix

\* Wildcards are tried longest suffix first; 0 is the default certificate.
match_sni(host) ==
  LET wild == {s \in DOMAIN sslMatcher.wildcards : host_matches_wildcard(host, s)}
  IN CASE host \in DOMAIN sslMatcher.exact -> sslMatcher.exact[host]
       [] host \notin DOMAIN sslMatcher.exact /\ wild # {} ->
            sslMatcher.wildcards[CHOOSE s \in wild : \A t \in wild : Len(t) <= Len(s)]
       [] host \notin DOMAIN sslMatcher.exact /\ wild = {} ->
            IF sslMatcher.any # <<>> THEN sslMatcher.any[1] ELSE 0

--------------------------------------------------------------------------------
(* Building and asking.                                                     *)

NotAsked == [asked |-> FALSE]

RoutingInit ==
  /\ routes \in RouteTables /\ toInsert = InOrderOf(routes, RouteBefore)
  /\ matcher = [non_host |-> <<>>, hosts |-> <<>>]
  /\ ssls \in SslTables /\ sslsLeft = ssls /\ sslMatcher = EmptySslMatcher
  /\ matched = NotAsked

\* MatchEntry::build of route.rs: by priority, then id.
InsertNextRoute ==
  /\ toInsert # <<>>
  /\ matcher' = insert_route(matcher, Head(toInsert))
  /\ toInsert' = Tail(toInsert)
  /\ UNCHANGED <<routes, ssls, sslsLeft, sslMatcher, matched>>

\* MatchEntry::build of ssl.rs: in the order a HashMap happens to have.
InsertAnySsl ==
  /\ toInsert = <<>>
  /\ \E ssl \in sslsLeft :
       /\ sslMatcher' = insert_ssl(sslMatcher, ssl)
       /\ sslsLeft' = sslsLeft \ {ssl}
  /\ UNCHANGED <<routes, toInsert, matcher, ssls, matched>>

Ask ==
  /\ ~matched.asked /\ toInsert = <<>> /\ sslsLeft = {} /\ ~sslMatcher.failed
  /\ \E host \in Hosts \cup {<<>>}, uri \in Uris, method \in Methods, wanted \in Methods \cup {""} :
       /\ wanted # "" => method = "OPTIONS"
       /\ matched' = [asked |-> TRUE, host |-> host, uri |-> uri, method |-> method, wanted |-> wanted,
                      route |-> match_request(host, uri, method, wanted), cert |-> match_sni(host)]
  /\ UNCHANGED <<routes, toInsert, matcher, ssls, sslsLeft, sslMatcher>>

RoutingNext == InsertNextRoute \/ InsertAnySsl \/ Ask
RoutingSpec == RoutingInit /\ [][RoutingNext]_routingVars

--------------------------------------------------------------------------------
(* Properties.                                                              *)

\* Some pattern covers another one that is inserted after it, for a later route or
\* further on in the same route's list.
Shadowing ==
  \E a, b \in routes :
    \/ \E i \in DOMAIN a.uris, j \in DOMAIN b.uris :
         /\ RouteBefore(a, b) \/ (a = b /\ i < j)
         /\ a.uris[i] # b.uris[j] /\ Covers(a.uris[i], b.uris[j])
    \/ \E i \in DOMAIN a.hosts, j \in DOMAIN b.hosts :
         /\ RouteBefore(a, b) \/ (a = b /\ i < j)
         /\ a.hosts[i] # b.hosts[j] /\ Covers(a.hosts[i], b.hosts[j])

\* What the documentation says: the routes of the most specific host, of them those
\* with the most specific URI, of them the first by priority and id that takes the
\* method; the routes without a host come after those with one.
Bests(patterns, text) ==
  {p \in patterns : Covers(p, text) /\ \A q \in patterns : Covers(q, text) => (q = p \/ MoreSpecific(p, q))}
Documented(group, uri, Takes(_)) ==
  LET best == Bests(UNION {Range(r.uris) : r \in group}, uri)
      taking == {r \in group : Range(r.uris) \cap best # {} /\ Takes(r)}
  IN {r \in taking : \A s \in taking : s = r \/ RouteBefore(r, s)}
DocumentedRoute(host, uri, Takes(_)) ==
  LET best == Bests(UNION {Range(r.hosts) : r \in routes}, host)
      ofHost == Documented({r \in routes : Range(r.hosts) \cap best # {}}, uri, Takes)
      hostless == Documented({r \in routes : r.hosts = <<>>}, uri, Takes)
  IN IF host # <<>> /\ ofHost # {} THEN ofHost ELSE hostless

\* A request gets the route the documentation describes, and a preflight only a
\* route that answers preflights, unless some pattern covers one inserted after it:
\* insert_into_router then files the two together, which is what StaticBeforeDynamic
\* is about.
RoutedAsDocumented ==
  (matched.asked /\ ~Shadowing) =>
    LET m == matched
        plain == DocumentedRoute(m.host, m.uri, LAMBDA r : HasMethod(r, m.method))
        preflight == DocumentedRoute(m.host, m.uri,
                       LAMBDA r : (GlobalCors \/ r.cors) /\ HasMethod(r, m.wanted))
    IN Range(m.route) = IF plain # {} \/ m.wanted = "" THEN plain ELSE preflight

\* USER_GUIDE.md: "Static routes have higher priority than dynamic routes."  A request
\* whose URI is spelled out by a route that takes its method does not get a route of
\* the same hosts that only has a parameter or a catch-all for it
\* (insert_into_router, match_uri_method).
StaticBeforeDynamic ==
  matched.asked =>
    \A static \in routes, got \in Range(matched.route) :
      (/\ matched.uri \in Range(static.uris)
       /\ HasMethod(static, matched.method)
       /\ static.hosts = got.hosts) => matched.uri \in Range(got.uris)

\* The certificate is that of the most specific pattern for the name, and does not
\* depend on the order in which the certificates were inserted; a pattern claimed
\* twice, by two certificates or in the list of one, is refused in every order
\* (ssl.rs: insert_ssl, match_sni).
Claims(kind, labels) ==
  {s.id : s \in {t \in ssls : \E i \in DOMAIN t.snis : t.snis[i] = [kind |-> kind, labels |-> labels]}}
Contested ==
  \E s, t \in ssls : \E i \in DOMAIN s.snis, j \in DOMAIN t.snis :
    (s # t \/ i # j) /\ s.snis[i] = t.snis[j]
CertificateMostSpecific ==
  /\ sslsLeft = {} => (sslMatcher.failed <=> Contested)
  /\ matched.asked =>
       LET exact == Claims("exact", matched.host)
           wild == IF matched.host = <<>> THEN {} ELSE Claims("wildcard", Front(matched.host))
           any == Claims("any", <<>>)
       IN {matched.cert} = IF exact # {} THEN exact ELSE IF wild # {} THEN wild
                           ELSE IF any # {} THEN any ELSE {0}
================================================================================
