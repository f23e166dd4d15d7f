------------------------------ MODULE MCDataPlane ------------------------------
(***************************************************************************)
(* The rest of the gateway for TLC, one of Parts per behaviour: the plugin *)
(* pipeline, the response cache behind the authentication plugins, route   *)
(* and certificate matching, the compilation of a snapshot, the file log,  *)
(* the shared counters of limit-count, the plugins that see bodies, the    *)
(* mirror and the Admin API.                                               *)
(***************************************************************************)
EXTENDS PluginPipeline, ResponseCache, Routing, SnapshotCompile, FileLogger, LimitGroups,
        BodyFilters, ProxyMirror, AdminApi

CONSTANT Parts

VARIABLE part

-----------------------------------------------------------------------------
\* The pipeline: a snapshot with global rules, a route with a plugin its service has
\* too, and exit transformers; one with a rule and a service only; one with no route.
Entry(name, priority, phases, of) ==
  [name |-> name, priority |-> priority, phases |-> phases, exit |-> <<>>, of |-> of, rule |-> 0]
Rule(codes, status, body, headers) ==
  [codes |-> codes, status |-> status, body |-> body, headers |-> headers]
RouteExit ==
  [Entry(2, 5, {}, "route") EXCEPT !.exit =
     << <<Rule({403}, 204, "$message", [h \in {"content-length", "x"} |-> "rule"])>> >>]
GlobalExit ==
  [Entry(9, 5, {"logging"}, "global") EXCEPT !.exit =
     << <<Rule({403, 500}, 0, "$message", [h \in {"content-type"} |-> "rule"])>> >>]
MCSnapshots ==
  << [routed |-> TRUE,
      global |-> {Entry(1, 7, {"early_request", "request"}, "global"), GlobalExit},
      route |-> {RouteExit, Entry(4, 3, {"request", "upstream_request", "logging"}, "route")},
      service |-> {Entry(4, 9, {"request", "logging"}, "service"),
                   Entry(5, 3, {"upstream_peer", "response", "response_body"}, "service")}],
     [routed |-> TRUE,
      global |-> {[Entry(1, 7, {"request", "logging"}, "global") EXCEPT !.rule = 2],
                  Entry(1, 7, {"request", "request_body"}, "global")},
      route |-> {}, service |-> {Entry(5, 3, {"logging"}, "service")}],
     [routed |-> FALSE, global |-> {GlobalExit}, route |-> {}, service |-> {}] >>
MCRejections ==
  {NewRejection(403, None, None, NoHeaders, FALSE),
   NewRejection(403, "message", "text", [h \in {"content-type", "content-length", "y"} |-> "own"], TRUE)}
-----------------------------------------------------------------------------
\* The cache behind key-auth, jwt-auth (header, query, cookie) and basic-auth.
KeyAuth(hide) ==
  [plugin |-> "key-auth", header |-> "apikey", query |-> "k", keys |-> {"a", "b"}, key |-> {}, hide |-> hide]
JwtAuth ==
  [plugin |-> "jwt-auth", header |-> "authorization", query |-> "", cookie |-> "jwt", hide |-> TRUE,
   store |-> TRUE, key |-> "secret", grace |-> 0, iss |-> <<>>, aud |-> <<>>, required |-> {}, verify |-> {"nbf"}]
BasicAuth == [plugin |-> "basic-auth", user |-> "alice", hide |-> TRUE]
CacheConf ==
  [ttl |-> 1, cache_ttl |-> <<>>, methods |-> {"GET", "HEAD"}, cache_method |-> <<>>, statuses |-> {200},
   cache_http_status |-> <<>>, cache_set_cookie |-> FALSE, cache_set_cookie_responses |-> FALSE,
   max_file_size |-> <<>>, max_resp_body_size |-> <<>>, vary |-> {}, cache_key |-> <<>>,
   cache_bypass |-> <<>>, no_cache |-> <<>>, no_cache_str |-> {"/live"}, enable_purge |-> FALSE, swr |-> 0,
   respect_s_maxage |-> TRUE, cache_authenticated_requests |-> FALSE, consumer_isolation |-> TRUE,
   cache_control |-> "absent", cache_strategy |-> "memory", scope |-> "local"]
ASSUME cache_config_valid(CacheConf)
SharedConf == [CacheConf EXCEPT !.cache_authenticated_requests = TRUE]
Cache(raw) == create_cache_plugin(raw)
Place(global, plugins, service, upstream) ==
  [global |-> global, route |-> [id |-> "r", plugins |-> plugins, service |-> service], upstream |-> upstream]
\* Per consumer; a global cache in front of the route's authentication; variants.
PerConsumer ==
  <<Place({}, {KeyAuth(TRUE), Cache(SharedConf)}, {}, "u"),
    Place({}, {KeyAuth(FALSE), Cache(SharedConf)}, {}, "u")>>
GlobalCache ==
  <<Place({Cache(CacheConf)}, {KeyAuth(TRUE)}, {}, "u"),
    Place({Cache([CacheConf EXCEPT !.cache_ttl = <<2>>])}, {}, {}, "u")>>
ByUri == Cache([SharedConf EXCEPT !.swr = 1, !.cache_key = <<[of |-> "uri", name |-> ""]>>])
ServiceCache ==
  <<Place({}, {JwtAuth}, {ByUri}, "u"), Place({BasicAuth}, {JwtAuth}, {ByUri}, "u")>>
Varying == [CacheConf EXCEPT !.vary = {"lang"}, !.enable_purge = TRUE]
ArgK == <<[of |-> "arg", name |-> "k"]>>
Variants ==
  <<Place({}, {Cache([Varying EXCEPT !.no_cache = ArgK])}, {}, "u"),
    Place({}, {Cache([Varying EXCEPT !.cache_bypass = ArgK, !.cache_control = "false"])}, {}, "u2")>>
MCSiteHistories == {PerConsumer, GlobalCache, ServiceCache, Variants}
Credential(text) == [scheme |-> "", text |-> text]
Bearer(text) == [scheme |-> "bearer", text |-> text]
Req(method, query, headers, cookies) ==
  [https |-> FALSE, host |-> "h", method |-> method, path |-> "/p", query |-> query, headers |-> headers, cookies |-> cookies]
Anybody == Req("GET", <<>>, <<>>, <<>>)
WithHeader(name, value) == Req("GET", <<>>, name :> value, <<>>)
KeyA == WithHeader("apikey", Credential("a"))
KeyB == WithHeader("apikey", Credential("b"))
QueryB == Req("GET", <<"k", "b">>, <<>>, <<>>)
MCCacheRequests ==
  PerConsumer :> {KeyA, KeyB, QueryB} @@ GlobalCache :> {Anybody, KeyA, KeyB} @@
  ServiceCache :> {Req("GET", <<>>, <<>>, "jwt" :> "t1"), WithHeader("authorization", Bearer("t2")),
                   Req("GET", <<>>, "authorization" :> [scheme |-> "basic", text |-> "alice"], "jwt" :> "t1")} @@
  Variants :> {Anybody, [Anybody EXCEPT !.https = TRUE], [Anybody EXCEPT !.host = "other"], WithHeader("lang", Credential("fr")), QueryB,
               WithHeader("cache-control", Credential("no-cache")), WithHeader("cache-control", Credential("max-age=0")), Req("PURGE", <<>>, <<>>, <<>>)}
MCTokens ==
  [t \in {"t1", "t2"} |-> [key |-> "secret", claims |-> [c \in {"exp", "nbf"} |-> IF c = "exp" THEN 1 ELSE 0]]]
Response(status, vary, setCookie, control) ==
  [status |-> status, vary |-> vary, varyStar |-> FALSE, setCookie |-> setCookie, control |-> control, size |-> 1]
MCResponses ==
  {Response(200, {}, FALSE, <<>>), Response(200, {"lang"}, FALSE, [d \in {"s-maxage"} |-> 1]),
   Response(200, {}, FALSE, [d \in {"public", "max-age"} |-> IF d = "public" THEN 0 ELSE 2]),
   Response(200, {}, FALSE, [d \in {"s-maxage", "swr"} |-> 1]), Response(200, {}, TRUE, <<>>), Response(200, {}, FALSE, [d \in {"private"} |-> 0])}
-----------------------------------------------------------------------------
\* Route tables with static, parameter, catch-all and host patterns, priorities and
\* preflights; certificates for exact, wildcard and any names.
Route(id, uris, hosts, methods, priority, cors) ==
  [id |-> id, uris |-> uris, hosts |-> hosts, methods |-> methods, priority |-> priority, cors |-> cors]
Static == <<"api", "users">>
ById == <<"api", Param>>
All == <<CatchAll>>
Com == <<"com", CatchAll>>
Example == <<"com", "example", CatchAll>>
Api == <<"com", "example", "api">>
MCRouteTables ==
  { {Route(1, <<Static>>, <<>>, {}, 1, FALSE), Route(2, <<ById>>, <<>>, {}, 0, TRUE), Route(3, <<All>>, <<>>, {"GET"}, 0, FALSE)},
    {Route(1, <<Static>>, <<>>, {"GET"}, 0, FALSE), Route(2, <<Static>>, <<>>, {}, 0, TRUE), Route(3, <<Static, ById>>, <<>>, {}, 5, FALSE)},
    {Route(1, <<All>>, <<Api>>, {"PUT"}, 0, TRUE), Route(2, <<All>>, <<Example>>, {}, 0, FALSE), Route(3, <<All>>, <<>>, {}, 9, FALSE)},
    {Route(1, <<Static>>, <<Example>>, {}, 2, FALSE), Route(2, <<ById>>, <<Com, Api>>, {}, 1, FALSE)},
    {Route(1, <<ById>>, <<>>, {}, 0, FALSE), Route(2, <<Static>>, <<>>, {}, 0, FALSE)} }
Sni(kind, labels) == [kind |-> kind, labels |-> labels]
Ssl(id, snis) == [id |-> id, snis |-> snis]
MCSslTables ==
  { {Ssl(1, <<Sni("exact", Api), Sni("any", <<>>)>>), Ssl(2, <<Sni("wildcard", <<"com", "example">>)>>),
     Ssl(3, <<Sni("wildcard", <<"com">>)>>)},
    {Ssl(1, <<Sni("wildcard", <<"com">>), Sni("exact", Api)>>), Ssl(2, <<Sni("wildcard", <<"com">>)>>)},
    {Ssl(1, <<Sni("exact", Api), Sni("any", <<>>), Sni("exact", Api)>>), Ssl(2, <<Sni("wildcard", <<"com">>)>>)}}
MCHosts == {Api, <<"com", "example", "www">>, <<"com", "example">>, <<"com", "example", "www", "a">>, <<"org">>}
MCUris == {Static, <<"api", "7">>, <<"x">>, <<"api", "users", "7">>}
-----------------------------------------------------------------------------
\* Graphs to compile: references and inline upstreams in every place that takes one,
\* an upstream whose change must spread, duplicated nodes, dangling references.
Up(port) == [scheme |-> "http", passHost |-> "pass", upstreamHost |-> {}, checks |-> {},
             nodes |-> <<[host |-> "a", port |-> port, weight |-> 1]>>]
Doubled == [Up(0) EXCEPT !.nodes = @ \o <<[host |-> "a", port |-> 80, weight |-> 1]>>]
Target(id, up) == [weight |-> 1, upstreamId |-> id, upstream |-> up]
Split(id, up) == {<<<<Target(id, up), Target({}, {})>>>>}
Scope(id, up, split) == [upstreamId |-> id, upstream |-> up, split |-> split, hosts |-> {"h"}]
Services ==
  {Scope({"u1"}, {}, {}), Scope({}, {Up(0)}, {}),
   Scope({"u1"}, {}, Split({"u2"}, {})), Scope({"u1"}, {}, Split({}, {Up(0)}))}
RouteOn(sid, id, up, split) ==
  [uris |-> {"/"}, serviceId |-> sid, upstreamId |-> id, upstream |-> up, split |-> split, hosts |-> {}]
Routes ==
  {RouteOn({"s1"}, {}, {}, {}), RouteOn({"s1"}, {}, {Up(0)}, Split({"u2"}, {})),
   RouteOn({}, {"u1"}, {}, {})}
Extras ==
  {EmptyGraph,
   [EmptyGraph EXCEPT !.globalRules = "g1" :> [split |-> Split({"u2"}, {Up(0)})]],
   [EmptyGraph EXCEPT !.services = "s2" :> Scope({}, {Up(81)}, {}), !.ssls = "c" :> 1],
   [EmptyGraph EXCEPT !.upstreams = "u3" :> Doubled]}
MCGraphs ==
  {[upstreams |-> "u1" :> u @@ second @@ extra.upstreams,
    services |-> "s1" :> s @@ extra.services,
    routes |-> "r1" :> r,
    globalRules |-> extra.globalRules,
    ssls |-> extra.ssls] :
      u \in {Up(0), Up(81)}, second \in {<<>>, "u2" :> Up(0), "u2" :> Up(81)},
      s \in Services, r \in Routes, extra \in Extras}
-----------------------------------------------------------------------------
\* limit-count: routes that share a group, one that changes its group, rules.
Counting(group, main, rules, keyType, missing) ==
  [group |-> group, main |-> main, rules |-> rules, keyType |-> keyType, key |-> "x",
   missing |-> missing, allowDegradation |-> FALSE]
PerWindow(count) == {[count |-> count, window |-> 1]}
RuleOf(key, count, template) == [key |-> key, count |-> count, window |-> 1, template |-> template]
Grouped(count) == Counting({"g"}, PerWindow(count), <<>>, "var", "allow")
Ruled == Counting({}, {}, <<RuleOf("x", 2, TRUE), RuleOf("remote_addr", 1, TRUE)>>, "var", "allow")
MCCountSnapshots ==
  <<("a" :> Grouped(1) @@ "b" :> Grouped(1) @@ "c" :> Ruled),
    ("a" :> Grouped(2) @@ "b" :> Grouped(1) @@ "c" :> Counting({"h"}, PerWindow(1), <<>>, "head", "default")),
    ("b" :> Grouped(2) @@ "c" :> Counting({}, PerWindow(1), <<>>, "head", "deny"))>>
From(x) == [v \in {"x", "remote_addr"} |-> IF v = "x" THEN x ELSE "ip"]
MCCountRequests == <<[route |-> "a", vars |-> From("k")], [route |-> "b", vars |-> From("k")],
    [route |-> "c", vars |-> From("")]>>
-----------------------------------------------------------------------------
\* Exchanges with bodies: stacks of global and route plugins, framings, chunks.
Str(s) == <<"str", s>>
Obj(f) == <<"obj", f>>
Message(role) == Obj([role |-> Str(role), content |-> Str("hi")])
Chat == [messages |-> <<"list", <<Message("system"), Message("user")>>>>, model |-> Str("m"),
         max_tokens |-> <<"num", 7>>, stream |-> <<"bool", TRUE>>]
ChatDoc == Obj(Chat)
BadDoc == Obj([model |-> Str("m")])
OpenAi == [provider |-> "openai", authHeader |-> [authorization |-> "provider"], maxTokens |-> <<3>>] @@ AiProxyDefaults
Claude == [provider |-> "anthropic", authHeader |-> ("x-api-key" :> "claude"), authQuery |-> [k |-> "v"], sslVerify |-> FALSE,
           options |-> <<Obj([top_k |-> <<"null">>, model |-> Str("claude")])>>] @@ AiProxyDefaults
SmallAi == [OpenAi EXCEPT !.maxBody = 1, !.authHeader = [authorization |-> "small"]]
Second == [Claude EXCEPT !.authHeader = [authorization |-> "second"], !.sslVerify = TRUE]
AtMost(n) == [ClientControlDefaults EXCEPT !.max_body_size = n]
Grpc(n) == [GrpcWebDefaults EXCEPT !.max_req_body_size = n]
Validating(schema, n) ==
  [RequestValidationDefaults EXCEPT !.body_schema = <<schema>>, !.max_req_body_size = n, !.rejected_code = 422]
Chats == Validating({ChatDoc}, 3)
FormOf(a) == <<<<"pair", "a", "1">>, <<"pair", "b", "2">>, <<"pair", "a", "3">>>>
Forms == Validating({Obj([a |-> <<"list", <<Str("1"), Str("3")>>>>, b |-> Str("2")])}, 3)
Headed == [RequestValidationDefaults EXCEPT !.header_schema = <<{Obj("content-type" :> Str("json"))}>>]
B(x) == <<"byte", x>>
Rewriting(filters, n) == [ResponseRewriteDefaults EXCEPT !.filters = <<filters>>, !.max_resp_body_size = n]
AbToC == [pattern |-> <<B("a"), B("b")>>, replace |-> <<B("c")>>, global |-> TRUE]
COnce == [pattern |-> <<B("c")>>, replace |-> <<B("d"), B("d")>>, global |-> FALSE]
Replacing == [ResponseRewriteDefaults EXCEPT !.body = <<<<B("z")>>>>, !.status_code = <<200>>,
                !.set = ("x" :> <<<<"var", "request_id">>, <<"var", "request_id_x">>>>), !.remove = {"etag"}]
Asked(headers, framing, body) ==
  [method |-> "POST", path |-> "/", query |-> [k |-> "client"], headers |-> headers, framing |-> framing,
   body |-> body, vars |-> [request_id |-> "id"]]
Json == "content-type" :> <<"json">>
JsonAsk(framing, doc, n) == Asked([h \in {"authorization"} |-> <<"client">>] @@ Json, framing, Fragments(doc, n))
Bytes(framing, n) == Asked(<<>>, framing, [k \in 1 .. n |-> B("x")])
Answered(status, encoding, length, body) ==
  [head |-> [status |-> status, headers |-> ("etag" :> <<"e">>), encoding |-> encoding, length |-> length],
   body |-> body, upgraded |-> status = 101]
Ababc == <<B("a"), B("b"), B("a"), B("b"), B("c")>>
Ok == Answered(200, "none", TRUE, <<>>)
Case(global, route, req, answer) == [global |-> global, route |-> route, req |-> req, answer |-> answer]
Providers ==
  {Case(g, r, req, Ok) :
     g \in {<<>>, <<OpenAi>>, <<OpenAi, Second>>, <<Chats>>}, r \in {<<Claude, Chats>>, <<AtMost(2)>>, <<SmallAi>>, <<AtMost(3), Chats>>},
     req \in {JsonAsk("length", ChatDoc, 3), JsonAsk("chunked", ChatDoc, 2), JsonAsk("chunked", BadDoc, 1), JsonAsk("none", ChatDoc, 1),
              Asked("content-type" :> <<"json", "text">>, "chunked", Fragments(ChatDoc, 2))}}
Validations ==
  {Case(g, r, req, Ok) :
     g \in {<<Forms>>, <<Validating({Obj(<<>>)}, 1), Headed>>, <<>>}, r \in {<<Forms>>, <<AtMost(2), Grpc(1)>>},
     req \in {Asked("content-type" :> <<"form">>, "chunked", FormOf(1)), Asked("content-type" :> <<"form">>, "chunked", <<>>),
              Asked("content-type" :> <<"grpc-web">>, "chunked", <<B("x"), B("y")>>),
              [Bytes("none", 0) EXCEPT !.method = "OPTIONS"], [Bytes("none", 0) EXCEPT !.method = "GET"]}}
Rewrites ==
  {Case(g, r, Bytes("none", 0), a) :
     g \in {<<>>, <<Rewriting(<<AbToC, COnce>>, 9)>>, <<Replacing>>},
     r \in {<<Rewriting(<<AbToC, COnce>>, 4)>>, <<Rewriting(<<COnce>>, 5)>>, <<[Replacing EXCEPT !.vars = FALSE]>>},
     a \in {Answered(200, "none", TRUE, Ababc), Answered(200, "gzip", TRUE, Ababc), Answered(101, "none", FALSE, Ababc), Answered(204, "none", FALSE, <<>>)}}
MCBodyCases == Providers \cup Validations \cup Rewrites
ASSUME \A c \in MCBodyCases : \A i \in DOMAIN Stack(c) : body_plugin_valid(Stack(c)[i])
-----------------------------------------------------------------------------
\* Mirrors: two requests of one instance.
MCMirrorRequests == [r \in 1..2 |-> [layers |-> <<"m">>, uri |-> [path |-> <<"p">>, query |-> "q"], chunks |-> IF r = 1 THEN 2 ELSE 0]]
MirrorUrl == [scheme |-> "http", authority |-> "shadow", port |-> 0, path |-> "", query |-> ""]
MCMirrorConfigs == "m" :> [host |-> MirrorUrl, path |-> << <<"x">> >>, mode |-> "prefix"]
-----------------------------------------------------------------------------
\* The Admin API: a plugin with a list of keys, a certificate, rotated keyrings.
MCIds == {"route", "ssl"}
MCSlots == {New("s1"), New("s2"), Kept(1), Kept(2), Pasted("k1", "s1")}
Disabled == [enable |-> FALSE, keys |-> <<>>]
MCEnc == {Disabled, [enable |-> TRUE, keys |-> <<>>],
 [enable |-> TRUE, keys |-> <<"k1">>], [enable |-> TRUE, keys |-> <<"k2", "k1">>]}
MCGood == [apiKey |-> "right", path |-> "resource", method |-> "PUT", contentType |-> "application/json", body |-> "json", id |-> "valid"]
MCHttp == {MCGood, [MCGood EXCEPT !.apiKey = "wrong"], [MCGood EXCEPT !.contentType = "text/plain"],
 [MCGood EXCEPT !.body = "too large"], [MCGood EXCEPT !.id = "invalid"], [MCGood EXCEPT !.method = "GET"],
 [MCGood EXCEPT !.method = "DELETE"], [MCGood EXCEPT !.method = "POST"], [MCGood EXCEPT !.method = "DELETE", !.id = "invalid"],
 [MCGood EXCEPT !.path = "list", !.method = "GET"], [MCGood EXCEPT !.path = "publications", !.method = "GET"],
 [MCGood EXCEPT !.path = "nowhere"]}
-----------------------------------------------------------------------------
vars == <<part, pipelineVars, cacheVars, routingVars, compileVars, fileLogVars, groupVars,
          bodyVars, mirrorVars, adminVars>>

\* A variable with several initial values has only one in the parts of others.
Init ==
  /\ part \in Parts
  /\ PipelineInit /\ CompileInit /\ FileLogInit /\ GroupsInit
  /\ CacheInit /\ (part # "cache" => sites = PerConsumer)
  /\ RoutingInit /\ (part # "routing" => (/\ routes = CHOOSE t \in RouteTables : TRUE
                                          /\ ssls = CHOOSE t \in SslTables : TRUE))
  /\ BodyInit /\ (part # "bodies" => exchange = CHOOSE c \in BodyCases : TRUE)
  /\ MirrorInit /\ (part # "mirror" => mirrorPermits = MAX_CONCURRENT_MIRRORS)
  /\ AdminInit /\ (part # "admin" => keyring = Disabled)

Next ==
  /\ UNCHANGED part
  /\ \/ /\ part = "pipeline" /\ PipelineNext
        /\ UNCHANGED <<cacheVars, routingVars, compileVars, fileLogVars, groupVars, bodyVars, mirrorVars, adminVars>>
     \/ /\ part = "cache" /\ CacheNext
        /\ UNCHANGED <<pipelineVars, routingVars, compileVars, fileLogVars, groupVars, bodyVars, mirrorVars, adminVars>>
     \/ /\ part = "routing" /\ RoutingNext
        /\ UNCHANGED <<pipelineVars, cacheVars, compileVars, fileLogVars, groupVars, bodyVars, mirrorVars, adminVars>>
     \/ /\ part = "compile" /\ CompileNext
        /\ UNCHANGED <<pipelineVars, cacheVars, routingVars, fileLogVars, groupVars, bodyVars, mirrorVars, adminVars>>
     \/ /\ part = "file-logger" /\ FileLogNext
        /\ UNCHANGED <<pipelineVars, cacheVars, routingVars, compileVars, groupVars, bodyVars, mirrorVars, adminVars>>
     \/ /\ part = "groups" /\ GroupsNext
        /\ UNCHANGED <<pipelineVars, cacheVars, routingVars, compileVars, fileLogVars, bodyVars, mirrorVars, adminVars>>
     \/ /\ part = "bodies" /\ BodyNext
        /\ UNCHANGED <<pipelineVars, cacheVars, routingVars, compileVars, fileLogVars, groupVars, mirrorVars, adminVars>>
     \/ /\ part = "mirror" /\ MirrorNext
        /\ UNCHANGED <<pipelineVars, cacheVars, routingVars, compileVars, fileLogVars, groupVars, bodyVars, adminVars>>
     \/ /\ part = "admin" /\ AdminNext
        /\ UNCHANGED <<pipelineVars, cacheVars, routingVars, compileVars, fileLogVars, groupVars, bodyVars, mirrorVars>>

Spec == Init /\ [][Next]_vars
================================================================================
