------------------------------ MODULE ResponseCache ------------------------------
(***************************************************************************)
(* The shared response cache: the proxy-cache plugin (plugins/cache.rs),   *)
(* its policy (plugins/cache/http.rs) and the cache callbacks of           *)
(* HttpService, behind the authentication plugins, while configurations    *)
(* are published.  pingora's storage and lookup loop are external; its     *)
(* cache lock only delays a request and is left out.                       *)
(*                                                                         *)
(* A site is what one snapshot holds for the route: the plugins of both    *)
(* layers, the route's identity and its upstream.                          *)
(***************************************************************************)
EXTENDS AuthPlugins, TLC

CONSTANTS
  Clients,
  SiteHistories,   \* the sequences of sites that may be published
  CacheRequests,   \* what a client may send there
  Responses,       \* what the upstream may answer
  DefaultMaxObject,
  MaxNow           \* bound on the clock, in seconds

VARIABLES
  sites,    \* the sites of this behaviour, in the order they are published
  site,     \* index of the published one
  now,
  stored,   \* the cache: slots (primary key, variance) -> entry
  visit     \* what each client's request is doing

cacheVars == <<sites, site, now, stored, visit>>

--------------------------------------------------------------------------------
(* The plugin's configuration.  An optional field is <<>> or <<its value>>. *)

cache_config_valid(raw) ==
  /\ raw.ttl >= 1
  /\ raw.cache_ttl # <<>> => raw.cache_ttl[1] >= 1
  /\ raw.statuses \subseteq 100..599
  /\ raw.cache_http_status # <<>> =>
       raw.cache_http_status[1] # {} /\ raw.cache_http_status[1] \subseteq 200..599
  /\ raw.cache_method # <<>> =>
       raw.cache_method[1] # {} /\ raw.cache_method[1] \subseteq {"GET", "POST", "HEAD"}
  /\ "*" \notin raw.vary
  /\ \A i \in DOMAIN raw.cache_key : raw.cache_key[i] # [of |-> "request_method", name |-> ""]
  /\ raw.cache_strategy # "disk" /\ raw.scope = "local"

effective_max_file_size_bytes(raw) ==
  IF raw.max_file_size # <<>> THEN raw.max_file_size ELSE raw.max_resp_body_size
resolve_max_file_size(configured) == IF configured = <<>> THEN DefaultMaxObject ELSE configured[1]

\* TryFrom and create_cache_plugin: the aliases win, the vary names are a sorted
\* set.  The fingerprint is a hash of the other fields, here those fields.
create_cache_plugin(raw) ==
  [plugin |-> "proxy-cache",
   ttl |-> IF raw.cache_ttl # <<>> THEN raw.cache_ttl[1] ELSE raw.ttl,
   methods |-> IF raw.cache_method # <<>> THEN raw.cache_method[1] ELSE raw.methods,
   statuses |-> IF raw.cache_http_status # <<>> THEN raw.cache_http_status[1] ELSE raw.statuses,
   setCookie |-> raw.cache_set_cookie \/ raw.cache_set_cookie_responses,
   maxObject |-> resolve_max_file_size(effective_max_file_size_bytes(raw)),
   vary |-> raw.vary, key |-> raw.cache_key, bypass |-> raw.cache_bypass, noCache |-> raw.no_cache,
   noCachePaths |-> raw.no_cache_str, purge |-> raw.enable_purge, swr |-> raw.swr,
   respect |-> raw.respect_s_maxage, authenticated |-> raw.cache_authenticated_requests,
   isolation |-> raw.consumer_isolation, control |-> raw.cache_control]
policy_fingerprint(s) ==
  <<s.ttl, s.maxObject, s.respect, s.authenticated, s.setCookie, s.control, s.isolation,
    s.swr, s.key, s.bypass, s.noCache, s.statuses, s.vary>>

--------------------------------------------------------------------------------
(* The policy.  A template is one variable, [of, name]; it renders to a     *)
(* sequence of texts, empty when the variable is absent.                    *)

WireValue(value) == IF value.scheme = "" THEN <<value.text>> ELSE <<value.scheme, value.text>>
resolve_cache_key_var(req, v) ==
  CASE v.of = "arg" -> get_query_value(req, v.name)
    [] v.of = "http" ->
         IF v.name \in DOMAIN req.headers THEN WireValue(req.headers[v.name]) ELSE <<>>
    [] v.of = "host" -> IF req.host = "" THEN <<>> ELSE <<req.host>>
    [] v.of = "request_uri" -> <<req.path>> \o req.query
    [] v.of = "uri" -> <<req.path>>
    [] v.of = "query_string" -> req.query
    [] v.of = "request_method" -> <<req.method>>
    [] OTHER -> <<>>

apisix_templates_truthy(templates, req) ==
  LET rendered == FlattenSeq([i \in DOMAIN templates |-> resolve_cache_key_var(req, templates[i])])
  IN rendered # <<>> /\ rendered # <<"0">>

should_bypass_authenticated_request(s, ctx) == ~s.authenticated /\ (ctx.originalHad \/ ctx.has)

\* no_cache_flag_key: every instance has a flag of its own, the settings left in the
\* context say whose is read.  Instances with equal settings may share one: the later
\* of them sets both or is refused by response_cacheability.
Flagged(ctx, s, on) == [ctx EXCEPT !.noCache = IF on THEN @ \cup {s} ELSE @ \ {s}]

\* PluginCache::request_filter.
cache_request_filter(s, req, ctx) ==
  LET flagged == Flagged(ctx, s, apisix_templates_truthy(s.noCache, req))
  IN CASE req.method = "PURGE" /\ s.purge ->
            Continue(req, [Flagged(ctx, s, FALSE) EXCEPT !.settings = <<s>>])
       [] ~(req.method = "PURGE" /\ s.purge)
          /\ (req.method \notin s.methods \/ apisix_templates_truthy(s.bypass, req)) ->
            Continue(req, ctx)
       [] OTHER ->
            IF should_bypass_authenticated_request(s, ctx) \/ req.path \in s.noCachePaths
            THEN Continue(req, flagged)
            ELSE Continue(req, [flagged EXCEPT !.settings = <<s>>])

should_enable_purge(settings) == settings # <<>> /\ settings[1].purge
AsksPastCache(req) ==
  IF "cache-control" \in DOMAIN req.headers
  THEN req.headers["cache-control"].text \in {"no-cache", "no-store"} ELSE FALSE
should_enable_request_cache(req, settings, ctx) ==
  /\ "x-bypass-cache" \notin DOMAIN req.headers
  /\ settings # <<>>
  /\ AsksPastCache(req) => settings[1].control = "false"
  /\ ~should_bypass_authenticated_request(settings[1], ctx)

cache_key_method(method) == IF method = "PURGE" THEN "GET" ELSE method
cache_key_has_identity(s) == [of |-> "http", name |-> "authorization"] \in Range(s.key)

\* Mutant of consumer_isolation_component: a credential that a plugin has removed
\* from the request does not count.
OriginalOnly(ctx) == <<ctx.original>>

\* The credentials the request came with, and those plugins noted on the way.
consumer_isolation_component(ctx) == <<ctx.original, ctx.noted>>

\* The route's fingerprint leaves out its methods and its upstream binding, which
\* has a fingerprint of its own.
cache_namespace_fingerprint(place) == <<place.route.id, place.route.plugins, place.route.service>>
cache_key(place, req, ctx) ==
  LET s == ctx.settings[1]
      isolated == s.authenticated /\ s.isolation /\ ~cache_key_has_identity(s)
  IN [route |-> cache_namespace_fingerprint(place), policy |-> policy_fingerprint(s),
      upstream |-> place.upstream, https |-> req.https,
      consumer |-> IF isolated THEN consumer_isolation_component(ctx) ELSE <<>>,
      primary |-> IF s.key # <<>>
                  THEN [i \in DOMAIN s.key |-> resolve_cache_key_var(req, s.key[i])]
                  ELSE <<<<cache_key_method(req.method)>>, <<req.host>>, <<req.path>> \o req.query>>]

\* The variance is a hash of the values of the names; no names, no variance.
cache_vary(response, ctx, req) ==
  LET names == response.vary \cup ctx.settings[1].vary
  IN IF response.varyStar \/ names = {} THEN <<>>
     ELSE <<[n \in names |-> get_req_header_value(req, n)]>>

--------------------------------------------------------------------------------
(* What may be stored, and for how long.  A Cache-Control header is a       *)
(* function from its directives to seconds (0 where there is no value).     *)

origin_response_uncacheable(control) ==
  DOMAIN control \cap {"no-store", "private", "no-cache"} # {}

WithDirective(control, d, seconds) ==
  [x \in DOMAIN control \cup {d} |-> IF x = d THEN seconds ELSE control[x]]
ensure_max_age(control, s) ==
  LET own == IF s.control = "false" THEN Without(control, {"max-age", "s-maxage"}) ELSE control
      aged == CASE s.respect /\ "s-maxage" \in DOMAIN own -> WithDirective(own, "max-age", own["s-maxage"])
                [] ~(s.respect /\ "s-maxage" \in DOMAIN own) /\ "max-age" \in DOMAIN own -> own
                [] OTHER -> WithDirective(own, "max-age", s.ttl)
  IN IF s.swr > 0 /\ "swr" \notin DOMAIN aged THEN WithDirective(aged, "swr", s.swr) ELSE aged

\* pingora: a request with credentials needs the origin's consent, and s-maxage is
\* preferred to max-age.
allow_caching_authorized_req(control) ==
  DOMAIN control \cap {"public", "must-revalidate", "s-maxage"} # {}
fresh_sec(control) == IF "s-maxage" \in DOMAIN control THEN control["s-maxage"] ELSE control["max-age"]
swr_sec(control) == IF "swr" \in DOMAIN control THEN control["swr"] ELSE 0

response_cacheability(response, ctx) ==
  /\ ctx.settings # <<>> /\ ctx.settings[1] \notin ctx.noCache
  /\ LET s == ctx.settings[1]
         control == ensure_max_age(response.control, s)
     IN /\ ~should_bypass_authenticated_request(s, ctx)
        /\ response.status \in s.statuses
        /\ response.setCookie => s.setCookie
        /\ ~response.varyStar
        /\ ~origin_response_uncacheable(response.control)
        /\ (ctx.originalHad \/ ctx.has) => allow_caching_authorized_req(control)
        /\ s.maxObject > 0 => response.size <= s.maxObject
        /\ fresh_sec(control) > 0 \/ swr_sec(control) > 0

--------------------------------------------------------------------------------
(* Requests.                                                                *)

Idle == [stage |-> "idle"]

\* The plugins of a layer in the order of their priorities (2520, 2510, 2500, 1085).
Priority == "basic-auth" :> 2520 @@ "jwt-auth" :> 2510 @@ "key-auth" :> 2500 @@ "proxy-cache" :> 1085
InOrder(plugins) == SetToSortSeq(plugins, LAMBDA a, b : Priority[a.plugin] > Priority[b.plugin])

Filter(p, r) ==
  CASE r.verdict # "continue" -> r
    [] r.verdict = "continue" /\ p.plugin = "basic-auth" -> basic_request_filter(p, r.req, r.ctx)
    [] r.verdict = "continue" /\ p.plugin = "jwt-auth" -> jwt_request_filter(p, r.req, r.ctx, now)
    [] r.verdict = "continue" /\ p.plugin = "key-auth" -> key_request_filter(p, r.req, r.ctx)
    [] r.verdict = "continue" /\ p.plugin = "proxy-cache" -> cache_request_filter(p, r.req, r.ctx)
\* A plugin of the route replaces the one of the same name in its service.
MergedPlugins(route) ==
  route.plugins \cup {p \in route.service : \A q \in route.plugins : q.plugin # p.plugin}
Filtered(place, req, ctx) ==
  FoldLeft(LAMBDA r, p : Filter(p, r), Continue(req, ctx),
           InOrder(place.global) \o InOrder(MergedPlugins(place.route)))

CacheInit ==
  /\ sites \in SiteHistories /\ site = 1
  /\ now = 0 /\ stored = <<>>
  /\ visit = [c \in Clients |-> Idle]

PublishSite ==
  /\ site < Len(sites)
  /\ site' = site + 1
  /\ UNCHANGED <<sites, now, stored, visit>>

SecondPasses ==
  /\ now < MaxNow
  /\ now' = now + 1
  /\ UNCHANGED <<sites, site, stored, visit>>

\* early_request_filter and request_filter: the snapshot is the request's from here
\* on.  The filters touch nothing but the request, so they are one step.
Arrive(c) ==
  /\ visit[c].stage = "idle"
  /\ \E req \in CacheRequests[sites] :
       LET place == sites[site]
           r == Filtered(place, req, CaptureCredentials(req))
       IN visit' = [visit EXCEPT ![c] =
            [stage |-> IF r.verdict = "continue" THEN "lookup" ELSE "rejected",
             place |-> place, original |-> req, req |-> r.req, ctx |-> r.ctx]]
  /\ UNCHANGED <<sites, site, now, stored>>

\* A slot is [key, variance]; variance <<>> is the primary one.
Slot(key, variance) == [key |-> key, variance |-> variance]
Done(v, status, served) ==
  [stage |-> "done", place |-> v.place, original |-> v.original, ctx |-> v.ctx, at |-> now,
   status |-> status, served |-> served, clears |-> jwt_response_filter(v.ctx)]

\* pingora looks the primary slot up, and the slot of the request's variance when
\* the entry found there has another one.
SlotFor(key, v) ==
  LET primary == Slot(key, <<>>)
      variance == cache_vary(stored[primary].response, v.ctx, v.req)
  IN IF primary \notin DOMAIN stored \/ variance = stored[primary].variance THEN primary
     ELSE Slot(key, variance)
Freshness(entry) ==
  IF now < entry.at + entry.fresh THEN "HIT"
  ELSE IF now < entry.at + entry.fresh + entry.swr THEN "STALE" ELSE "EXPIRED"
Servable(slot) == IF slot \in DOMAIN stored THEN Freshness(stored[slot]) # "EXPIRED" ELSE FALSE

\* request_cache_filter, cache_key_callback and the lookup.
Lookup(c) ==
  /\ visit[c].stage = "lookup"
  /\ LET v == visit[c]
         cached == should_enable_request_cache(v.req, v.ctx.settings, v.ctx)
         key == cache_key(v.place, v.req, v.ctx)
         slot == SlotFor(key, v)
         Fetching(status, store) ==
           [v EXCEPT !.stage = "fetch"] @@ [status |-> status, slot |-> store]
     IN \/ /\ ~cached
           /\ visit' = [visit EXCEPT ![c] = Fetching("BYPASS", <<>>)]
           /\ UNCHANGED stored
        \/ /\ cached /\ v.req.method = "PURGE" /\ should_enable_purge(v.ctx.settings)
           /\ stored' = Without(stored, {Slot(key, <<>>)})
           /\ visit' = [visit EXCEPT ![c] = Done(v, "PURGED", <<>>)]
        \/ /\ cached /\ v.req.method # "PURGE" /\ UNCHANGED stored
           /\ \/ /\ Servable(slot)
                 /\ visit' = [visit EXCEPT ![c] =
                                Done(v, Freshness(stored[slot]), <<stored[slot]>>)]
              \/ /\ ~Servable(slot)
                 /\ visit' = [visit EXCEPT ![c] = Fetching("MISS", <<slot>>)]
  /\ UNCHANGED <<sites, site, now>>

\* The upstream answers; response_cache_filter decides whether the answer is kept,
\* under the slot that was looked up unless its variance turned out to be another.
CacheEntry(v, response) ==
  LET control == ensure_max_age(response.control, v.ctx.settings[1])
  IN [response |-> response, variance |-> cache_vary(response, v.ctx, v.req), at |-> now,
      fresh |-> fresh_sec(control), swr |-> swr_sec(control),
      \* what it was made for
      place |-> v.place, original |-> v.original, ctx |-> v.ctx]
Fetched(c) ==
  /\ visit[c].stage = "fetch"
  /\ \E response \in Responses :
       LET v == visit[c]
           entry == CacheEntry(v, response)
           slot == v.slot[1]
           at == IF slot.variance = <<>> \/ slot.variance = entry.variance THEN slot
                 ELSE Slot(slot.key, <<>>)
       IN /\ stored' = IF v.slot # <<>> /\ response_cacheability(response, v.ctx)
                       THEN [x \in DOMAIN stored \cup {at} |-> IF x = at THEN entry ELSE stored[x]]
                       ELSE stored
          /\ visit' = [visit EXCEPT ![c] = Done(v, v.status, <<>>)]
  /\ UNCHANGED <<sites, site, now>>

CacheNext ==
  \/ PublishSite \/ SecondPasses
  \/ \E c \in Clients : Arrive(c) \/ Lookup(c) \/ Fetched(c)

CacheSpec == CacheInit /\ [][CacheNext]_cacheVars

--------------------------------------------------------------------------------
(* Properties.                                                              *)

\* Who a request is: the credentials it came with, and those a plugin verified.
Identity(v) == <<credential_cache_key_component(v.original), v.ctx.noted>>
Anonymous(v) == ~headers_indicate_shared_cache_credentials(v.original) /\ v.ctx.noted = <<>>

\* A response served from the cache was made for this request: under the same route
\* and service plugins, policy and upstream, over http or https as it was, for the
\* same host unless the configured key leaves that out, for the same values of the
\* headers it varies on, and for the same consumer, unless the policy shares
\* authenticated responses on purpose; no instance that filled or reads it was asked
\* to keep it out; and it is still fresh, or within the stale-while-revalidate time it
\* came with (cache_key, cache_vary, no_cache_flag_key, ensure_max_age).
CacheHitsBelong ==
  \A c \in Clients : (visit[c].stage = "done" /\ visit[c].served # <<>>) =>
    LET v == visit[c]
        e == v.served[1]
        s == v.ctx.settings[1]
    IN /\ e.place.route.plugins = v.place.route.plugins
       /\ e.place.route.service = v.place.route.service
       /\ e.place.upstream = v.place.upstream
       /\ (Anonymous(v) /\ Anonymous(e)) \/ s.authenticated
       /\ (s.isolation /\ ~cache_key_has_identity(s)) => Identity(v) = Identity(e)
       /\ \A h \in e.response.vary \cup s.vary :
            get_req_header_value(v.original, h) = get_req_header_value(e.original, h)
       /\ v.original.path = e.original.path /\ v.original.https = e.original.https
       /\ s.key = <<>> => v.original.host = e.original.host
       /\ e.ctx.settings[1] \notin e.ctx.noCache
       /\ v.at < e.at + e.fresh + e.swr
================================================================================
