----------------------------- MODULE SnapshotCompile -----------------------------
(***************************************************************************)
(* From a configuration graph to a runtime snapshot: the gate              *)
(* (control_plane/resources.rs), the reuse plan and the preparation of the *)
(* upstreams it asks for (control_plane/plan.rs), the compilation          *)
(* (control_plane/compile.rs, route.rs, service.rs, traffic_split.rs) and  *)
(* the health checks the published snapshot asks for (runtime.rs).         *)
(*                                                                         *)
(* An Arc is <<attempt, occurrence>>: the attempt that built the object    *)
(* and the place in the graph it was built for.  A compiled object carries *)
(* its Arc, so two objects are the same Arc exactly when they are equal.   *)
(* An optional field is a set of at most one element.                      *)
(***************************************************************************)
EXTENDS Integers, Sequences, FiniteSets

CONSTANTS
  ConfigGraphs,   \* the graphs that may be submitted
  MaxAttempts     \* bound on compilations

VARIABLES
  candidate,      \* [step, graph, plan] of the preparation worker
  attempts,       \* compilations begun
  liveSnapshot,   \* the published RuntimeSnapshot
  liveGraph,      \* the graph it was compiled from
  compileError    \* did a gated, fully prepared candidate fail to compile?

compileVars == <<candidate, attempts, liveSnapshot, liveGraph, compileError>>

Absent == {}
The(option) == CHOOSE x \in option : TRUE
RangeOf(f) == {f[i] : i \in DOMAIN f}

\* The shape of the optional fields of a graph.
Optional(option) == \A x, y \in option : x = y
PluginsTyped(scope) ==
  /\ Optional(scope.split)
  /\ \A rules \in scope.split : \A i \in DOMAIN rules : \A j \in DOMAIN rules[i] :
       Optional(rules[i][j].upstreamId) /\ Optional(rules[i][j].upstream)
BindingTyped(scope) == Optional(scope.upstream) /\ Optional(scope.upstreamId)
GraphTyped(graph) ==
  /\ \A id \in DOMAIN graph.services :
       PluginsTyped(graph.services[id]) /\ BindingTyped(graph.services[id])
  /\ \A id \in DOMAIN graph.globalRules : PluginsTyped(graph.globalRules[id])
  /\ \A id \in DOMAIN graph.routes :
       /\ PluginsTyped(graph.routes[id]) /\ BindingTyped(graph.routes[id])
       /\ Optional(graph.routes[id].serviceId)

ASSUME OptionalFields == \A graph \in ConfigGraphs : GraphTyped(graph)

EmptyGraph ==
  [upstreams |-> <<>>, services |-> <<>>, globalRules |-> <<>>, routes |-> <<>>,
   ssls |-> <<>>]

----------------------------------------------------------------------------------
(* Validation *)

effective_port(scheme, node) ==
  CASE node.port # 0 -> node.port
    [] node.port = 0 /\ scheme \in {"https", "grpcs"} -> 443
    [] OTHER -> 80

effective_addr_key(scheme, node) == <<node.host, effective_port(scheme, node)>>

\* Two enabled nodes of an upstream that dial the same address are refused.
validate_unique_node_addresses(up) ==
  \A i, j \in DOMAIN up.nodes :
    (/\ i # j /\ up.nodes[i].weight > 0 /\ up.nodes[j].weight > 0)
      => effective_addr_key(up.scheme, up.nodes[i]) # effective_addr_key(up.scheme, up.nodes[j])

UpstreamValid(up) ==
  /\ up.nodes # <<>>
  /\ (up.passHost = "rewrite") => (up.upstreamHost # Absent)
  /\ validate_unique_node_addresses(up)

\* Upstream bindings of a scope: one of the two forms at most.
OneForm(scope) == scope.upstream = Absent \/ scope.upstreamId = Absent

\* The inline upstream of a service is not itself validated: the field has no
\* nested validator.
ServiceValid(service) ==
  /\ service.upstreamId # Absent \/ service.upstream # Absent
  /\ OneForm(service)

RouteValid(route) ==
  /\ route.uris # {}
  /\ route.upstreamId # Absent \/ route.serviceId # Absent \/ route.upstream # Absent
  /\ OneForm(route)
  /\ \A up \in route.upstream : UpstreamValid(up)

TargetsOf(rules) == UNION {RangeOf(rules[i]) : i \in DOMAIN rules}

validate_traffic_split_config(rules) ==
  /\ rules # <<>>
  /\ \A i \in DOMAIN rules :
       /\ rules[i] # <<>>
       /\ \E t \in RangeOf(rules[i]) : t.weight > 0
       /\ \A t \in RangeOf(rules[i]) : OneForm(t)

named_upstream_ids(rules) == UNION {t.upstreamId : t \in TargetsOf(rules)}

plugin_upstream_deps(scope) == UNION {named_upstream_ids(rules) : rules \in scope.split}

validate_plugin_upstream_refs(scope, upstreams) ==
  /\ \A rules \in scope.split : validate_traffic_split_config(rules)
  /\ plugin_upstream_deps(scope) \subseteq DOMAIN upstreams

validate_config_set(graph) ==
  /\ \A id \in DOMAIN graph.upstreams : UpstreamValid(graph.upstreams[id])
  /\ \A id \in DOMAIN graph.services :
       LET service == graph.services[id] IN
         /\ ServiceValid(service)
         /\ (service.upstream = Absent) => (service.upstreamId \subseteq DOMAIN graph.upstreams)
         /\ validate_plugin_upstream_refs(service, graph.upstreams)
  /\ \A id \in DOMAIN graph.globalRules :
       validate_plugin_upstream_refs(graph.globalRules[id], graph.upstreams)
  /\ \A id \in DOMAIN graph.routes :
       LET route == graph.routes[id] IN
         /\ RouteValid(route)
         /\ route.serviceId \subseteq DOMAIN graph.services
         /\ (route.upstream = Absent) => (route.upstreamId \subseteq DOMAIN graph.upstreams)
         /\ validate_plugin_upstream_refs(route, graph.upstreams)

----------------------------------------------------------------------------------
(* The plan *)

\* The inline upstreams of a scope's plugins, by occurrence.
inline_upstream_jobs(owner, rules) ==
  LET places == UNION {{<<owner, i, j>> : j \in DOMAIN rules[i]} : i \in DOMAIN rules}
  IN [p \in {q \in places : rules[q[2]][q[3]].upstream # Absent}
        |-> The(rules[p[2]][p[3]].upstream)]

plugin_upstream_jobs(owner, scope) ==
  IF scope.split = Absent THEN <<>> ELSE inline_upstream_jobs(owner, The(scope.split))

\* Mutant of scope_upstream_deps: the upstreams of the plugins are forgotten.
DirectDepsOnly(scope) == scope.upstreamId

scope_upstream_deps(scope) == plugin_upstream_deps(scope) \cup scope.upstreamId

reused_upstreams(graph, previous) ==
  {id \in DOMAIN graph.upstreams \cap DOMAIN previous.upstreams :
     previous.upstreams[id].inner = graph.upstreams[id]}

reused_services(graph, previous) ==
  {id \in DOMAIN graph.services \cap DOMAIN previous.services :
     /\ previous.services[id].inner = graph.services[id]
     /\ scope_upstream_deps(graph.services[id]) \subseteq reused_upstreams(graph, previous)}

reused_global_rules(graph, previous) ==
  {id \in DOMAIN graph.globalRules \cap DOMAIN previous.globalRules :
     /\ previous.globalRules[id].inner = graph.globalRules[id]
     /\ plugin_upstream_deps(graph.globalRules[id]) \subseteq reused_upstreams(graph, previous)}

\* Mutant of reused_routes: any changed service rebuilds every route.
RoutesReusedIfAllServices(graph, previous) ==
  {id \in DOMAIN graph.routes \cap DOMAIN previous.routes :
     /\ DOMAIN graph.services \subseteq reused_services(graph, previous)
     /\ previous.routes[id].inner = graph.routes[id]
     /\ scope_upstream_deps(graph.routes[id]) \subseteq reused_upstreams(graph, previous)}

reused_routes(graph, previous) ==
  {id \in DOMAIN graph.routes \cap DOMAIN previous.routes :
     /\ graph.routes[id].serviceId \subseteq reused_services(graph, previous)
     /\ previous.routes[id].inner = graph.routes[id]
     /\ scope_upstream_deps(graph.routes[id]) \subseteq reused_upstreams(graph, previous)}

reused_ssls(graph, previous) ==
  {id \in DOMAIN graph.ssls \cap DOMAIN previous.ssls :
     previous.ssls[id].inner = graph.ssls[id]}

\* Occurrences are <<owner>> for a named or an inline upstream and
\* <<owner, rule, target>> in a traffic-split, an owner being <<kind, id>>.
Merged(functions) ==
  [x \in UNION {DOMAIN f : f \in functions} |->
     (CHOOSE f \in functions : x \in DOMAIN f)[x]]

InlineJob(owner, scope) ==
  IF scope.upstream = Absent THEN <<>> ELSE [o \in {<<owner>>} |-> The(scope.upstream)]

Jobs(graph, previous) ==
  Merged(
    {[o \in {<<<<"upstream", id>>>>} |-> graph.upstreams[id]] :
        id \in DOMAIN graph.upstreams \ reused_upstreams(graph, previous)}
    \cup (UNION {{InlineJob(<<"service", id>>, graph.services[id]),
                 plugin_upstream_jobs(<<"service", id>>, graph.services[id])} :
                  id \in DOMAIN graph.services \ reused_services(graph, previous)})
    \cup {plugin_upstream_jobs(<<"rule", id>>, graph.globalRules[id]) :
            id \in DOMAIN graph.globalRules \ reused_global_rules(graph, previous)}
    \cup (UNION {{InlineJob(<<"route", id>>, graph.routes[id]),
                 plugin_upstream_jobs(<<"route", id>>, graph.routes[id])} :
                  id \in DOMAIN graph.routes \ reused_routes(graph, previous)}))

CandidatePlan(graph, previous) ==
  [upstreams |-> reused_upstreams(graph, previous),
   services |-> reused_services(graph, previous),
   globalRules |-> reused_global_rules(graph, previous),
   routes |-> reused_routes(graph, previous),
   ssls |-> reused_ssls(graph, previous),
   jobs |-> Jobs(graph, previous)]

----------------------------------------------------------------------------------
(* Compilation.  Missing stands for what a constructor reports as an error: an *)
(* id that is not in the map, an occurrence that was not prepared.             *)

Missing == [arc |-> <<0, <<>>>>, inner |-> <<>>]

ProxyUpstreamBuild(n, occurrence, inner, prepared) ==
  IF occurrence \in prepared THEN [arc |-> <<n, occurrence>>, inner |-> inner] ELSE Missing

Named(upstreams, id) == IF id \in DOMAIN upstreams THEN upstreams[id] ELSE Missing

create_traffic_split_plugin(n, owner, rules, upstreams, prepared) ==
  [i \in DOMAIN rules |->
     [j \in DOMAIN rules[i] |->
        {Named(upstreams, id) : id \in rules[i][j].upstreamId}
        \cup {ProxyUpstreamBuild(n, <<owner, i, j>>, up, prepared) : up \in rules[i][j].upstream}]]

BuildPlugins(n, owner, scope, upstreams, prepared) ==
  {create_traffic_split_plugin(n, owner, rules, upstreams, prepared) : rules \in scope.split}

\* The upstream of a scope: its own, the named one, else the inherited one.
BoundUpstream(n, owner, scope, upstreams, prepared, inherited) ==
  CASE scope.upstream # Absent ->
         {ProxyUpstreamBuild(n, <<owner>>, The(scope.upstream), prepared)}
    [] scope.upstream = Absent /\ scope.upstreamId # Absent ->
         {Named(upstreams, The(scope.upstreamId))}
    [] OTHER -> inherited

ProxyServiceBuild(n, id, service, upstreams, prepared) ==
  [arc |-> <<n, <<"service", id>>>>,
   inner |-> service,
   upstream |-> BoundUpstream(n, <<"service", id>>, service, upstreams, prepared, {}),
   plugins |-> BuildPlugins(n, <<"service", id>>, service, upstreams, prepared)]

ProxyGlobalRuleBuild(n, id, rule, upstreams, prepared) ==
  [arc |-> <<n, <<"rule", id>>>>,
   inner |-> rule,
   plugins |-> BuildPlugins(n, <<"rule", id>>, rule, upstreams, prepared)]

\* A plugin of the route replaces the one of the same name in its service.
ProxyRouteBuild(n, id, route, upstreams, services, prepared) ==
  LET service == {IF sid \in DOMAIN services THEN services[sid] ELSE Missing :
                    sid \in route.serviceId}
      plugins == BuildPlugins(n, <<"route", id>>, route, upstreams, prepared)
      bound == service \ {Missing}
  IN [arc |-> <<n, <<"route", id>>>>,
      inner |-> route,
      resolvedUpstream |->
        BoundUpstream(n, <<"route", id>>, route, upstreams, prepared,
                      UNION {s.upstream : s \in bound}),
      effectiveHosts |->
        IF route.hosts # {} THEN route.hosts ELSE UNION {s.inner.hosts : s \in bound},
      plugins |-> plugins,
      executor |-> IF plugins # {} THEN plugins ELSE UNION {s.plugins : s \in bound},
      missing |-> Missing \in service]

ProxySSLBuild(n, id, ssl) == [arc |-> <<n, <<"ssl", id>>>>, inner |-> ssl]

\* build_prepared: upstreams, then services and global rules, then routes.
build_prepared(n, graph, plan, prepared, previous) ==
  LET Kept(kind, id, built) == IF id \in plan[kind] THEN previous[kind][id] ELSE built
      upstreams ==
        [id \in DOMAIN graph.upstreams |->
           Kept("upstreams", id,
                ProxyUpstreamBuild(n, <<<<"upstream", id>>>>, graph.upstreams[id], prepared))]
      services ==
        [id \in DOMAIN graph.services |->
           Kept("services", id,
                ProxyServiceBuild(n, id, graph.services[id], upstreams, prepared))]
  IN [upstreams |-> upstreams,
      services |-> services,
      globalRules |->
        [id \in DOMAIN graph.globalRules |->
           Kept("globalRules", id,
                ProxyGlobalRuleBuild(n, id, graph.globalRules[id], upstreams, prepared))],
      routes |->
        [id \in DOMAIN graph.routes |->
           Kept("routes", id,
                ProxyRouteBuild(n, id, graph.routes[id], upstreams, services, prepared))],
      ssls |-> [id \in DOMAIN graph.ssls |-> Kept("ssls", id, ProxySSLBuild(n, id, graph.ssls[id]))]]

SplitTargets(plugins) ==
  UNION {UNION {UNION RangeOf(rule) : rule \in RangeOf(rules)} : rules \in plugins}

\* The upstreams a request may be sent to by a snapshot.
UpstreamsInUse(s) ==
  (UNION {s.routes[id].resolvedUpstream \cup SplitTargets(s.routes[id].executor) :
           id \in DOMAIN s.routes})
  \cup (UNION {SplitTargets(s.globalRules[id].plugins) : id \in DOMAIN s.globalRules})

BuildFails(s) ==
  \/ Missing \in RangeOf(s.upstreams) \cup UpstreamsInUse(s)
  \/ \E id \in DOMAIN s.services :
       Missing \in s.services[id].upstream \cup SplitTargets(s.services[id].plugins)
  \/ \E id \in DOMAIN s.routes :
       s.routes[id].missing \/ Missing \in SplitTargets(s.routes[id].plugins)

----------------------------------------------------------------------------------
(* Health checks of a snapshot: key, fingerprint and load balancer *)

\* What changes the probes: scheme, addresses and checks; not weights, hosts, TLS.
health_check_fingerprint(up) ==
  LET addrs == [i \in DOMAIN up.nodes |-> effective_addr_key(up.scheme, up.nodes[i])]
  IN [scheme |-> up.scheme, checks |-> up.checks,
      nodes |-> [a \in RangeOf(addrs) |-> Cardinality({i \in DOMAIN addrs : addrs[i] = a})]]

\* The inline upstreams a scope owns are the ones built at its own occurrences.
OwnedBy(owner, ups) == {up \in ups : up.arc[2] # <<>> /\ up.arc[2][1] = owner}

PluginChecks(owner, plugins) ==
  {[key |-> up.arc[2], fingerprint |-> health_check_fingerprint(up.inner), service |-> up.arc] :
     up \in OwnedBy(owner, SplitTargets(plugins))}

InlineChecks(owner, ups) ==
  {[key |-> <<owner, "inline">>, fingerprint |-> health_check_fingerprint(up.inner), service |-> up.arc] :
     up \in OwnedBy(owner, ups)}

collect_health_checks(s) ==
  {[key |-> <<<<"upstream", id>>>>, fingerprint |-> health_check_fingerprint(s.upstreams[id].inner),
    service |-> s.upstreams[id].arc] : id \in DOMAIN s.upstreams}
  \cup (UNION {InlineChecks(<<"service", id>>, s.services[id].upstream)
                \cup PluginChecks(<<"service", id>>, s.services[id].plugins) :
                  id \in DOMAIN s.services})
  \cup (UNION {InlineChecks(<<"route", id>>, s.routes[id].resolvedUpstream)
                \cup PluginChecks(<<"route", id>>, s.routes[id].plugins) :
                  id \in DOMAIN s.routes})
  \cup (UNION {PluginChecks(<<"rule", id>>, s.globalRules[id].plugins) :
                id \in DOMAIN s.globalRules})

----------------------------------------------------------------------------------
(* The worker *)

Waiting == [step |-> "idle", graph |-> EmptyGraph, plan |-> CandidatePlan(EmptyGraph, EmptyGraph)]

CompileInit ==
  /\ candidate = Waiting
  /\ attempts = 0
  /\ liveSnapshot = EmptyGraph
  /\ liveGraph = EmptyGraph
  /\ compileError = FALSE

\* A gated graph is submitted: the worker plans it against the published
\* snapshot.  One that is still being prepared is superseded and dropped.
Submitted(graph) ==
  /\ attempts < MaxAttempts
  /\ validate_config_set(graph)
  /\ attempts' = attempts + 1
  /\ candidate' = [step |-> "preparing", graph |-> graph, plan |-> CandidatePlan(graph, liveSnapshot)]
  /\ UNCHANGED <<liveSnapshot, liveGraph, compileError>>

\* The lookups of the planned jobs end; one failure drops the candidate and the
\* previous snapshot stays.
PreparationFails ==
  /\ candidate.step = "preparing"
  /\ DOMAIN candidate.plan.jobs # {}
  /\ candidate' = Waiting
  /\ UNCHANGED <<attempts, liveSnapshot, liveGraph, compileError>>

\* All answered: compile from what was prepared, and publish.
CompileAndPublish ==
  LET built == build_prepared(attempts, candidate.graph, candidate.plan,
                              DOMAIN candidate.plan.jobs, liveSnapshot)
      ok == validate_config_set(candidate.graph) /\ ~ BuildFails(built)
  IN /\ candidate.step = "preparing"
     /\ candidate' = Waiting
     /\ liveSnapshot' = IF ok THEN built ELSE liveSnapshot
     /\ liveGraph' = IF ok THEN candidate.graph ELSE liveGraph
     /\ compileError' = (compileError \/ ~ ok)
     /\ UNCHANGED attempts

CompileNext ==
  \/ \E graph \in ConfigGraphs : Submitted(graph)
  \/ PreparationFails
  \/ CompileAndPublish

CompileSpec == CompileInit /\ [][CompileNext]_compileVars

----------------------------------------------------------------------------------
(* Properties *)

BuiltFrom(compiled, configs) ==
  /\ DOMAIN compiled = DOMAIN configs
  /\ \A id \in DOMAIN configs : compiled[id].inner = configs[id]

\* The upstreams that scope's own configuration names are those of the map.
RefersToCurrent(plugins) ==
  \A up \in SplitTargets(plugins) :
    (up.arc[2][1][1] = "upstream") => (up \in RangeOf(liveSnapshot.upstreams))

\* The jobs of the plan are exactly the material the constructors ask for.
AcceptedCompiles == ~ compileError

EveryBalancerChecked ==
  LET checks == collect_health_checks(liveSnapshot)
  IN /\ \A c, d \in checks : (c.key = d.key) => (c = d)
     /\ \A up \in UpstreamsInUse(liveSnapshot) :
          Cardinality({c \in checks : c.service = up.arc}) = 1

\* Reusing compiled objects never leaves a stale one: whatever sequence of graphs
\* led here, each object of the snapshot is built from the configuration published
\* with it, a route is bound to its inline upstream, else to the current named one,
\* else to that of its current service, it runs its own plugins, else those of its
\* current service, under its own hosts or the service's, and traffic-split plugins
\* send requests to the current named upstreams only.
\* A graph the gate accepts compiles as soon as the names of its plan resolve, and
\* every load balancer a request can be sent to has exactly one health check, with
\* no two under one key (the registry would stop one of them).
SnapshotCoherent ==
  /\ AcceptedCompiles
  /\ EveryBalancerChecked
  /\ BuiltFrom(liveSnapshot.upstreams, liveGraph.upstreams)
  /\ BuiltFrom(liveSnapshot.services, liveGraph.services)
  /\ BuiltFrom(liveSnapshot.globalRules, liveGraph.globalRules)
  /\ BuiltFrom(liveSnapshot.routes, liveGraph.routes)
  /\ BuiltFrom(liveSnapshot.ssls, liveGraph.ssls)
  /\ \A id \in DOMAIN liveSnapshot.services :
       /\ RefersToCurrent(liveSnapshot.services[id].plugins)
       /\ liveSnapshot.services[id].inner.upstreamId # Absent =>
            liveSnapshot.services[id].upstream =
              {liveSnapshot.upstreams[The(liveSnapshot.services[id].inner.upstreamId)]}
  /\ \A id \in DOMAIN liveSnapshot.globalRules : RefersToCurrent(liveSnapshot.globalRules[id].plugins)
  /\ \A id \in DOMAIN liveSnapshot.routes :
       LET route == liveSnapshot.routes[id]
           service == {liveSnapshot.services[sid] : sid \in route.inner.serviceId}
       IN /\ RefersToCurrent(route.plugins)
          /\ CASE route.inner.upstream # Absent ->
                    \A up \in route.resolvedUpstream : {up.inner} = route.inner.upstream
               [] route.inner.upstreamId # Absent ->
                    route.resolvedUpstream = {liveSnapshot.upstreams[The(route.inner.upstreamId)]}
               [] OTHER -> route.resolvedUpstream = UNION {s.upstream : s \in service}
          /\ (route.inner.split = Absent) => (route.executor = UNION {s.plugins : s \in service})
          /\ (route.inner.hosts = {}) => (route.effectiveHosts = UNION {s.inner.hosts : s \in service})

\* Everything a scope of the graph depends on, down to the upstreams.
NamedIn(graph, ids) == [id \in ids |-> graph.upstreams[id]]
ServiceClosure(graph, service) == <<service, NamedIn(graph, scope_upstream_deps(service))>>
RouteClosure(graph, route) ==
  <<route, NamedIn(graph, scope_upstream_deps(route)),
    {ServiceClosure(graph, graph.services[sid]) : sid \in route.serviceId}>>

\* A publication replaces nothing it does not have to: a route or a service whose
\* own configuration, service and named upstreams are unchanged keeps its compiled
\* object, and with it its load balancers, so a failing lookup of its names cannot
\* reject an unrelated change.
UntouchedKept ==
  [][liveSnapshot' # liveSnapshot =>
       /\ \A id \in DOMAIN liveGraph.routes \cap DOMAIN liveGraph'.routes :
            (RouteClosure(liveGraph, liveGraph.routes[id])
               = RouteClosure(liveGraph', liveGraph'.routes[id]))
              => (liveSnapshot'.routes[id] = liveSnapshot.routes[id])
       /\ \A id \in DOMAIN liveGraph.services \cap DOMAIN liveGraph'.services :
            (ServiceClosure(liveGraph, liveGraph.services[id])
               = ServiceClosure(liveGraph', liveGraph'.services[id]))
              => (liveSnapshot'.services[id] = liveSnapshot.services[id])]_compileVars
================================================================================
