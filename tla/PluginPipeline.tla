----------------------------- MODULE PluginPipeline -----------------------------
(***************************************************************************)
(* One request through the plugin phases: HttpService (service/http.rs)    *)
(* adapts pingora's callbacks to CompiledPluginPipeline                    *)
(* (core/plugin/pipeline.rs), which runs the plugins of the global rules   *)
(* and then those of the route.  Every plugin call may await, so that a    *)
(* new snapshot can be published between any two of them.  A plugin is     *)
(* what it can do to the request: continue, reject it, or fail.  The order *)
(* of the callbacks is pingora's.                                          *)
(***************************************************************************)
EXTENDS Ordering, SequencesExt

CONSTANTS
  Snapshots,       \* the snapshots that may be published, in order
  ConnectRetries,  \* get_retries of the selected upstream
  BodyChunks,      \* how many chunks a body has
  Rejections       \* what a plugin may reject a request with

\* A configuration names a plugin at most once in each rule, route and service.
ASSUME PipelineAssumption ==
  /\ Len(Snapshots) \in Nat \ {0}
  /\ ConnectRetries \in Nat /\ BodyChunks \in Nat
  /\ \A v \in 1..Len(Snapshots) :
       LET s == Snapshots[v]
           Distinct(a, b) == a.name = b.name /\ a.rule = b.rule => a = b
       IN /\ s.routed \in BOOLEAN
          /\ \A layer \in {s.global, s.route, s.service} :
               /\ IsFiniteSet(layer)
               /\ \A a \in layer : a.name \in Int /\ a.priority \in Int /\ a.rule \in Int
               /\ \A a, b \in layer : Distinct(a, b)
          /\ \A a \in s.route : a.of = "route" /\ a.rule = 0
          /\ \A a \in s.service : a.of = "service" /\ a.rule = 0

VARIABLES
  published,   \* index of the snapshot in RuntimeStore
  request      \* the request: its ProxyContext, where it is, what it has done

pipelineVars == <<published, request>>

None == "none"
Failures == {"payload", "status", "upstream", "client_gone", "downstream", "internal"}

--------------------------------------------------------------------------------
(* Building an executor: entries are [name, priority, phases, exit, of];    *)
(* a name is a number, ordered as the strings are.                          *)

BeforeInLayer(a, b) ==
  a.priority > b.priority \/ (a.priority = b.priority /\ a.name < b.name)

sort_plugins_by_priority_desc(entries) == InOrderOf(entries, BeforeInLayer)

\* from_sorted keeps one list of the same order per phase.
InPhase(executor, phase) == Keeping(executor, {e \in Range(executor) : phase \in e.phases})

\* merge_route_and_service_plugins: a route's plugin replaces the service's of the
\* same name, and comes first among equal priorities.
MergedBefore(a, b) ==
  \/ a.priority > b.priority
  \/ a.priority = b.priority /\ a.of = "route" /\ b.of = "service"
  \/ a.priority = b.priority /\ a.of = b.of /\ a.name < b.name
merge_route_and_service_plugins(route, service) ==
  InOrderOf(route \cup {s \in service : \A r \in route : r.name # s.name}, MergedBefore)

\* build_global_plugin_executor: by priority, plugin name, rule id.
GlobalBefore(a, b) ==
  \/ BeforeInLayer(a, b)
  \/ a.priority = b.priority /\ a.name = b.name /\ a.rule < b.rule
build_global_plugin_executor(entries) == InOrderOf(entries, GlobalBefore)

GlobalLayer(s) == build_global_plugin_executor(s.global)
RouteLayer(s) == IF s.routed THEN merge_route_and_service_plugins(s.route, s.service) ELSE <<>>

\* Every phase method of CompiledPluginPipeline: global plugins, then the route's.
PhasePlugins(pipeline, phase) ==
  InPhase(pipeline.global, phase) \o InPhase(pipeline.route, phase)

\* ProxyPluginExecutor::exit_transform takes the first plugin that has rules (an
\* entry's exit is <<>> or <<its rules>>); the route's win over the global ones.
FirstExit(executor) ==
  LET having == SelectSeq(executor, LAMBDA e : e.exit # <<>>)
  IN IF having = <<>> THEN <<>> ELSE having[1].exit
exit_transform(pipeline) ==
  IF FirstExit(pipeline.route) # <<>> THEN FirstExit(pipeline.route) ELSE FirstExit(pipeline.global)

--------------------------------------------------------------------------------
(* The response the gateway makes itself (utils/response.rs).               *)

Framing == {"content-length", "transfer-encoding"}
NoHeaders == <<>>
NewRejection(status, body, ctype, headers, close) ==
  [status |-> status, body |-> body, ctype |-> ctype, headers |-> headers, close |-> close]

\* A header name at most once per writer: a function from names to values.
Extra(headers) == [h \in DOMAIN headers \ (Framing \cup {"content-type"}) |-> headers[h]]
Typed(headers, otherwise) ==
  IF "content-type" \in DOMAIN headers THEN headers["content-type"] ELSE otherwise
Override(old, new) == [h \in DOMAIN old \cup DOMAIN new |-> IF h \in DOMAIN new THEN new[h] ELSE old[h]]

\* substitute_exit_vars, for a template that is a text or repeats the message.
Substituted(template, message) == IF template = "$message" THEN message ELSE template

Matching(transform, status) ==
  IF transform = <<>> THEN <<>> ELSE SelectSeq(transform[1], LAMBDA rule : status \in rule.codes)

resolve_exit_response(transform, r) ==
  LET plain == [status |-> r.status, body |-> r.body,
                ctype |-> Typed(r.headers, r.ctype), headers |-> Extra(r.headers)]
      rules == Matching(transform, r.status)
      rule == rules[1]
      status == IF rule.status = 0 THEN r.status ELSE rule.status
      body == IF rule.body = None THEN r.body ELSE Substituted(rule.body, r.body)
  IN IF rules = <<>> THEN plain
     ELSE [status |-> status, body |-> body,
           ctype |-> Typed(rule.headers, IF rule.body = None THEN plain.ctype ELSE None),
           headers |-> Override(plain.headers, Extra(rule.headers))]

BodyForbidden(status) == status \in 100..199 \cup {204, 304}

\* send_exit_response: what goes on the wire.
Rendered(transform, r) ==
  LET resolved == resolve_exit_response(transform, r)
      forbidden == BodyForbidden(resolved.status)
      body == IF forbidden THEN None ELSE resolved.body
  IN [status |-> resolved.status, body |-> body,
      ctype |-> IF forbidden THEN None ELSE resolved.ctype,
      length |-> IF forbidden THEN None ELSE IF body = None THEN "0" ELSE body,
      headers |-> resolved.headers, close |-> r.close]

\* error_status; 0 means that there is nobody left to answer.
error_status(failure) ==
  [payload |-> 413, status |-> 503, upstream |-> 502, client_gone |-> 0,
   downstream |-> 400, internal |-> 500][failure]

--------------------------------------------------------------------------------
(* The request.                                                             *)

PluginStages ==
  {"early_request", "request", "upstream_peer", "upstream_request", "request_body",
   "response", "response_body", "logging"}

\* ran is a history: for each phase, the calls made in it.
EmptyPipeline == [global |-> <<>>, route |-> <<>>]
NewRequest ==
  [stage |-> "new", todo |-> <<>>, pipeline |-> EmptyPipeline, version |-> 0, routed |-> FALSE,
   tries |-> 0, chunks |-> [request |-> 0, response |-> 0], headerSent |-> FALSE,
   ran |-> [p \in PluginStages |-> <<>>], sent |-> <<>>, error |-> None]

PipelineInit == published = 1 /\ request = NewRequest

\* RuntimeStore swaps its snapshot whatever the request is doing.
PublishSnapshot ==
  /\ published < Len(Snapshots)
  /\ published' = published + 1
  /\ UNCHANGED request

\* Mutant of Entering: a phase asks the store for the current snapshot.
EnteringReloaded(r, stage) ==
  LET s == Snapshots[published]
  IN [r EXCEPT !.stage = stage,
               !.todo = PhasePlugins([global |-> GlobalLayer(s), route |-> RouteLayer(s)], stage)]

\* The pipeline is cloned out of the context for each phase.
Entering(r, stage) == [r EXCEPT !.stage = stage, !.todo = PhasePlugins(r.pipeline, stage)]

\* The route match and the layers are taken from one load of the snapshot.
early_request_filter ==
  /\ request.stage = "new"
  /\ LET s == Snapshots[published]
     IN request' = Entering([request EXCEPT
          !.version = published, !.routed = s.routed,
          !.pipeline = [global |-> GlobalLayer(s), route |-> RouteLayer(s)]], "early_request")
  /\ UNCHANGED published

\* A response header is only sent once; pingora ignores the second.
Answer(r, response) ==
  IF r.headerSent THEN r
  ELSE [r EXCEPT !.sent = Append(@, response), !.headerSent = TRUE]
SendExit(r, rejection) == Answer(r, Rendered(exit_transform(r.pipeline), rejection))
BareStatus(status) == NewRejection(status, None, None, NoHeaders, FALSE)

\* fail_to_proxy, then the logging phase as for every request.
Failing(r, failure) ==
  LET code == error_status(failure)
      answered == IF code > 0 THEN SendExit(r, BareStatus(code)) ELSE r
  IN Entering([answered EXCEPT !.error = failure], "logging")

\* Where pingora goes when a phase has run all its plugins.
AfterPhase(r) ==
  CASE r.stage = "early_request" ->
         IF r.routed THEN Entering(r, "request")
         ELSE Entering(SendExit(r, BareStatus(404)), "logging")
    [] r.stage = "request" -> Entering(r, "upstream_peer")
    [] r.stage = "upstream_peer" -> [r EXCEPT !.stage = "connect"]
    [] r.stage = "upstream_request" -> [r EXCEPT !.stage = "exchange"]
    [] r.stage = "request_body" -> [r EXCEPT !.stage = "exchange"]
    [] r.stage = "response" -> [Answer(r, [status |-> 200, body |-> "upstream", ctype |-> None,
                                  length |-> "upstream", headers |-> NoHeaders, close |-> FALSE])
                                EXCEPT !.stage = "exchange"]
    [] r.stage = "response_body" -> [r EXCEPT !.stage = "exchange"]
    [] r.stage = "logging" -> [r EXCEPT !.stage = "done"]

\* The next plugin of the phase; the phase ends with its last plugin.
Called(r) ==
  LET call == [phase |-> r.stage, name |-> Head(r.todo).name, of |-> Head(r.todo).of,
               version |-> r.version]
  IN [r EXCEPT !.ran = [r.ran EXCEPT ![r.stage] = Append(@, call)], !.todo = Tail(@)]
RunPlugin ==
  /\ request.stage \in PluginStages /\ request.todo # <<>>
  /\ UNCHANGED published
  /\ LET r == Called(request)
     IN \/ request' = r
        \/ /\ request.stage = "request"
           /\ \E rejection \in Rejections :
                request' = Entering(SendExit(r, rejection), "logging")
        \/ /\ request.stage # "logging"
           /\ \E failure \in Failures : request' = Failing(r, failure)

PhaseEnds ==
  /\ request.stage \in PluginStages /\ request.todo = <<>>
  /\ request' = AfterPhase(request)
  /\ UNCHANGED published

\* upstream_peer found no backend: the selection error is internal.
SelectionFails ==
  /\ request.stage = "upstream_peer"
  /\ request.todo = PhasePlugins(request.pipeline, "upstream_peer")
  /\ request' = Failing(request, "internal")
  /\ UNCHANGED published

\* The connection succeeds, or fail_to_connect asks for another try.
Connect ==
  /\ request.stage = "connect"
  /\ \/ request' = Entering(request, "upstream_request")
     \/ request' = IF request.tries < ConnectRetries
                   THEN Entering([request EXCEPT !.tries = @ + 1], "upstream_peer")
                   ELSE Failing(request, "upstream")
  /\ UNCHANGED published

\* Body chunks go both ways; those of the request may still flow when the
\* response has begun.
Exchange ==
  /\ request.stage = "exchange"
  /\ UNCHANGED published
  /\ \/ /\ request.chunks.request < BodyChunks
        /\ request' = Entering([request EXCEPT !.chunks.request = @ + 1], "request_body")
     \/ /\ ~request.headerSent
        /\ request' = Entering(request, "response")
     \/ /\ request.headerSent /\ request.chunks.response < BodyChunks
        /\ request' = Entering([request EXCEPT !.chunks.response = @ + 1], "response_body")
     \/ /\ request.headerSent /\ request.chunks.response = BodyChunks
        /\ request' = Entering(request, "logging")
     \/ \E failure \in {"upstream", "client_gone"} : request' = Failing(request, failure)

PipelineNext ==
  \/ PublishSnapshot \/ early_request_filter \/ RunPlugin \/ PhaseEnds
  \/ SelectionFails \/ Connect \/ Exchange

PipelineSpec == PipelineInit /\ [][PipelineNext]_pipelineVars

--------------------------------------------------------------------------------
(* Properties.                                                              *)

Calls(r, phase) == r.ran[phase]
Expected(r, phase) ==
  LET s == Snapshots[r.version]
      plugins == InPhase(GlobalLayer(s), phase) \o InPhase(RouteLayer(s), phase)
  IN [i \in DOMAIN plugins |-> [phase |-> phase, name |-> plugins[i].name,
                                of |-> plugins[i].of, version |-> r.version]]

PhasesPinned ==
  request.version > 0 =>
    /\ \A p \in {"early_request", "request", "response", "logging"} :
         IsPrefix(Calls(request, p), Expected(request, p))
    /\ \A p \in PluginStages : \A i \in DOMAIN Calls(request, p) :
         \E j \in DOMAIN Expected(request, p) : Calls(request, p)[i] = Expected(request, p)[j]

Finished(r) == r.stage = "done"
AnsweredByGateway(r) == r.sent # <<>> /\ r.sent[1].length # "upstream"
AnsweredAndLogged ==
  /\ Len(request.sent) <= 1
  /\ Finished(request) =>
       /\ request.sent = <<>> => request.error = "client_gone"
       /\ Calls(request, "logging") = Expected(request, "logging")
       /\ AnsweredByGateway(request) /\ request.error = None =>
            \A p \in {"upstream_peer", "upstream_request", "response"} : Calls(request, p) = <<>>

WellFramed ==
  \A i \in DOMAIN request.sent :
    LET s == request.sent[i]
    IN /\ BodyForbidden(s.status) => s.body = None /\ s.length = None /\ s.ctype = None
       /\ ~BodyForbidden(s.status) => s.length = IF s.body = None THEN "0" ELSE s.body
       /\ DOMAIN s.headers \cap (Framing \cup {"content-type"}) = {}

\* What a request has run of a phase is always a beginning of what the snapshot it
\* loaded prescribes, global before route, whatever is published meanwhile, and a
\* retried or repeated phase starts over (early_request_filter pins the snapshot in
\* ctx.pipeline).  A request that is over has answered exactly once, unless its
\* client was gone, and has run its logging phase exactly once, whatever rejected or
\* failed it; one that was rejected has not touched the upstream.  A response of the
\* gateway is framed by the gateway: the length is that of the body, a status
\* without content has neither, and no rule or plugin adds framing headers
\* (send_exit_response, fail_to_proxy and logging).
RequestSettled == PhasesPinned /\ AnsweredAndLogged /\ WellFramed
================================================================================
