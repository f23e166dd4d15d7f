------------------------------ MODULE BodyFilters ------------------------------
(***************************************************************************)
(* The plugins that read, hold back or replace bodies: client-control,     *)
(* grpc-web, request-validation, ai-proxy and response-rewrite, in the     *)
(* order the pipeline runs them, fed by the proxy one chunk at a time.     *)
(*                                                                         *)
(* A byte is a tuple.  A JSON document of n bytes is Fragments(v, n), a    *)
(* form a sequence of <<"pair", key, value>>.  A body handed to a filter   *)
(* is <<>> (None) or <<bytes>>; None says that the body is over.           *)
(***************************************************************************)
EXTENDS AiProxy, SequencesExt

CONSTANT BodyCases    \* [global, route, req, answer]

VARIABLES
  exchange,           \* the case of this behaviour
  bodyPhase,          \* "request", "upstream", "body", "answer", "reply", "done", "rejected" or "failed"
  bodyStatus,         \* the status the client gets from the gateway, 0 for none
  bodyCtx,            \* the ProxyContext
  upstreamReq,        \* the request sent upstream, with the peer's options
  bodyFed, bodySent,  \* bytes read from the client; the bytes sent upstream
  replyHead,          \* the response head sent to the client
  replyFed, replySent

bodyVars == <<exchange, bodyPhase, bodyStatus, bodyCtx, upstreamReq, bodyFed, bodySent,
              replyHead, replyFed, replySent>>

--------------------------------------------------------------------------------
(* Configurations: the fields a configuration may leave out, and what it    *)
(* must satisfy.                                                            *)

PRIORITY == [p \in {"client-control", "ai-proxy", "request-validation", "response-rewrite", "grpc-web"} |->
               CASE p = "client-control" -> 22000 [] p = "ai-proxy" -> 2900
                 [] p = "request-validation" -> 2800 [] p = "response-rewrite" -> 899
                 [] p = "grpc-web" -> 505]

ClientControlDefaults == [plugin |-> "client-control", max_body_size |-> 0]
GrpcWebDefaults == [plugin |-> "grpc-web", max_req_body_size |-> 67108864, cors_allow_headers |-> "default"]
\* A schema is the set of values it accepts.
RequestValidationDefaults ==
  [plugin |-> "request-validation", header_schema |-> <<>>, body_schema |-> <<>>,
   max_req_body_size |-> 67108864, rejected_code |-> 400]
\* body and filters are <<>> or <<the value>>; a filter is [pattern, replace, global],
\* a header value a sequence of tokens.
ResponseRewriteDefaults ==
  [plugin |-> "response-rewrite", status_code |-> <<>>, add |-> <<>>, set |-> <<>>, remove |-> {},
   vars |-> TRUE, max_resp_body_size |-> 67108864, body |-> <<>>, filters |-> <<>>]

is_framing_header(name) == name \in {"content-length", "transfer-encoding"}
rewrite_config_valid(c) ==
  /\ \A n \in DOMAIN c.add \cup DOMAIN c.set \cup c.remove : ~is_framing_header(n)
  /\ c.body = <<>> \/ c.filters = <<>>
  /\ c.max_resp_body_size >= 1
  /\ \A i \in DOMAIN c.status_code : c.status_code[i] \in 200 .. 598
  /\ c.filters # <<>> =>
       c.filters[1] # <<>> /\ \A i \in DOMAIN c.filters[1] : c.filters[1][i].pattern # <<>>

body_plugin_valid(c) ==
  CASE c.plugin = "client-control" -> c.max_body_size >= 0
    [] c.plugin = "grpc-web" -> c.max_req_body_size >= 1 /\ c.cors_allow_headers # ""
    [] c.plugin = "request-validation" ->
         /\ c.header_schema # <<>> \/ c.body_schema # <<>>
         /\ c.max_req_body_size >= 1 /\ c.rejected_code \in 200 .. 599
    [] c.plugin = "ai-proxy" -> post_validate(c)
    [] c.plugin = "response-rewrite" -> rewrite_config_valid(c)

\* The global rules' plugins run before the route's, each by priority.
ByPriority(layer) == SortSeq(layer, LAMBDA a, b : PRIORITY[a.plugin] > PRIORITY[b.plugin])
Stack(case) == ByPriority(case.global) \o ByPriority(case.route)

--------------------------------------------------------------------------------
(* Request filters: [status, ctx], status 0 to go on.                       *)

Fragments(value, n) == [k \in 1 .. n |-> <<"json", value, k, n>>]
from_slice(bytes) ==
  IF bytes = <<>> THEN <<>>
  ELSE IF bytes[1][1] # "json" THEN <<>>
  ELSE IF bytes = Fragments(bytes[1][2], bytes[1][4]) THEN <<bytes[1][2]>> ELSE <<>>

\* One value stays a string, several become a list in their order.
OneOrMany(values) ==
  IF Len(values) = 1 THEN <<"str", values[1]>>
  ELSE <<"list", [i \in DOMAIN values |-> <<"str", values[i]>>]>>
headers_to_json(headers) == <<"obj", [h \in DOMAIN headers |-> OneOrMany(headers[h])]>>
form_body_to_json(bytes) ==
  <<"obj", [k \in {bytes[i][2] : i \in DOMAIN bytes} |->
              LET mine == SelectSeq(bytes, LAMBDA p : p[2] = k)
              IN OneOrMany([i \in DOMAIN mine |-> mine[i][3]])]>>
decode_body(bytes, ctypes) ==
  IF ctypes # <<>> /\ Head(ctypes) = "form" THEN <<form_body_to_json(bytes)>> ELSE from_slice(bytes)

has_grpc_web_content_type(req) ==
  LET values == HeaderValues(req.headers, "content-type")
  IN values # <<>> /\ Head(values) \in {"grpc-web", "grpc-web-text"}
has_grpc_web_text_content_type(req) ==
  has_grpc_web_content_type(req) /\ Head(HeaderValues(req.headers, "content-type")) = "grpc-web-text"

grpc_web_early_request_filter(i, req, ctx) == [ctx EXCEPT !.grpcWeb[i] = has_grpc_web_content_type(req)]

client_control_request_filter(c, req) ==
  IF c.max_body_size # 0 /\ req.framing = "length" /\ Len(req.body) > c.max_body_size THEN 413 ELSE 0

grpc_web_request_filter(i, req, ctx) ==
  CASE req.method = "OPTIONS" -> 204
    [] req.method \notin {"OPTIONS", "POST"} -> 405
    [] req.method = "POST" -> IF has_grpc_web_text_content_type(req) \/ ~ctx.grpcWeb[i] THEN 400 ELSE 0

request_validation_request_filter(c, req, ctx) ==
  IF \/ \E i \in DOMAIN c.header_schema : headers_to_json(req.headers) \notin c.header_schema[i]
     \/ /\ c.body_schema # <<>> /\ ~ctx.replaced
        /\ Len(HeaderValues(req.headers, "content-type")) > 1 \/ ~request_declares_body(req)
  THEN c.rejected_code ELSE 0

RouteHasAi(case) == \E i \in DOMAIN case.route : case.route[i].plugin = "ai-proxy"
IsGlobal(case, i) == i <= Len(case.global)

request_filter(case, i, ctx) ==
  LET c == Stack(case)[i]
      req == case.req
      Answer(status) == [status |-> status, ctx |-> ctx]
  IN CASE c.plugin = "client-control" -> Answer(client_control_request_filter(c, req))
       [] c.plugin = "grpc-web" -> Answer(grpc_web_request_filter(i, req, ctx))
       [] c.plugin = "request-validation" -> Answer(request_validation_request_filter(c, req, ctx))
       [] c.plugin = "ai-proxy" -> ai_request_filter(c, i, IsGlobal(case, i) /\ RouteHasAi(case), req, ctx)
       [] c.plugin = "response-rewrite" -> Answer(0)

\* Every plugin of the stack in its order, until one answers.
RunRequestFilters(case, start) ==
  FoldLeft(LAMBDA r, i : IF r.status # 0 THEN r ELSE request_filter(case, i, r.ctx),
           [status |-> 0, ctx |-> start], [i \in 1 .. Len(Stack(case)) |-> i])

--------------------------------------------------------------------------------
(* Request body filters: [status, body, ctx].                               *)

Pass(body, ctx) == [status |-> 0, body |-> body, ctx |-> ctx]
Fail(status, ctx) == [status |-> status, body |-> <<>>, ctx |-> ctx]
BytesOf(body) == IF body = <<>> THEN <<>> ELSE body[1]
\* Mutant: a chunk that is held back leaves None.
NoPlaceholder == <<>>

\* Empty but present: the stream stays open and nothing is written.
Placeholder == << <<>> >>

client_control_body_filter(c, body, ctx) ==
  LET next == [ctx EXCEPT !.counted = @ + Len(BytesOf(body))]
  IN IF c.max_body_size = 0 \/ body = <<>> THEN Pass(body, ctx)
     ELSE IF next.counted > c.max_body_size THEN Fail(413, next) ELSE Pass(body, next)

grpc_web_body_filter(c, i, body, ctx) ==
  LET next == [ctx EXCEPT !.grpcBytes[i] = @ + Len(BytesOf(body))]
  IN IF ~ctx.grpcWeb[i] THEN Pass(body, ctx)
     ELSE IF next.grpcBytes[i] > c.max_req_body_size THEN Fail(413, next) ELSE Pass(body, next)

\* Every instance with a body schema uses the one buffer of the context.
request_validation_body_filter(c, req, body, eos, ctx) ==
  LET buffered == ctx.buffer \o BytesOf(body)
      held == [ctx EXCEPT !.buffer = buffered]
      instance == decode_body(buffered, HeaderValues(req.headers, "content-type"))
      released == [ctx EXCEPT !.buffer = <<>>]
  IN IF c.body_schema = <<>> \/ ctx.replaced THEN Pass(body, ctx)
     ELSE IF body # <<>> /\ Len(buffered) > c.max_req_body_size THEN Fail(c.rejected_code, held)
     ELSE IF ~eos THEN Pass(Placeholder, held)
     ELSE IF instance = <<>> THEN Fail(c.rejected_code, released)
     ELSE IF instance[1] \notin c.body_schema[1] THEN Fail(c.rejected_code, released)
     ELSE Pass(IF buffered = <<>> THEN <<>> ELSE <<buffered>>, released)

ai_request_body_filter(c, token, body, eos, ctx) ==
  LET buffered == ctx.ai[1].body \o BytesOf(body)
      held == [ctx EXCEPT !.ai[1].body = buffered]
      released == [ctx EXCEPT !.ai[1].body = <<>>]
      client == from_slice(buffered)
      result == IF client = <<>> THEN <<>> ELSE transform_request(c, client[1])
  IN IF ~owns_request(token, ctx) THEN Pass(body, ctx)
     ELSE IF body # <<>> /\ Len(buffered) > c.maxBody THEN Fail(413, held)
     ELSE IF ~eos THEN Pass(Placeholder, held)
     ELSE IF result = <<>> THEN Fail(400, released)
     ELSE Pass(<<Fragments(result[1], 1)>>,
               [released EXCEPT !.ai[1].streaming = IsStreaming(result[1]), !.replaced = TRUE])

request_body_filter(case, i, body, eos, ctx) ==
  LET c == Stack(case)[i] IN
  CASE c.plugin = "client-control" -> client_control_body_filter(c, body, ctx)
    [] c.plugin = "grpc-web" -> grpc_web_body_filter(c, i, body, ctx)
    [] c.plugin = "request-validation" -> request_validation_body_filter(c, case.req, body, eos, ctx)
    [] c.plugin = "ai-proxy" -> ai_request_body_filter(c, i, body, eos, ctx)
    [] c.plugin = "response-rewrite" -> Pass(body, ctx)

RunBodyFilters(case, body, eos, ctx) ==
  FoldLeft(LAMBDA r, i : IF r.status # 0 THEN r ELSE request_body_filter(case, i, r.body, eos, r.ctx),
           Pass(body, ctx), [i \in 1 .. Len(Stack(case)) |-> i])

--------------------------------------------------------------------------------
(* The response.  A head is [status, headers, encoding, length]: length     *)
(* says whether Content-Length is still there.                              *)

EXPANDED == {"remote_addr", "upstream_addr", "request_id"}
expand_template(tokens, vars) ==
  [k \in DOMAIN tokens |->
     IF tokens[k][1] = "var" /\ tokens[k][2] \in EXPANDED
     THEN <<"text", IF tokens[k][2] \in DOMAIN vars THEN vars[tokens[k][2]] ELSE "">> ELSE tokens[k]]

rewrites_body(c) == c.body # <<>> \/ c.filters # <<>>
is_informational_response(head) == head.status \in 100 .. 199
clear_body_modified_headers(head) ==
  [head EXCEPT !.length = FALSE, !.encoding = "none",
               !.headers = [h \in DOMAIN @ \ {"etag", "last-modified"} |-> @[h]]]

\* The headers are added, then set, then removed.
MutatedHeaders(c, headers, vars) ==
  LET Added(h) == HeaderValues(headers, h) \o
                  (IF h \in DOMAIN c.add THEN <<expand_template(c.add[h], vars)>> ELSE <<>>)
  IN [h \in (DOMAIN headers \cup DOMAIN c.add \cup DOMAIN c.set) \ c.remove |->
        IF h \in DOMAIN c.set THEN <<expand_template(c.set[h], vars)>> ELSE Added(h)]

response_rewrite_response_filter(c, i, req, head, ctx) ==
  LET status == IF c.status_code = <<>> THEN head.status ELSE c.status_code[1]
      skip == head.encoding \notin {"none", "identity"} \/ status \in {204, 304} \/ req.method = "HEAD"
      framed == IF rewrites_body(c) /\ ~skip THEN clear_body_modified_headers(head) ELSE head
  IN IF is_informational_response(head) \/ ~c.vars THEN [head |-> head, ctx |-> ctx]
     ELSE [head |-> [framed EXCEPT !.status = status, !.headers = MutatedHeaders(c, @, req.vars)],
           ctx |-> [ctx EXCEPT !.rewrite[i].matched = TRUE,
                               !.rewrite[i].skip = rewrites_body(c) /\ skip]]

grpc_web_response_filter(c, i, head, ctx) ==
  [head |-> IF ctx.grpcWeb[i]
            THEN [head EXCEPT !.headers =
                    ("access-control-allow-headers" :> <<c.cors_allow_headers>>)
                    @@ ("access-control-expose-headers" :> <<"grpc">>)
                    @@ @ @@ ("access-control-allow-origin" :> <<"*">>)]
            ELSE head,
   ctx |-> ctx]

RunResponseFilters(case, head, ctx) ==
  FoldLeft(LAMBDA r, i :
             LET c == Stack(case)[i] IN
             CASE c.plugin = "response-rewrite" ->
                    response_rewrite_response_filter(c, i, case.req, r.head, r.ctx)
               [] c.plugin = "grpc-web" -> grpc_web_response_filter(c, i, r.head, r.ctx)
               [] OTHER -> r,
           [head |-> head, ctx |-> ctx], [i \in 1 .. Len(Stack(case)) |-> i])

\* Leftmost matches that do not overlap, one or all of them.
RECURSIVE Replaced(_, _)
Replaced(bytes, filter) ==
  LET n == Len(filter.pattern) IN
  IF Len(bytes) < n THEN bytes
  ELSE IF SubSeq(bytes, 1, n) = filter.pattern
       THEN filter.replace \o
            (IF filter.global THEN Replaced(SubSeq(bytes, n + 1, Len(bytes)), filter)
             ELSE SubSeq(bytes, n + 1, Len(bytes)))
       ELSE <<Head(bytes)>> \o Replaced(Tail(bytes), filter)
apply_filters_bytes(c, bytes) == FoldLeft(Replaced, bytes, c.filters[1])

process_filters(c, i, body, eos, ctx) ==
  LET mine == ctx.rewrite[i]
      all == mine.buffer \o BytesOf(body)
      emptied == [ctx EXCEPT !.rewrite[i].buffer = <<>>]
  IN IF mine.tooLarge THEN Pass(body, ctx)
     ELSE IF body # <<>> /\ Len(all) >= c.max_resp_body_size
          THEN Pass(<<apply_filters_bytes(c, SubSeq(all, 1, c.max_resp_body_size))>>,
                    [emptied EXCEPT !.rewrite[i].tooLarge = TRUE])
     ELSE IF eos THEN Pass(<<apply_filters_bytes(c, all)>>, emptied)
     ELSE Pass(Placeholder, [ctx EXCEPT !.rewrite[i].buffer = all])

process_body_chunk(c, i, body, eos, ctx) ==
  IF ~ctx.rewrite[i].matched \/ ~rewrites_body(c) \/ ctx.rewrite[i].skip THEN Pass(body, ctx)
  ELSE IF c.body # <<>> THEN Pass(IF eos THEN c.body ELSE Placeholder, ctx)
  ELSE process_filters(c, i, body, eos, ctx)

response_body_filter(case, i, body, eos, ctx) ==
  IF Stack(case)[i].plugin = "response-rewrite" /\ ~case.answer.upgraded
  THEN process_body_chunk(Stack(case)[i], i, body, eos, ctx) ELSE Pass(body, ctx)

RunResponseBodyFilters(case, body, eos, ctx) ==
  FoldLeft(LAMBDA r, i : response_body_filter(case, i, r.body, eos, r.ctx),
           Pass(body, ctx), [i \in 1 .. Len(Stack(case)) |-> i])

--------------------------------------------------------------------------------
(* The proxy's calls.                                                       *)

StartContext(case) ==
  LET Each(value) == [i \in 1 .. Len(Stack(case)) |-> value] IN
  [counted |-> 0, buffer |-> <<>>, replaced |-> FALSE, ai |-> <<>>, override |-> 0,
   grpcWeb |-> Each(FALSE), grpcBytes |-> Each(0),
   rewrite |-> Each([matched |-> FALSE, skip |-> FALSE, tooLarge |-> FALSE, buffer |-> <<>>])]

BodyInit ==
  /\ exchange \in BodyCases
  /\ bodyPhase = "request" /\ bodyStatus = 0 /\ bodyCtx = StartContext(exchange)
  /\ upstreamReq = <<>> /\ bodyFed = 0 /\ bodySent = <<>>
  /\ replyHead = <<>> /\ replyFed = 0 /\ replySent = <<>>

\* early_request_filter and request_filter of every plugin.
FilterRequest ==
  LET plugins == Stack(exchange)
      early == FoldLeft(LAMBDA ctx, i : IF plugins[i].plugin = "grpc-web"
                                        THEN grpc_web_early_request_filter(i, exchange.req, ctx) ELSE ctx,
                        bodyCtx, [i \in DOMAIN plugins |-> i])
      result == RunRequestFilters(exchange, early)
  IN /\ bodyPhase = "request"
     /\ bodyCtx' = result.ctx
     /\ bodyStatus' = result.status
     /\ bodyPhase' = IF result.status = 0 THEN "upstream" ELSE "rejected"
     /\ UNCHANGED <<exchange, upstreamReq, bodyFed, bodySent, replyHead, replyFed, replySent>>

\* The upstream the override selects, else the route's; then upstream_peer_filter
\* and upstream_request_filter, which only ai-proxy has here.
RouteUpstream == [node |-> <<"route", 80>>, timeout |-> 30]
SendUpstreamHead ==
  LET plugins == Stack(exchange)
      Step(r, i) ==
        IF plugins[i].plugin = "ai-proxy"
        THEN [ai_upstream_request_filter(plugins[i], i, bodyCtx, r) EXCEPT
                !.peer = apply_request_peer_options(i, bodyCtx, @)]
        ELSE r
      req == exchange.req
      selected == IF bodyCtx.override = 0 THEN RouteUpstream
                  ELSE build_provider_upstream_config(plugins[bodyCtx.override])
      start == [node |-> selected.node, path |-> req.path, query |-> req.query, headers |-> req.headers,
                framing |-> req.framing, peer |-> [readTimeout |-> selected.timeout, verify |-> TRUE]]
  IN /\ bodyPhase = "upstream"
     /\ upstreamReq' = <<FoldLeft(Step, start, [i \in DOMAIN plugins |-> i])>>
     /\ bodyPhase' = "body"
     /\ UNCHANGED <<exchange, bodyStatus, bodyCtx, bodyFed, bodySent, replyHead, replyFed, replySent>>

\* The next n bytes of a body; the last ones may come with the end or before it.
NextChunk(bytes, fed, n, eos) ==
  /\ n > 0 \/ eos
  /\ eos => fed + n = Len(bytes)
Chunk(bytes, fed, n) == IF n = 0 THEN <<>> ELSE <<SubSeq(bytes, fed + 1, fed + n)>>

\* A filter that leaves None ends the body, a status aborts the exchange.
FeedRequestBody(n, eos) ==
  LET result == RunBodyFilters(exchange, Chunk(exchange.req.body, bodyFed, n), eos, bodyCtx)
  IN /\ bodyPhase = "body" /\ NextChunk(exchange.req.body, bodyFed, n, eos)
     /\ bodyFed' = bodyFed + n
     /\ bodyCtx' = result.ctx
     /\ bodyStatus' = result.status
     /\ bodySent' = bodySent \o BytesOf(result.body)
     /\ bodyPhase' = IF result.status # 0 THEN "failed"
                     ELSE IF eos \/ result.body = <<>> THEN "answer" ELSE "body"
     /\ UNCHANGED <<exchange, upstreamReq, replyHead, replyFed, replySent>>

\* An informational head may come before the final one.
ReceiveHead(informational) ==
  LET answer == exchange.answer
      head == IF informational THEN [answer.head EXCEPT !.status = 103, !.length = FALSE] ELSE answer.head
      result == RunResponseFilters(exchange, head, bodyCtx)
  IN /\ bodyPhase = "answer"
     /\ informational => replyHead = <<>>
     /\ replyHead' = <<result.head>>
     /\ bodyCtx' = result.ctx
     /\ bodyPhase' = IF informational THEN "answer" ELSE IF answer.body = <<>> THEN "done" ELSE "reply"
     /\ UNCHANGED <<exchange, bodyStatus, upstreamReq, bodyFed, bodySent, replyFed, replySent>>

FeedResponseBody(n, eos) ==
  LET result == RunResponseBodyFilters(exchange, Chunk(exchange.answer.body, replyFed, n), eos, bodyCtx)
  IN /\ bodyPhase = "reply" /\ NextChunk(exchange.answer.body, replyFed, n, eos)
     /\ replyFed' = replyFed + n
     /\ bodyCtx' = result.ctx
     /\ replySent' = replySent \o BytesOf(result.body)
     /\ bodyPhase' = IF eos \/ result.body = <<>> THEN "done" ELSE "reply"
     /\ UNCHANGED <<exchange, bodyStatus, upstreamReq, bodyFed, bodySent, replyHead>>

BodyNext ==
  \/ FilterRequest
  \/ SendUpstreamHead
  \/ \E n \in 0 .. Len(exchange.req.body) - bodyFed, eos \in BOOLEAN : FeedRequestBody(n, eos)
  \/ \E informational \in BOOLEAN : ReceiveHead(informational)
  \/ \E n \in 0 .. Len(exchange.answer.body) - replyFed, eos \in BOOLEAN : FeedResponseBody(n, eos)

--------------------------------------------------------------------------------
(* What the chunks must add up to.                                          *)

\* The body the upstream must get when every plugin sees the whole body at
\* once, <<>> if one of them refuses it.
RECURSIVE WholeRequestBody(_, _, _, _)
WholeRequestBody(i, body, replaced, owner) ==
  LET c == Stack(exchange)[i]
      n == Len(body)
      ctypes == HeaderValues(exchange.req.headers, "content-type")
      client == from_slice(body)
      Next(ok) == IF ok THEN WholeRequestBody(i + 1, body, replaced, owner) ELSE <<>>
  IN IF i > Len(Stack(exchange)) THEN <<body>>
     ELSE CASE c.plugin = "client-control" -> Next(c.max_body_size = 0 \/ n <= c.max_body_size)
            [] c.plugin = "grpc-web" -> Next(n <= c.max_req_body_size)
            [] c.plugin = "request-validation" ->
                 Next(\/ c.body_schema = <<>> \/ replaced
                      \/ /\ n <= c.max_req_body_size /\ decode_body(body, ctypes) # <<>>
                         /\ decode_body(body, ctypes)[1] \in c.body_schema[1])
            [] c.plugin = "ai-proxy" /\ i = owner ->
                 IF n > c.maxBody \/ client = <<>> THEN <<>>
                 ELSE IF transform_request(c, client[1]) = <<>> THEN <<>>
                 ELSE WholeRequestBody(i + 1, Fragments(transform_request(c, client[1])[1], 1), TRUE, owner)
            [] OTHER -> Next(TRUE)

\* The one ai-proxy instance that may handle the request: the route's, or the
\* first of the global rules; 0 for none.
Owner ==
  LET plugins == Stack(exchange)
      Mine == {i \in DOMAIN plugins :
                 plugins[i].plugin = "ai-proxy" /\ (IsGlobal(exchange, i) => ~RouteHasAi(exchange))}
  IN IF Mine = {} THEN 0 ELSE CHOOSE i \in Mine : \A j \in Mine : i <= j

HoldsBack(i) ==
  LET c == Stack(exchange)[i] IN
  i = Owner \/ (c.plugin = "request-validation" /\ c.body_schema # <<>>)

\* The bodies the client may get from an instance fed with this one: rewritten
\* whole below the limit; at the limit the rewritten prefix and what came in
\* later chunks.
Rewritings(c, head, body) ==
  IF ~rewrites_body(c) \/ ~c.vars \/ head.encoding = "gzip" THEN {body}
  ELSE IF c.body # <<>> THEN {c.body[1]}
  ELSE IF Len(body) < c.max_resp_body_size THEN {apply_filters_bytes(c, body)}
  ELSE {apply_filters_bytes(c, SubSeq(body, 1, c.max_resp_body_size)) \o SubSeq(body, k + 1, Len(body)) :
          k \in c.max_resp_body_size .. Len(body)}
WholeResponses ==
  FoldLeft(LAMBDA bodies, c : IF c.plugin = "response-rewrite" /\ ~exchange.answer.upgraded
                              THEN UNION {Rewritings(c, exchange.answer.head, b) : b \in bodies} ELSE bodies,
           {exchange.answer.body}, Stack(exchange))

\* However a body is cut into chunks, the upstream gets exactly the body the
\* plugins make of the whole one, a body is refused only if they refuse the
\* whole one, nothing is sent while a plugin holds it back, and the client gets
\* the rewritten response; a Content-Length that is kept is the length sent.
BodiesWhole ==
  LET whole == WholeRequestBody(1, exchange.req.body, FALSE, Owner) IN
  /\ bodyPhase \in {"answer", "reply", "done"} =>
       /\ whole = <<bodySent>>
       /\ upstreamReq[1].framing = "length" => Len(bodySent) = Len(exchange.req.body)
  /\ bodyPhase = "failed" => whole = <<>>
  /\ bodyPhase = "body" /\ (\E i \in DOMAIN Stack(exchange) : HoldsBack(i)) => bodySent = <<>>
  /\ bodyPhase = "done" /\ exchange.answer.body # <<>> =>
       /\ replySent \in WholeResponses
       /\ replyHead[1].length => Len(replySent) = Len(exchange.answer.body)

\* What reaches a provider is the owner's alone: its endpoint, credentials and
\* peer policy, none of the client's or of another instance's credentials, and
\* a chat request with the token limit the owner forces.
ProviderRequestSound ==
  LET c == Stack(exchange)[Owner]
      up == upstreamReq[1]
      Others == {j \in DOMAIN Stack(exchange) : Stack(exchange)[j].plugin = "ai-proxy" /\ j # Owner}
      doc == from_slice(bodySent)[1]
  IN /\ upstreamReq # <<>> =>
          /\ Owner = 0 => up.node = RouteUpstream.node
          /\ \A j \in Others : \A h \in DOMAIN Stack(exchange)[j].authHeader :
               HeaderValues(up.headers, h) # <<Stack(exchange)[j].authHeader[h]>>
     /\ upstreamReq # <<>> /\ Owner # 0 =>
          /\ up.node = <<resolve_endpoint(c)[1].host, resolve_endpoint(c)[1].port>>
          /\ up.path = resolve_endpoint(c)[1].path /\ up.framing = "chunked"
          /\ \A h \in DOMAIN c.authHeader : up.headers[h] = <<c.authHeader[h]>>
          /\ \A q \in DOMAIN c.authQuery : up.query[q] = c.authQuery[q]
          /\ "authorization" \in DOMAIN up.headers => "authorization" \in DOMAIN c.authHeader
          /\ up.peer = [readTimeout |-> 600, verify |-> c.sslVerify]
     /\ bodyPhase \in {"answer", "reply", "done"} /\ Owner # 0 =>
          /\ validate_messages_shape(doc) /\ bodyCtx.ai[1].streaming = IsStreaming(doc)
          /\ \A k \in DOMAIN c.maxTokens :
               /\ Field(doc, provider_spec[c.provider].tokens) = <<<<"num", c.maxTokens[k]>>>>
               /\ c.provider = "openai" => Field(doc, "max_tokens") = <<>>
          /\ c.provider = "anthropic" => \A m \in Range(Field(doc, "messages")[1][2]) : RoleOf(m) # "system"
================================================================================
