-------------------------------- MODULE AiProxy --------------------------------
(***************************************************************************)
(* The ai-proxy plugin (plugins/ai_proxy): its configuration, the provider *)
(* endpoint, who owns a request when several scopes configure the plugin,  *)
(* and the transformation of an OpenAI chat request into the provider's.   *)
(*                                                                         *)
(* A JSON value is <<kind, content>>: <<"null">>, <<"bool", b>>,           *)
(* <<"num", n>>, <<"str", s>>, <<"list", sequence>>, <<"obj", function>>.  *)
(* An optional field is a sequence of at most one element.                 *)
(***************************************************************************)
EXTENDS Integers, Sequences, FiniteSets, TLC

IsKind(value, kind) == value[1] = kind
Field(object, name) == IF name \in DOMAIN object[2] THEN <<object[2][name]>> ELSE <<>>
WithField(object, name, value) == <<"obj", (name :> value) @@ object[2]>>
Fields(object, names) == [n \in DOMAIN object[2] \cap names |-> object[2][n]]
Filled(fields) == [n \in {x \in DOMAIN fields : fields[x] # <<"null">>} |-> fields[n]]

--------------------------------------------------------------------------------
(* Providers and configuration.                                             *)

\* A URL is [scheme, host, port, path, query], with "" for no path, 0 for no port.
ProviderEndpoint(host, path) ==
  <<[scheme |-> "https", host |-> host, port |-> 0, path |-> path, query |-> <<>>]>>
provider_spec ==
  [openai |-> [endpoint |-> ProviderEndpoint("api.openai.com", "/v1/chat/completions"),
               chatPath |-> "/v1/chat/completions", tokens |-> "max_completion_tokens"],
   openai_compatible |-> [endpoint |-> <<>>,
               chatPath |-> "/v1/chat/completions", tokens |-> "max_tokens"],
   deepseek |-> [endpoint |-> ProviderEndpoint("api.deepseek.com", "/chat/completions"),
               chatPath |-> "/chat/completions", tokens |-> "max_tokens"],
   anthropic |-> [endpoint |-> ProviderEndpoint("api.anthropic.com", "/v1/messages"),
               chatPath |-> "/v1/messages", tokens |-> "max_tokens"]]

\* The fields a configuration may leave out, times in milliseconds.
AiProxyDefaults ==
  [plugin |-> "ai-proxy", options |-> <<>>, endpoint |-> <<>>, maxTokens |-> <<>>,
   authQuery |-> <<>>, timeout |-> 30000, maxBody |-> 67108864, keepalive |-> TRUE,
   keepaliveTimeout |-> 60000, sslVerify |-> TRUE]

FORBIDDEN_AUTH_HEADERS ==
  {"host", "content-length", "transfer-encoding", "content-type", "connection", "keep-alive",
   "proxy-connection", "te", "trailer", "upgrade", "proxy-authenticate", "proxy-authorization"}

\* The effective endpoint, if there is one.
resolve_endpoint(cfg) ==
  LET raw == IF cfg.endpoint # <<>> THEN cfg.endpoint ELSE provider_spec[cfg.provider].endpoint
      url == raw[1]
  IN IF raw = <<>> THEN <<>>
     ELSE IF url.scheme \notin {"http", "https"} \/ url.host = "" THEN <<>>
     ELSE <<[url EXCEPT
              !.port = IF @ # 0 THEN @ ELSE IF url.scheme = "https" THEN 443 ELSE 80,
              !.path = IF @ \in {"", "/"} THEN provider_spec[cfg.provider].chatPath ELSE @]>>

\* Names and query values are blank when nothing is left of them after a trim.
Blank == {"", " "}
post_validate(cfg) ==
  /\ cfg.authHeader # <<>> \/ cfg.authQuery # <<>>
  /\ \A n \in DOMAIN cfg.authHeader :
       n \notin Blank /\ cfg.authHeader[n] # "" /\ n \notin FORBIDDEN_AUTH_HEADERS
  /\ \A n \in DOMAIN cfg.authQuery : n \notin Blank /\ cfg.authQuery[n] \notin Blank
  /\ \A i \in DOMAIN cfg.options :
       /\ IsKind(cfg.options[i], "obj")
       /\ \A j \in DOMAIN Field(cfg.options[i], "model") :
            IsKind(Field(cfg.options[i], "model")[j], "str")
  /\ resolve_endpoint(cfg) # <<>>
  /\ cfg.timeout \in 1 .. 600000 /\ cfg.maxBody >= 1 /\ cfg.keepaliveTimeout >= 1000
  /\ \A i \in DOMAIN cfg.maxTokens : cfg.maxTokens[i] >= 1

\* Rounded up and clamped to a day.
milliseconds_to_seconds(ms) ==
  LET seconds == (ms + 999) \div 1000
  IN IF seconds < 1 THEN 1 ELSE IF seconds > 86400 THEN 86400 ELSE seconds

build_provider_upstream_config(cfg) ==
  LET endpoint == resolve_endpoint(cfg)[1]
  IN [node |-> <<endpoint.host, endpoint.port>>, scheme |-> endpoint.scheme,
      timeout |-> milliseconds_to_seconds(cfg.timeout), retries |-> 0,
      idle |-> IF cfg.keepalive THEN cfg.keepaliveTimeout ELSE 0]

--------------------------------------------------------------------------------
(* The transformation.                                                      *)

validate_messages_shape(body) ==
  LET messages == Field(body, "messages") IN
  IF messages = <<>> THEN FALSE
  ELSE IF ~IsKind(messages[1], "list") THEN FALSE
  ELSE /\ messages[1][2] # <<>>
       /\ \A i \in DOMAIN messages[1][2] :
            LET m == messages[1][2][i] IN
            IF ~IsKind(m, "obj") THEN FALSE
            ELSE IF Field(m, "role") = <<>> \/ Field(m, "content") = <<>> THEN FALSE
            ELSE /\ IsKind(Field(m, "role")[1], "str") /\ Field(m, "role")[1] # <<"str", "">>
                 /\ IsKind(Field(m, "content")[1], "str")

PositiveNumber(value) == IF IsKind(value, "num") THEN value[2] >= 1 ELSE FALSE

validate_field_types(body) ==
  /\ \A i \in DOMAIN Field(body, "stream") : IsKind(Field(body, "stream")[i], "bool")
  /\ \A n \in {"max_tokens", "max_completion_tokens"} :
       \A i \in DOMAIN Field(body, n) : PositiveNumber(Field(body, n)[i])

\* Objects merge field by field; anything else is replaced by the patch.
RECURSIVE deep_merge(_, _)
deep_merge(target, patch) ==
  IF IsKind(target, "obj") /\ IsKind(patch, "obj")
  THEN <<"obj", [n \in DOMAIN target[2] \cup DOMAIN patch[2] |->
                   IF n \notin DOMAIN patch[2] THEN target[2][n]
                   ELSE IF n \notin DOMAIN target[2] THEN patch[2][n]
                   ELSE deep_merge(target[2][n], patch[2][n])]>>
  ELSE patch

apply_max_tokens(body, tokens, provider) ==
  LET name == provider_spec[provider].tokens
      others == IF name = "max_completion_tokens"
                THEN <<"obj", Fields(body, DOMAIN body[2] \ {"max_tokens"})>> ELSE body
  IN WithField(others, name, <<"num", tokens>>)

\* The contents of the system messages are joined in one field, the other
\* messages keep role and content, and what Anthropic does not know is dropped.
RoleOf(message) == Field(message, "role")[1][2]
ContentOf(message) == Field(message, "content")[1][2]
convert_to_anthropic(body) ==
  LET messages == Field(body, "messages")[1][2]
      System == SelectSeq(messages, LAMBDA m : RoleOf(m) = "system")
      Others == SelectSeq(messages, LAMBDA m : RoleOf(m) # "system")
      tokens == IF Field(body, "max_tokens") # <<>> THEN Field(body, "max_tokens")
                ELSE Field(body, "max_completion_tokens")
  IN (IF System = <<>> THEN <<>>
      ELSE "system" :> <<"joined", [i \in DOMAIN System |-> ContentOf(System[i])]>>)
     @@ ("messages" :> <<"list", [i \in DOMAIN Others |-> <<"obj", Fields(Others[i], {"role", "content"})>>]>>)
     @@ (IF tokens = <<>> THEN <<>> ELSE "max_tokens" :> tokens[1])
     @@ (IF Field(body, "stop") = <<>> THEN <<>>
         ELSE Filled("stop_sequences" :> Field(body, "stop")[1]))
     @@ Filled(Fields(body, {"model", "stream", "temperature", "top_p", "top_k"}))

KnownRoles(body) ==
  \A i \in DOMAIN Field(body, "messages")[1][2] :
    RoleOf(Field(body, "messages")[1][2][i]) \in {"system", "user", "assistant"}

validate_anthropic_requirements(body) ==
  /\ Field(body, "model") # <<>> /\ IsKind(Field(body, "model")[1], "str")
  /\ Field(body, "max_tokens") # <<>> /\ PositiveNumber(Field(body, "max_tokens")[1])
  /\ Field(body, "messages")[1][2] # <<>>

\* The provider's body, or <<>> where the client gets a 400.
transform_request(cfg, client) ==
  LET merged == IF cfg.options = <<>> THEN client ELSE deep_merge(client, cfg.options[1])
      limited == IF cfg.maxTokens = <<>> THEN merged
                 ELSE apply_max_tokens(merged, cfg.maxTokens[1], cfg.provider)
      converted == <<"obj", convert_to_anthropic(limited)>>
  IN IF ~IsKind(client, "obj") THEN <<>>
     ELSE IF ~validate_messages_shape(client) THEN <<>>
     ELSE IF ~validate_messages_shape(limited) \/ ~validate_field_types(limited) THEN <<>>
     ELSE IF cfg.provider # "anthropic" THEN <<limited>>
     ELSE IF ~KnownRoles(limited) THEN <<>>
     ELSE IF validate_anthropic_requirements(converted) THEN <<converted>> ELSE <<>>

IsStreaming(body) == Field(body, "stream") = <<<<"bool", TRUE>>>>

--------------------------------------------------------------------------------
(* The hooks.  ctx.ai is the AiProxyRequestState, <<>> before the claim; an *)
(* instance is known by its token.                                          *)

\* A request is [method, headers, query, framing, body]; a header has a sequence
\* of values and framing says how the body is delimited: "none" (also HTTP/2
\* without a length), "chunked" or "length".
HeaderValues(headers, name) == IF name \in DOMAIN headers THEN headers[name] ELSE <<>>
request_declares_body(req) == req.framing = "chunked" \/ (req.framing = "length" /\ req.body # <<>>)
content_type_error(req) == HeaderValues(req.headers, "content-type") \notin {<<>>, <<"json">>}

owns_request(token, ctx) == ctx.ai # <<>> /\ ctx.ai[1].token = token

\* Mutant: an instance of a global rule does not yield.
FirstClaims(cfg, token, yields, req, ctx) ==
  IF ctx.ai # <<>> THEN [status |-> 0, ctx |-> ctx]
  ELSE IF content_type_error(req) \/ ~request_declares_body(req) THEN [status |-> 400, ctx |-> ctx]
  ELSE [status |-> 0,
        ctx |-> [ctx EXCEPT !.override = token,
                   !.ai = <<[token |-> token, insecure |-> ~cfg.sslVerify,
                             streaming |-> FALSE, body |-> <<>>]>>]]

\* The owner of the request, or a rejection with 400; an instance of a global
\* rule yields to one of the route.
ai_request_filter(cfg, token, yields, req, ctx) ==
  IF ctx.ai # <<>> \/ yields THEN [status |-> 0, ctx |-> ctx]
  ELSE IF content_type_error(req) \/ ~request_declares_body(req) THEN [status |-> 400, ctx |-> ctx]
  ELSE [status |-> 0,
        ctx |-> [ctx EXCEPT !.override = token,
                   !.ai = <<[token |-> token, insecure |-> ~cfg.sslVerify,
                             streaming |-> FALSE, body |-> <<>>]>>]]

\* Credentials win over the endpoint's parameters, those over the client's.
merged_query(existing, endpoint, auth) == auth @@ endpoint @@ existing

ai_upstream_request_filter(cfg, token, ctx, up) ==
  LET endpoint == resolve_endpoint(cfg)[1]
      kept == [h \in DOMAIN up.headers \ {"accept-encoding", "authorization"} |-> up.headers[h]]
      own == ("content-type" :> <<"json">>) @@ kept
      versioned == IF cfg.provider # "anthropic" THEN own
                   ELSE ("anthropic-version" :> <<"2023-06-01">>) @@ own
  IN IF ~owns_request(token, ctx) THEN up
     ELSE [up EXCEPT !.path = endpoint.path, !.framing = "chunked",
                     !.query = merged_query(@, endpoint.query, cfg.authQuery),
                     !.headers = [h \in DOMAIN cfg.authHeader |-> <<cfg.authHeader[h]>>] @@ versioned]

PROVIDER_READ_TIMEOUT_FLOOR_SECS == 600

apply_request_peer_options(token, ctx, peer) ==
  IF ~owns_request(token, ctx) THEN peer
  ELSE [readTimeout |-> IF peer.readTimeout < PROVIDER_READ_TIMEOUT_FLOOR_SECS
                        THEN PROVIDER_READ_TIMEOUT_FLOOR_SECS ELSE peer.readTimeout,
        verify |-> peer.verify /\ ~ctx.ai[1].insecure]
================================================================================
