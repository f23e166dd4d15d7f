------------------------------- MODULE AuthPlugins -------------------------------
(***************************************************************************)
(* The authentication plugins (plugins/basic_auth.rs, jwt_auth.rs,         *)
(* key_auth.rs) as what their request_filter does to a request and to its  *)
(* ProxyContext, and the request accessors they use (utils/request.rs).    *)
(*                                                                         *)
(* A request is [https, host, method, path, query, headers, cookies]: the  *)
(* query is <<>> or <<name, text>>, headers and cookies are functions from *)
(* names, "" is the host of a request without one.  A header's value is    *)
(* [scheme, text]: the scheme is "basic", "bearer" or "" when the value    *)
(* starts with neither.                                                    *)
(***************************************************************************)
EXTENDS Integers, Sequences, FiniteSets, SequencesExt

CONSTANT
  Tokens   \* text -> [key, claims]: the texts that are well-formed tokens

Without(f, names) == [n \in DOMAIN f \ names |-> f[n]]
StandardHeaders == {"authorization", "proxy-authorization"}

--------------------------------------------------------------------------------
(* ProxyContext's credential fields.                                        *)

\* The original credentials are kept as what their digest is computed from; the
\* chain of verified credentials as their sequence; noCache holds the proxy-cache
\* instances whose flag is set.
NewContext ==
  [originalHad |-> FALSE, has |-> FALSE, original |-> <<>>, noted |-> <<>>,
   settings |-> <<>>, noCache |-> {}, clearCookie |-> "", payload |-> ""]

mark_request_has_credentials(ctx) == [ctx EXCEPT !.has = TRUE, !.originalHad = TRUE]
note_request_credential(ctx, text) == [ctx EXCEPT !.noted = Append(@, text)]

headers_indicate_shared_cache_credentials(req) ==
  DOMAIN req.headers \cap StandardHeaders # {} \/ DOMAIN req.cookies # {}

\* What the digest of the standard credential headers tells apart.
credential_cache_key_component(req) ==
  <<[h \in DOMAIN req.headers \cap StandardHeaders |-> req.headers[h]], req.cookies>>

\* The first lines of early_request_filter.
CaptureCredentials(req) ==
  IF headers_indicate_shared_cache_credentials(req)
  THEN [NewContext EXCEPT !.originalHad = TRUE, !.has = TRUE,
                          !.original = credential_cache_key_component(req)]
  ELSE NewContext

--------------------------------------------------------------------------------
(* Request accessors.  A lookup is <<>> or <<the value>>.                   *)

get_req_header_value(req, name) ==
  IF name \in DOMAIN req.headers THEN <<req.headers[name]>> ELSE <<>>
get_query_value(req, name) ==
  IF req.query # <<>> /\ req.query[1] = name THEN <<req.query[2]>> ELSE <<>>
get_cookie_value(req, name) ==
  IF name \in DOMAIN req.cookies THEN <<req.cookies[name]>> ELSE <<>>

remove_header(req, name) == [req EXCEPT !.headers = Without(@, {name})]
remove_query_from_header(req, name) ==
  IF get_query_value(req, name) # <<>> THEN [req EXCEPT !.query = <<>>] ELSE req
remove_cookie_from_header(req, name) == [req EXCEPT !.cookies = Without(@, {name})]

--------------------------------------------------------------------------------
(* A filter's result: the verdict, the request and the context it leaves.   *)

Continue(req, ctx) == [verdict |-> "continue", req |-> req, ctx |-> ctx]
Reject(req, ctx) == [verdict |-> "401", req |-> req, ctx |-> ctx]

\* basic-auth: a value without the "basic " prefix, or that does not decode to the
\* configured user and password, is refused.
validate_credentials(conf, value) == value.scheme = "basic" /\ value.text = conf.user
basic_request_filter(conf, req, ctx) ==
  LET value == get_req_header_value(req, "authorization")
      seen == IF value # <<>> THEN mark_request_has_credentials(ctx) ELSE ctx
  IN IF value = <<>> \/ ~validate_credentials(conf, value[1]) THEN Reject(req, seen)
     ELSE Continue(IF conf.hide THEN remove_header(req, "authorization") ELSE req,
                   note_request_credential(seen, value[1].text))

\* key-auth: the header first, then the query parameter unless it is disabled; a
\* header value is compared whole, so that one with a scheme is no key.
get_valid_keys(conf) == IF conf.keys # {} THEN conf.keys ELSE conf.key
key_config_valid(conf) == get_valid_keys(conf) # {}
is_valid_key(conf, value) == value.scheme = "" /\ value.text \in get_valid_keys(conf)
KeyFound(conf, req) ==
  LET header == get_req_header_value(req, conf.header)
      query == IF conf.query = "" THEN <<>> ELSE get_query_value(req, conf.query)
  IN IF header # <<>> THEN <<[value |-> header[1], source |-> "header"]>>
     ELSE IF query # <<>> THEN <<[value |-> [scheme |-> "", text |-> query[1]], source |-> "query"]>>
     ELSE <<>>
key_request_filter(conf, req, ctx) ==
  LET found == KeyFound(conf, req)
      seen == IF found # <<>> THEN mark_request_has_credentials(ctx) ELSE ctx
      hidden == CASE ~conf.hide -> req
                  [] conf.hide /\ found[1].source = "header" -> remove_header(req, conf.header)
                  [] conf.hide /\ found[1].source = "query" -> remove_query_from_header(req, conf.query)
  IN IF found = <<>> \/ ~is_valid_key(conf, found[1].value) THEN Reject(req, seen)
     ELSE Continue(hidden, note_request_credential(seen, found[1].value.text))

\* jwt-auth: header (a "Bearer " prefix is stripped), then query, then cookie; the
\* carrier is removed as the token is extracted, before it is verified.
extract_token(conf, req, ctx) ==
  LET header == get_req_header_value(req, conf.header)
      query == IF conf.query = "" THEN <<>> ELSE get_query_value(req, conf.query)
      cookie == get_cookie_value(req, conf.cookie)
      Taken(token, without, after) ==
        [token |-> <<token>>, req |-> IF conf.hide THEN without ELSE req,
         ctx |-> IF conf.hide THEN after ELSE ctx]
  IN CASE header # <<>> ->
            Taken(header[1], remove_header(req, conf.header), ctx)
       [] header = <<>> /\ query # <<>> ->
            Taken([scheme |-> "", text |-> query[1]], remove_query_from_header(req, conf.query), ctx)
       [] header = <<>> /\ query = <<>> /\ cookie # <<>> ->
            Taken([scheme |-> "", text |-> cookie[1]], remove_cookie_from_header(req, conf.cookie),
                  [ctx EXCEPT !.clearCookie = conf.cookie])
       [] OTHER -> [token |-> <<>>, req |-> req, ctx |-> ctx]

\* build_validation: exp is always required, and so is what the configuration adds.
build_validation(conf) ==
  [key |-> conf.key, leeway |-> conf.grace, iss |-> conf.iss, aud |-> conf.aud,
   required |-> {"exp"} \cup conf.required \cup conf.verify, nbf |-> "nbf" \in conf.verify]
claims_to_verify_valid(conf) == conf.verify \subseteq {"exp", "nbf"}

\* jsonwebtoken's decode: the signature, the required claims, the times, and issuer
\* and audience; a token with an audience is refused when none is configured.
decode(validation, text, now) ==
  /\ text \in DOMAIN Tokens
  /\ LET token == Tokens[text]
         Has(claim) == claim \in DOMAIN token.claims
     IN /\ token.key = validation.key
        /\ \A claim \in validation.required : Has(claim)
        /\ Has("exp") => now <= token.claims["exp"] + validation.leeway
        /\ (validation.nbf /\ Has("nbf")) => token.claims["nbf"] <= now + validation.leeway
        /\ (validation.iss # <<>> /\ Has("iss")) => token.claims["iss"] = validation.iss[1]
        /\ Has("aud") => (validation.aud # <<>> /\ token.claims["aud"] = validation.aud[1])

jwt_request_filter(conf, req, ctx, now) ==
  LET extracted == extract_token(conf, req, ctx)
      token == extracted.token
      seen == IF token # <<>> THEN mark_request_has_credentials(extracted.ctx) ELSE extracted.ctx
      stored == IF conf.store THEN [seen EXCEPT !.payload = token[1].text] ELSE seen
  IN IF token = <<>> \/ token[1].scheme = "basic" \/ ~decode(build_validation(conf), token[1].text, now)
     THEN Reject(extracted.req, seen)
     ELSE Continue(extracted.req, note_request_credential(stored, token[1].text))

\* jwt-auth's response_filter, on the response as the client gets it.
jwt_response_filter(ctx) == IF ctx.clearCookie = "" THEN {} ELSE {ctx.clearCookie}
================================================================================
