-------------------------------- MODULE MCTraffic --------------------------------
(***************************************************************************)
(* The request path for TLC: the stateful traffic plugins, an upstream and *)
(* the log.  They share the bounded map and the clock but no state: a      *)
(* behaviour runs one of Parts, the others stay as they are.  An upstream  *)
(* comes in three parts: refreshes of two DNS nodes alone, one request     *)
(* among refreshes, and two requests on two literal nodes.                 *)
(***************************************************************************)
EXTENDS LimitConn, LimitReq, LimitCount, ApiBreaker, ProxyUpstream, LogWriter

CONSTANTS
  Parts,
  u1, u2, x, y     \* UpClients and Backends

VARIABLE part

vars == <<part, clock, connVars, reqVars, countVars, breakerVars, upstreamVars, logVars>>

\* limit-conn: one slot and one delayed request per key; a request may have to
\* satisfy two limits, so that the second can reject what the first let pass.
OneOfEach(key) == [key |-> key, conn |-> 1, burst |-> 1]
ConnSelections ==
  {<<OneOfEach("a")>>, <<OneOfEach("c")>>, <<OneOfEach("d")>>,
   <<OneOfEach("a"), OneOfEach("b")>>}

CountSelections == {<<"a">>, <<"c">>, <<"a", "b">>}

\* A zero threshold disables its category.
PassiveThresholds == [http |-> 2, tcp |-> 1, timeout |-> 0]

TwoNames == [dns |-> [h1 |-> 1, h2 |-> 0], literal |-> <<>>]
NodesOf ==
  [discovery |-> TwoNames, refreshed |-> TwoNames,
   selection |-> [dns |-> <<>>, literal |-> [b \in {x, y} |-> IF b = x THEN 1 ELSE 0]]]
UpstreamNodes == {NodesOf[p] : p \in DOMAIN NodesOf}

\* The upstream's part in a behaviour, and its bounds there.
UpstreamPart == IF part \in DOMAIN NodesOf THEN part ELSE "selection"
UpstreamBounds ==
  CASE part = "discovery" -> UNCHANGED requestVars
    [] part = "refreshed" -> /\ clock' = 0 /\ refreshes' <= 1
                             /\ proxied'[u2] = ProxiedIdle /\ proxiedCalls' <= 1
    [] part = "selection" -> clock' <= 1 /\ refreshes' = 0 /\ unready' \subseteq {y}

Init ==
  /\ part \in Parts
  /\ clock = 0
  /\ ConnInit /\ ReqInit /\ CountInit /\ BreakerInit /\ UpstreamInit /\ LogInit
  /\ nodes = NodesOf[UpstreamPart]
  /\ part # "logger" => logFile = NoFile /\ files[0].lines = <<>>

Next ==
  /\ UNCHANGED part
  /\ \/ /\ part = "limit-conn"
        /\ ConnNext
        /\ UNCHANGED <<clock, reqVars, countVars, breakerVars, upstreamVars, logVars>>
     \/ /\ part = "limit-req"
        /\ ReqNext \/ (ClockTicks /\ UNCHANGED reqVars)
        /\ UNCHANGED <<connVars, countVars, breakerVars, upstreamVars, logVars>>
     \/ /\ part = "limit-count"
        /\ CountNext \/ CountTicks
        /\ UNCHANGED <<connVars, reqVars, breakerVars, upstreamVars, logVars>>
     \/ /\ part = "api-breaker"
        /\ BreakerNext \/ (ClockTicks /\ UNCHANGED breakerVars)
        /\ UNCHANGED <<connVars, reqVars, countVars, upstreamVars, logVars>>
     \/ /\ part \in DOMAIN NodesOf
        /\ UpstreamNext
        /\ UpstreamBounds
        /\ UNCHANGED <<connVars, reqVars, countVars, breakerVars, logVars>>
     \/ /\ part = "logger"
        /\ LogNext
        /\ UNCHANGED <<clock, connVars, reqVars, countVars, breakerVars, upstreamVars>>

Spec == Init /\ [][Next]_vars
================================================================================
