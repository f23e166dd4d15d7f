------------------------------ MODULE ProxyUpstream ------------------------------
(***************************************************************************)
(* One upstream as requests use it (proxy/upstream/load_balancer.rs,       *)
(* selection.rs, the upstream callbacks of service/http.rs).  A request    *)
(* walks the candidates one by one, from the highest priority group down,  *)
(* while health checks, refreshes and other requests' outcomes change what *)
(* it asks of them: first for a backend that is ready and not tripped by   *)
(* passive checking, then for a probe of a tripped one, then for any ready *)
(* one, then for any at all.  Its outcome is observed long after.          *)
(***************************************************************************)
EXTENDS UpstreamDiscovery

CONSTANTS
  UpClients,        \* concurrent requests
  Thresholds,       \* unhealthy.{http_failures, tcp_failures, timeouts}; 0 disables
  HealthySuccesses, \* healthy.successes; 0 disables
  ProbeLease,       \* PROBE_LEASE
  Retries,          \* retries
  RetryTimeout,     \* retry_timeout
  MaxProxied        \* bound: requests

Failing == {"http", "tcp", "timeout"}

ASSUME UpstreamAssumption ==
  /\ Thresholds \in [Failing -> Nat]
  /\ {HealthySuccesses, ProbeLease, Retries, RetryTimeout, MaxProxied} \subseteq Nat

VARIABLES
  unready,          \* the backends that active checks found down
  passive,          \* PassiveCounters of each backend
  proxied,          \* the requests
  proxiedCalls,
  steady,           \* history: per selecting request, the backends in service, ready
                    \* and not tripped all the time since it began
  streak            \* history: per backend, the latest kind of counted outcome and how
                    \* often in a row it was observed

requestVars == <<unready, passive, proxied, proxiedCalls>>
upstreamVars == <<discoveryVars, requestVars, steady, streak>>

NoLease == -1
FreshCounters ==
  [failures |-> [f \in Failing |-> 0], successes |-> 0, tripped |-> FALSE, lease |-> NoLease]
ProxiedIdle == [pc |-> "idle"]
Selecting == {"regular", "probe", "ready", "any"}

UpstreamInit ==
  /\ DiscoveryInit
  /\ unready = {}
  /\ passive = [b \in Backends |-> FreshCounters]
  /\ proxied = [r \in UpClients |-> ProxiedIdle]
  /\ proxiedCalls = 0
  /\ steady = [r \in UpClients |-> {}]
  /\ streak = [b \in Backends |-> [kind |-> "none", run |-> 0]]

--------------------------------------------------------------------------------
(* Selection. *)

\* select_with loads the selector; a retry selects again with what it tried so far.
Begins(tries, started) ==
  [pc |-> "regular", todo |-> groups, now |-> 0, tries |-> tries, started |-> started]

\* upstream_peer: select_backend.
ProxiedArrive(r) ==
  /\ proxied[r].pc = "idle"
  /\ proxiedCalls < MaxProxied
  /\ proxiedCalls' = proxiedCalls + 1
  /\ proxied' = [proxied EXCEPT ![r] = Begins(0, clock)]
  /\ UNCHANGED <<discoveryVars, unready, passive, streak, clock>>

\* Mutant of Candidates: the cursor starts at the lowest priority.
CandidatesLowest(todo) ==
  {b \in DOMAIN todo : \A c \in DOMAIN todo : todo[b] <= todo[c]}

\* PriorityGroupedIter::next: members of the highest group not yet seen.  The order
\* in a group is the algorithm's; what its draws miss is enumerated, so every
\* member comes once.
Candidates(todo) ==
  {b \in DOMAIN todo : \A c \in DOMAIN todo : todo[b] >= todo[c]}

\* Mutant of LeaseFree: the lease is only looked at once it has expired.
LeaseFreeAlways(node, now) == TRUE

LeaseFree(node, now) == node.lease = NoLease \/ node.lease <= now

\* The closures of select_with_passive and select_backend.
Eligible(r, b) ==
  CASE proxied[r].pc = "regular" -> b \notin unready /\ ~passive[b].tripped
    [] proxied[r].pc = "probe" ->
         b \notin unready /\ passive[b].tripped /\ LeaseFree(passive[b], proxied[r].now)
    [] proxied[r].pc = "ready" -> b \notin unready
    [] proxied[r].pc = "any" -> TRUE

Unvisited(todo, b) == [c \in DOMAIN todo \ {b} |-> todo[c]]

\* take_probe leaves its lease behind.
Visit(r, b) ==
  /\ proxied[r].pc \in Selecting
  /\ b \in Candidates(proxied[r].todo)
  /\ proxied' = [proxied EXCEPT ![r] =
       IF Eligible(r, b)
       THEN [pc |-> "sent", backend |-> b, probe |-> @.pc = "probe", now |-> @.now,
             freed |-> FALSE, tries |-> @.tries, started |-> @.started]
       ELSE [@ EXCEPT !.todo = Unvisited(proxied[r].todo, b)]]
  /\ passive' = IF proxied[r].pc = "probe" /\ Eligible(r, b)
                THEN [passive EXCEPT ![b].lease = proxied[r].now + ProbeLease]
                ELSE passive
  /\ UNCHANGED <<discoveryVars, unready, proxiedCalls, streak, clock>>

HasTripped == \E b \in Backends : passive[b].tripped

\* The next of select_with_passive's attempts; the last one without a candidate is
\* the error of upstream_peer.
Exhausted(r) ==
  /\ proxied[r].pc \in Selecting
  /\ proxied[r].todo = <<>>
  /\ proxied' = [proxied EXCEPT ![r] =
       CASE @.pc = "regular" /\ HasTripped ->
                [@ EXCEPT !.pc = "probe", !.now = clock, !.todo = groups]
         [] @.pc = "regular" /\ ~HasTripped -> [@ EXCEPT !.pc = "ready", !.todo = groups]
         [] @.pc = "probe" -> [@ EXCEPT !.pc = "ready", !.now = 0, !.todo = groups]
         [] @.pc = "ready" -> [@ EXCEPT !.pc = "any", !.todo = groups]
         [] @.pc = "any" -> [pc |-> "failed"]]
  /\ UNCHANGED <<discoveryVars, unready, passive, proxiedCalls, streak, clock>>

--------------------------------------------------------------------------------
(* Outcomes. *)

\* Mutant of AfterOutcome's failures: other kinds of failure are kept.
OnlyAccumulated(node, kind) == [node.failures EXCEPT ![kind] = @ + 1]

OnlyThisFailure(node, kind) ==
  [f \in Failing |-> IF f = kind THEN node.failures[f] + 1 ELSE 0]

\* PassiveHealthState::observe.  Statuses in neither list only end the probe.
AfterFailing(node, kind) ==
  LET failures == OnlyThisFailure(node, kind) IN
  [failures |-> failures, successes |-> 0, lease |-> NoLease,
   tripped |-> node.tripped \/ (Thresholds[kind] > 0 /\ failures[kind] >= Thresholds[kind])]

AfterHealthyStatus(node) ==
  LET successes == IF node.tripped THEN node.successes + 1 ELSE node.successes
      restored == node.tripped /\ HealthySuccesses > 0 /\ successes >= HealthySuccesses
  IN [failures |-> [f \in Failing |-> 0], lease |-> NoLease,
      successes |-> IF restored THEN 0 ELSE successes,
      tripped |-> node.tripped /\ ~restored]

AfterOutcome(node, outcome) ==
  CASE outcome \in Failing -> AfterFailing(node, outcome)
    [] outcome = "healthy" -> AfterHealthyStatus(node)
    [] outcome = "other" -> [node EXCEPT !.lease = NoLease]

\* observe_passive of the request's backend; an unclassified error is not observed.
\* after is what becomes of the request.
Observes(r, outcome, after) ==
  LET b == proxied[r].backend
      counted == streak[b]
  IN
  /\ passive' = IF outcome = "unclassified" THEN passive
                ELSE [passive EXCEPT ![b] = AfterOutcome(@, outcome)]
  /\ proxied' = [q \in UpClients |->
       IF q = r THEN after
       ELSE IF /\ proxied[q].pc = "sent" /\ proxied[q].probe /\ proxied[q].backend = b
               /\ outcome # "unclassified"
       THEN [proxied[q] EXCEPT !.freed = TRUE]
       ELSE proxied[q]]
  /\ streak' = IF outcome \in {"unclassified", "other"} THEN streak
               ELSE [streak EXCEPT ![b] =
                       [kind |-> outcome,
                        run |-> IF counted.kind = outcome THEN counted.run + 1 ELSE 1]]
  /\ UNCHANGED <<discoveryVars, unready, proxiedCalls, clock>>

\* response_filter.
ResponseFilter(r, outcome) ==
  /\ proxied[r].pc = "sent"
  /\ outcome \in {"http", "healthy", "other"}
  /\ Observes(r, outcome, [pc |-> "body", backend |-> proxied[r].backend])

\* error_while_proxy: before or after the response header.
ErrorWhileProxy(r, outcome) ==
  /\ proxied[r].pc \in {"sent", "body"}
  /\ outcome \in {"tcp", "timeout", "unclassified"}
  /\ Observes(r, outcome, ProxiedIdle)

\* fail_to_connect.
MayRetry(r) ==
  /\ Retries > 0 /\ proxied[r].tries < Retries
  /\ Since(clock, proxied[r].started) <= RetryTimeout

FailToConnect(r, outcome) ==
  /\ proxied[r].pc = "sent"
  /\ outcome \in {"tcp", "timeout", "unclassified"}
  /\ Observes(r, outcome,
       IF MayRetry(r) THEN Begins(proxied[r].tries + 1, proxied[r].started) ELSE ProxiedIdle)

\* The response is complete, the client goes away or a plugin fails: nothing is
\* observed, a lease stays.
ProxiedEnds(r) ==
  /\ proxied[r].pc \in {"sent", "body"}
  /\ proxied' = [proxied EXCEPT ![r] = ProxiedIdle]
  /\ UNCHANGED <<discoveryVars, unready, passive, proxiedCalls, streak, clock>>

\* Pingora's active checks change their mind about a backend.
ActiveCheck(b) ==
  /\ unready' = IF b \in unready THEN unready \ {b} ELSE unready \cup {b}
  /\ UNCHANGED <<discoveryVars, passive, proxied, proxiedCalls, streak, clock>>

\* A backend out of service loses its active health, but not its passive counters.
ForgetsHealth == unready' = unready \cap DOMAIN groups'

--------------------------------------------------------------------------------

Regular == {b \in DOMAIN groups \ unready : ~passive[b].tripped}

KeepSteady ==
  steady' = [r \in UpClients |->
    IF proxied'[r].pc \notin Selecting THEN {}
    ELSE IF proxied[r].pc \notin Selecting THEN Regular'
    ELSE {b \in steady[r] \cap Regular' : groups'[b] = groups[b]}]

UpstreamStep ==
  \/ \E r \in UpClients :
       \/ ProxiedArrive(r)
       \/ \E b \in Backends : Visit(r, b)
       \/ Exhausted(r)
       \/ \E outcome \in Failing \cup {"healthy", "other", "unclassified"} :
            ResponseFilter(r, outcome) \/ ErrorWhileProxy(r, outcome) \/ FailToConnect(r, outcome)
       \/ ProxiedEnds(r)
  \/ \E b \in DOMAIN groups : ActiveCheck(b)
  \/ DiscoveryNext /\ ForgetsHealth /\ UNCHANGED <<passive, proxied, proxiedCalls, streak>>
  \/ ClockTicks /\ UNCHANGED <<discoveryVars, requestVars, streak>>

UpstreamNext == UpstreamStep /\ KeepSteady

UpstreamSpec ==
  UpstreamInit /\ clock = 0 /\ [][UpstreamNext]_<<upstreamVars, clock>>

--------------------------------------------------------------------------------
(* Properties. *)

\* A backend that was in service, ready and not tripped during the whole of a
\* selection is never passed over for one of a lower priority, for a probe or for
\* a fallback, whatever refreshes, checks and outcomes come in between.
PrefersSteady ==
  [][\A r \in UpClients :
       (proxied[r].pc \in Selecting /\ proxied'[r].pc = "sent" /\ steady[r] # {})
       => /\ proxied[r].pc = "regular"
          /\ \A b \in steady[r] : groups[b] <= proxied[r].todo[proxied'[r].backend]]_<<upstreamVars, clock>>

\* Two probes of one backend are under way at the same time only if the lease of
\* one had expired or the outcome of another request on that backend freed it.
ProbesOneAtATime ==
  \A r, q \in UpClients :
    (/\ r # q
     /\ proxied[r].pc = "sent" /\ proxied[q].pc = "sent"
     /\ proxied[r].probe /\ proxied[q].probe
     /\ proxied[r].backend = proxied[q].backend)
    => \/ proxied[r].freed \/ proxied[q].freed
       \/ Since(proxied[r].now, proxied[q].now) >= ProbeLease
       \/ Since(proxied[q].now, proxied[r].now) >= ProbeLease

\* Passive checking takes a backend out only after the configured number of
\* outcomes of one failing kind in a row, and back only after the configured
\* number of healthy ones in a row, in the order in which outcomes of old and new
\* requests arrive ("The three failure categories are counted independently").
RotationEarned ==
  [][\A b \in Backends :
       /\ (~passive[b].tripped /\ passive'[b].tripped)
          => /\ streak'[b].kind \in Failing
             /\ Thresholds[streak'[b].kind] \in 1..streak'[b].run
       /\ (passive[b].tripped /\ ~passive'[b].tripped)
          => streak'[b].kind = "healthy" /\ HealthySuccesses \in 1..streak'[b].run
    ]_<<upstreamVars, clock>>

\* A selection always ends with a backend: no refresh, however it fails, leaves the
\* upstream without one, and the fallbacks reach it.
NeverWithoutBackend == \A r \in UpClients : proxied[r].pc # "failed"
================================================================================
