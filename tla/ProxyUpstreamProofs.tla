--------------------------- MODULE ProxyUpstreamProofs ---------------------------
(***************************************************************************)
(* Proofs about ProxyUpstream and UpstreamDiscovery, for any set of nodes, *)
(* backends and requests, any thresholds, leases and retries, and without  *)
(* a bound that the code does not have: what refreshes leave in service,   *)
(* whom a selection chooses, how many probes a backend gets and when       *)
(* passive checking takes it out and back.                                 *)
(***************************************************************************)
EXTENDS ProxyUpstream, TLAPS

--------------------------------------------------------------------------------
(* Discovery. *)

Answered == [backends : SUBSET Backends, at : Int]
Recorded == [backends : SUBSET Backends, at : Int, to : {"nobody", "preparation", "refresh"}]
Lookups ==
  [pc : {"lookup"}, started : Nat, pending : SUBSET Hosts,
   found : [Hosts -> SUBSET Backends], failed : SUBSET Hosts]

DiscoveryTypes ==
  /\ clock \in Nat
  /\ lkg \in [Hosts -> Answered]
  /\ answered \in [Hosts -> Recorded]
  /\ refresh = NotRefreshing \/ refresh \in Lookups

\* lkg_backends returns what the node's last refresh answered.
LkgIsLastAnswer ==
  \A h \in Hosts :
    /\ lkg[h].at # NoAnswer.at =>
         /\ lkg[h].at \in 0..clock /\ lkg[h].backends # {}
         /\ answered[h] = [backends |-> lkg[h].backends, at |-> lkg[h].at, to |-> "refresh"]
    /\ answered[h].to = "refresh" => lkg[h].at # NoAnswer.at

\* Where a lookup that is over got its result from: the last answer, not too old
\* when the refresh began; or nowhere, the last answer being too old.
LookupsSettled ==
  refresh.pc = "lookup" =>
    /\ refresh.started <= clock
    /\ refresh.pending \cap refresh.failed = {}
    /\ \A h \in Hosts :
         /\ h \in refresh.pending \cup refresh.failed => refresh.found[h] = {}
         /\ h \in refresh.failed =>
              lkg[h].at = NoAnswer.at \/ clock - lkg[h].at > StaleTtl
         /\ h \notin refresh.pending \cup refresh.failed =>
              /\ lkg[h].at # NoAnswer.at
              /\ refresh.found[h] = lkg[h].backends
              /\ lkg[h].at + StaleTtl >= refresh.started

\* The upstream has a node, and backends in service.
InService ==
  /\ DOMAIN groups # {}
  /\ DOMAIN nodes.literal \cup Hosts # {}

DiscoveryInv == DiscoveryTypes /\ LkgIsLastAnswer /\ LookupsSettled /\ InService

\* The result of HybridDiscovery::discover has the literal nodes and whatever a
\* DNS node contributed, and nothing else.
LEMMA CombinedDomain ==
  ASSUME NEW found
  PROVE  DOMAIN Combined(found) = DOMAIN nodes.literal \cup UNION {found[h] : h \in Hosts}
  BY DEF Combined

\* The upstream that prepare_upstreams hands over: each host has its answer or has
\* never answered, and there is a backend.
LEMMA DiscoveryInvInit ==
  ASSUME DiscoveryInit, clock = 0 PROVE DiscoveryInv
<1>1. PICK found \in [Hosts -> SUBSET Backends] :
       /\ groups = Combined(found)
       /\ DOMAIN groups # {}
       /\ answered = [h \in Hosts |-> IF found[h] = {} THEN Never
                       ELSE [backends |-> found[h], at |-> 0, to |-> "preparation"]]
  BY DEF DiscoveryInit
<1>2. DOMAIN groups = DOMAIN nodes.literal \cup UNION {found[h] : h \in Hosts}
  BY <1>1, CombinedDomain
<1>3. InService
  BY <1>1, <1>2 DEF InService
<1>4. DiscoveryTypes
  <2>1. answered \in [Hosts -> Recorded]
    BY <1>1 DEF Recorded, Never
  <2> QED BY <2>1 DEF DiscoveryInit, DiscoveryTypes, NotRefreshing, NoAnswer, Answered
<1>5. LkgIsLastAnswer /\ LookupsSettled
  BY <1>1 DEF DiscoveryInit, LkgIsLastAnswer, LookupsSettled, NoAnswer, NotRefreshing, Never
<1> QED BY <1>3, <1>4, <1>5 DEF DiscoveryInv

AfterAnswer(h, backends) ==
  [pc |-> "lookup", started |-> refresh.started, pending |-> refresh.pending \ {h},
   found |-> [g \in Hosts |-> IF g = h THEN backends ELSE refresh.found[g]],
   failed |-> refresh.failed]

\* DnsDiscovery::discover contributes to its own node only.
LEMMA AnswersRecord ==
  ASSUME refresh \in Lookups, NEW h \in Hosts, NEW backends \in SUBSET Backends,
         Answers(h, backends)
  PROVE  refresh' = AfterAnswer(h, backends) /\ refresh' \in Lookups
<1>1. refresh = [pc |-> "lookup", started |-> refresh.started, pending |-> refresh.pending,
                 found |-> refresh.found, failed |-> refresh.failed]
  BY DEF Lookups
<1>2. refresh.found = [g \in Hosts |-> refresh.found[g]]
  BY DEF Lookups
<1>3. [refresh.found EXCEPT ![h] = backends]
        = [g \in Hosts |-> IF g = h THEN backends ELSE refresh.found[g]]
  BY <1>2
<1>5. refresh' = AfterAnswer(h, backends)
  BY <1>1, <1>3 DEF Answers, AfterAnswer, Lookups
<1> QED BY <1>5 DEF AfterAnswer, Lookups

\* A step of a refresh keeps the discovery's bookkeeping: answers are recorded as
\* they come, a failed lookup only reads the last one.
LEMMA DiscoveryStep ==
  ASSUME DiscoveryInv, DiscoveryNext PROVE DiscoveryInv'
<1> USE DEF DiscoveryInv, DiscoveryTypes, NoAnswer, NotRefreshing
<1>c. nodes' = nodes /\ clock' = clock /\ Hosts' = Hosts
  BY DEF DiscoveryNext, RefreshStarts, LookupAnswers, LookupFails, RefreshEnds,
     RefreshTimesOut, Hosts
<1>t. Lookups' = Lookups
  BY <1>c DEF Lookups
<1>1. CASE RefreshStarts
  <2>1. refresh' \in Lookups
    BY <1>1 DEF RefreshStarts, Lookups
  <2> QED BY <1>1, <1>c, <1>t, <2>1 DEF RefreshStarts, LkgIsLastAnswer, LookupsSettled, InService
<1>2. ASSUME NEW h \in Hosts, NEW backends \in (SUBSET Backends) \ {{}},
             LookupAnswers(h, backends)
      PROVE  DiscoveryInv'
  <2>0. refresh \in Lookups
    BY <1>2 DEF LookupAnswers
  <2>1. refresh' = AfterAnswer(h, backends) /\ refresh' \in Lookups
    BY <1>2, <2>0, AnswersRecord DEF LookupAnswers
  <2>2. DiscoveryTypes' /\ InService'
    BY <1>2, <1>c, <1>t, <2>1 DEF LookupAnswers, Answered, Recorded, InService
  <2>3. LkgIsLastAnswer'
    BY <1>2, <1>c DEF LookupAnswers, LkgIsLastAnswer, Answered, Recorded
  <2>4. LookupsSettled'
    <3>1. lkg'[h] = [backends |-> backends, at |-> clock]
          /\ \A g \in Hosts \ {h} : lkg'[g] = lkg[g]
      BY <1>2 DEF LookupAnswers
    <3> QED BY <1>2, <1>c, <2>0, <2>1, <3>1, DiscoveryAssumption
            DEF LookupAnswers, AfterAnswer, LookupsSettled, Lookups, Answered
  <2> QED BY <2>2, <2>3, <2>4
<1>3. ASSUME NEW h \in Hosts, LookupFails(h) PROVE DiscoveryInv'
  <2>1. refresh \in Lookups
    BY <1>3 DEF LookupFails
  <2>2. lkg' = lkg
    BY <1>3 DEF LookupFails, AfterFailure
  <2>3. refresh' \in Lookups
    <3>0. lkg[h].backends \in SUBSET Backends
      BY DEF Answered
    <3>1. CASE LkgUsable(h)
      <4>1. Answers(h, lkg[h].backends)
        BY <1>3, <3>1 DEF LookupFails
      <4> QED BY <2>1, <3>0, <4>1, AnswersRecord
    <3>2. CASE ~LkgUsable(h)
      <4>1. refresh' = [pc |-> "lookup", started |-> refresh.started,
                        pending |-> refresh.pending \ {h}, found |-> refresh.found,
                        failed |-> refresh.failed \cup {h}]
        BY <1>3, <2>1, <3>2 DEF LookupFails, Lookups
      <4> QED BY <2>1, <4>1 DEF Lookups
    <3> QED BY <3>1, <3>2
  <2>4. DiscoveryTypes' /\ InService' /\ LkgIsLastAnswer'
    BY <1>3, <1>c, <1>t, <2>2, <2>3 DEF LookupFails, InService, LkgIsLastAnswer
  <2>5. LookupsSettled'
    <3>1. CASE LkgUsable(h)
      <4>1. refresh' = AfterAnswer(h, lkg[h].backends)
        BY <1>3, <2>1, <3>1, AnswersRecord DEF LookupFails, Answered
      <4>2. lkg[h].at # NoAnswer.at /\ lkg[h].at + StaleTtl >= clock
        BY <3>1, DiscoveryAssumption DEF LkgUsable, Since, AtLeastZero, Answered
      <4> QED BY <1>3, <1>c, <2>1, <2>2, <4>1, <4>2, DiscoveryAssumption
              DEF LookupFails, AfterAnswer, LookupsSettled, Lookups, Answered
    <3>2. CASE ~LkgUsable(h)
      <4>1. refresh' = [pc |-> "lookup", started |-> refresh.started,
                        pending |-> refresh.pending \ {h}, found |-> refresh.found,
                        failed |-> refresh.failed \cup {h}]
        BY <1>3, <2>1, <3>2 DEF LookupFails, Lookups
      <4>2. lkg[h].at = NoAnswer.at \/ clock - lkg[h].at > StaleTtl
        BY <3>2, DiscoveryAssumption DEF LkgUsable, Since, AtLeastZero, Answered
      <4> QED BY <1>3, <1>c, <2>1, <2>2, <4>1, <4>2
              DEF LookupFails, LookupsSettled, Lookups
    <3> QED BY <3>1, <3>2
  <2> QED BY <2>4, <2>5
<1>4. CASE RefreshEnds
  <2>1. DOMAIN groups' # {}
    <3>1. CASE DiscoveryErr(refresh.found) \/ groups' = groups
      BY <1>4, <3>1 DEF RefreshEnds, InService
    <3>2. CASE ~DiscoveryErr(refresh.found) /\ groups' = Combined(refresh.found)
      <4>1. refresh.failed = {} => \A h \in Hosts : refresh.found[h] # {}
        BY <1>4 DEF RefreshEnds, LookupsSettled, LkgIsLastAnswer, Lookups
      <4>2. DOMAIN groups' = DOMAIN nodes.literal \cup UNION {refresh.found[h] : h \in Hosts}
        BY <3>2, CombinedDomain
      <4>3. CASE refresh.failed = {}
        BY <4>1, <4>2, <4>3 DEF InService
      <4>4. CASE refresh.failed # {}
        BY <3>2, <4>4 DEF DiscoveryErr
      <4> QED BY <4>3, <4>4
    <3> QED BY <1>4, <3>1, <3>2 DEF RefreshEnds, Install
  <2> QED BY <1>4, <1>c, <1>t, <2>1 DEF RefreshEnds, LkgIsLastAnswer, LookupsSettled, InService
<1>5. CASE RefreshTimesOut
  BY <1>5, <1>c, <1>t DEF RefreshTimesOut, LkgIsLastAnswer, LookupsSettled, InService
<1> QED BY <1>1, <1>2, <1>3, <1>4, <1>5 DEF DiscoveryNext

\* Time passes: an answer only gets older.
LEMMA DiscoveryTick ==
  ASSUME DiscoveryInv, ClockTicks, UNCHANGED discoveryVars PROVE DiscoveryInv'
<1> USE DEF DiscoveryInv, DiscoveryTypes, NoAnswer, NotRefreshing, discoveryVars
<1>1. clock' = clock + 1 /\ clock' \in Nat
  BY DEF ClockTicks
<1>2. Hosts' = Hosts /\ Lookups' = Lookups
  BY DEF Hosts, Lookups
<1>3. DiscoveryTypes' /\ InService'
  BY <1>1, <1>2 DEF InService
<1>4. LkgIsLastAnswer'
  BY <1>1, <1>2 DEF LkgIsLastAnswer, Answered
<1>5. LookupsSettled'
  BY <1>1, <1>2, DiscoveryAssumption DEF LookupsSettled, Lookups, Answered
<1> QED BY <1>3, <1>4, <1>5

\* Nothing else touches the discovery.
LEMMA DiscoveryStutters ==
  ASSUME DiscoveryInv, UNCHANGED <<discoveryVars, clock>> PROVE DiscoveryInv'
  BY DEF DiscoveryInv, DiscoveryTypes, LkgIsLastAnswer, LookupsSettled, InService, Hosts, Lookups,
     discoveryVars

\* The steps of a request.
RequestStep(r) ==
  \/ ProxiedArrive(r)
  \/ \E b \in Backends : Visit(r, b)
  \/ Exhausted(r)
  \/ \E outcome \in Failing \cup {"healthy", "other", "unclassified"} :
       ResponseFilter(r, outcome) \/ ErrorWhileProxy(r, outcome) \/ FailToConnect(r, outcome)
  \/ ProxiedEnds(r)

\* A step of an upstream is a step of a refresh, a tick, or leaves both alone.
LEMMA DiscoveryPart ==
  ASSUME [UpstreamNext]_<<upstreamVars, clock>>
  PROVE  \/ DiscoveryNext
         \/ ClockTicks /\ UNCHANGED discoveryVars
         \/ UNCHANGED <<discoveryVars, clock>>
<1>1. CASE UNCHANGED <<upstreamVars, clock>>
  BY <1>1 DEF upstreamVars
<1>2. CASE \E r \in UpClients : RequestStep(r)
  <2>1. \A r, outcome, after :
          Observes(r, outcome, after) => UNCHANGED <<discoveryVars, clock>>
    BY DEF Observes
  <2> QED BY <1>2, <2>1 DEF RequestStep, ProxiedArrive, Visit, Exhausted, ResponseFilter,
          ErrorWhileProxy, FailToConnect, ProxiedEnds
<1>3. CASE \E b \in DOMAIN groups : ActiveCheck(b)
  BY <1>3 DEF ActiveCheck
<1>4. CASE ClockTicks /\ UNCHANGED <<discoveryVars, requestVars, streak>>
  BY <1>4
<1> QED BY <1>1, <1>2, <1>3, <1>4 DEF UpstreamNext, UpstreamStep, RequestStep

\* Lookups, refreshes, requests and time together.
LEMMA DiscoveryInvNext ==
  ASSUME DiscoveryInv, [UpstreamNext]_<<upstreamVars, clock>> PROVE DiscoveryInv'
  BY DiscoveryPart, DiscoveryStep, DiscoveryTick, DiscoveryStutters

\* The upstream always has a backend and its records of the answers agree.
LEMMA DiscoverySafe == UpstreamSpec => []DiscoveryInv
<1>1. UpstreamInit /\ clock = 0 => DiscoveryInv
  BY DiscoveryInvInit DEF UpstreamInit
<1>2. DiscoveryInv /\ [UpstreamNext]_<<upstreamVars, clock>> => DiscoveryInv'
  BY DiscoveryInvNext
<1> QED BY <1>1, <1>2, PTL DEF UpstreamSpec

\* What a refresh installs: every DNS node at its last answer, or not at all.
LEMMA RefreshInstalls ==
  ASSUME DiscoveryInv, DiscoveryNext, Refreshed
  PROVE  /\ \A h \in Hosts :
              (RecentlyGood(h) /\ answered[h].to = "refresh")
              => answered[h].backends \subseteq DOMAIN groups'
         /\ \A b \in DOMAIN groups' \ DOMAIN nodes.literal : \E h \in Hosts :
              b \in answered[h].backends /\ answered[h].at + StaleTtl >= refresh.started
<1> USE DEF DiscoveryInv, DiscoveryTypes, NoAnswer, NotRefreshing
<1>1. RefreshEnds
  BY DEF DiscoveryNext, Refreshed, RefreshStarts, LookupAnswers, LookupFails, RefreshTimesOut
<1>2. groups' = Combined(refresh.found)
  BY <1>1 DEF RefreshEnds, Refreshed, Install
<1>3. DOMAIN groups' = DOMAIN nodes.literal \cup UNION {refresh.found[h] : h \in Hosts}
  BY <1>2, CombinedDomain
<1>4. refresh \in Lookups /\ refresh.pending = {}
  BY <1>1 DEF RefreshEnds
<1>5. \A h \in Hosts : h \notin refresh.failed =>
        /\ refresh.found[h] = answered[h].backends
        /\ answered[h].at + StaleTtl >= refresh.started
  BY <1>4 DEF LookupsSettled, LkgIsLastAnswer, Lookups
<1>6. ASSUME NEW h \in Hosts, RecentlyGood(h), answered[h].to = "refresh"
      PROVE  h \notin refresh.failed
  BY <1>4, <1>6, DiscoveryAssumption
     DEF RecentlyGood, LookupsSettled, LkgIsLastAnswer, Lookups, Since, AtLeastZero, Answered
<1>7. \A h \in Hosts : refresh.found[h] # {} => h \notin refresh.failed
  BY <1>4 DEF LookupsSettled, Lookups
<1> QED BY <1>3, <1>5, <1>6, <1>7

\* Whatever refreshes, failed lookups, timeouts and the passing of time are
\* interleaved, a refresh that changes the backends honours DNS_STALE_TTL in both
\* directions (DnsDiscovery::discover and lkg_backends).
THEOREM LastKnownGoodHonoured == UpstreamSpec => RefreshHonoursLkg
<1>1. DiscoveryInv /\ [UpstreamNext]_<<upstreamVars, clock>> =>
        [Refreshed =>
           /\ \A h \in Hosts :
                (RecentlyGood(h) /\ answered[h].to = "refresh")
                => answered[h].backends \subseteq DOMAIN groups'
           /\ \A b \in DOMAIN groups' \ DOMAIN nodes.literal : \E h \in Hosts :
                b \in answered[h].backends /\ answered[h].at + StaleTtl >= refresh.started
        ]_<<discoveryVars, clock>>
  BY DiscoveryPart, RefreshInstalls DEF Refreshed, discoveryVars
<1> QED BY <1>1, DiscoverySafe, PTL DEF UpstreamSpec, RefreshHonoursLkg

--------------------------------------------------------------------------------
(* Requests. *)

Selector(q) ==
  /\ q = [pc |-> q.pc, todo |-> q.todo, now |-> q.now, tries |-> q.tries, started |-> q.started]
  /\ q.pc \in Selecting /\ q.now \in Nat

Sent(q) ==
  /\ q = [pc |-> "sent", backend |-> q.backend, probe |-> q.probe, now |-> q.now,
          freed |-> q.freed, tries |-> q.tries, started |-> q.started]
  /\ q.backend \in Backends /\ q.now \in Nat
  /\ q.probe \in BOOLEAN /\ q.freed \in BOOLEAN

Answering(q) == q = [pc |-> "body", backend |-> q.backend] /\ q.backend \in Backends

Counters == [failures : [Failing -> Nat], successes : Nat, tripped : BOOLEAN, lease : Int]

\* A selection that has reached the last attempt has a candidate: upstream_peer
\* never gives up.
RequestTypes ==
  /\ DOMAIN proxied = UpClients
  /\ proxied = [r \in UpClients |-> proxied[r]]
  /\ \A r \in UpClients :
       proxied[r] = ProxiedIdle \/ Selector(proxied[r]) \/ Sent(proxied[r]) \/ Answering(proxied[r])
  /\ passive \in [Backends -> Counters]
  /\ \A r \in UpClients : proxied[r].pc = "any" => DOMAIN proxied[r].todo # {}

\* What a counted outcome makes of a backend's counters.
LEMMA OutcomeTypes ==
  ASSUME NEW node \in Counters, NEW outcome \in Failing \cup {"healthy", "other"}
  PROVE  AfterOutcome(node, outcome) \in Counters /\ AfterOutcome(node, outcome).lease = NoLease
<1> USE UpstreamAssumption DEF NoLease
<1>1. CASE outcome \in Failing
  <2>1. AfterOutcome(node, outcome) = AfterFailing(node, outcome)
    BY <1>1 DEF AfterOutcome, Failing
  <2>2. OnlyThisFailure(node, outcome) \in [Failing -> Nat]
    BY DEF OnlyThisFailure, Counters
  <2>3. (node.tripped \/ (Thresholds[outcome] > 0
           /\ OnlyThisFailure(node, outcome)[outcome] >= Thresholds[outcome])) \in BOOLEAN
    OBVIOUS
  <2> QED BY <2>1, <2>2, <2>3 DEF AfterFailing, Counters
<1>2. CASE outcome = "healthy"
  BY <1>2 DEF AfterOutcome, AfterHealthyStatus, Counters, Failing
<1>3. CASE outcome = "other"
  BY <1>3 DEF AfterOutcome, Counters, Failing
<1> QED BY <1>1, <1>2, <1>3

\* Observing an outcome changes the counters of one backend, ends the probes on
\* it, and decides what becomes of the request alone.
Observed(r, outcome, after) ==
  /\ passive' \in [Backends -> Counters]
  /\ DOMAIN proxied' = UpClients
  /\ proxied' = [q \in UpClients |-> proxied'[q]]
  /\ proxied'[r] = after
  /\ outcome = "unclassified" => passive' = passive
  /\ outcome # "unclassified" =>
       /\ passive'[proxied[r].backend] = AfterOutcome(passive[proxied[r].backend], outcome)
       /\ passive'[proxied[r].backend].lease = NoLease
  /\ \A b \in Backends \ {proxied[r].backend} : passive'[b] = passive[b]
  /\ \A q \in UpClients \ {r} :
       \/ /\ proxied'[q] = proxied[q]
          /\ ~(/\ outcome # "unclassified" /\ proxied[q].pc = "sent"
               /\ proxied[q].probe /\ proxied[q].backend = proxied[r].backend)
       \/ /\ outcome # "unclassified" /\ Sent(proxied[q]) /\ proxied[q].probe
          /\ proxied[q].backend = proxied[r].backend
          /\ proxied'[q] = [pc |-> "sent", backend |-> proxied[q].backend,
                            probe |-> proxied[q].probe, now |-> proxied[q].now,
                            freed |-> TRUE, tries |-> proxied[q].tries,
                            started |-> proxied[q].started]

\* PassiveHealthState::observe has that effect.
LEMMA ObservesEffect ==
  ASSUME RequestTypes, NEW r \in UpClients, Sent(proxied[r]) \/ Answering(proxied[r]),
         NEW outcome \in Failing \cup {"healthy", "other", "unclassified"}, NEW after,
         Observes(r, outcome, after)
  PROVE  Observed(r, outcome, after)
<1> DEFINE b == proxied[r].backend
<1>1. b \in Backends
  BY DEF Sent, Answering
<1>2. passive' = IF outcome = "unclassified" THEN passive
                 ELSE [passive EXCEPT ![b] = AfterOutcome(passive[b], outcome)]
  BY DEF Observes
<1>3. outcome # "unclassified" =>
        AfterOutcome(passive[b], outcome) \in Counters /\ AfterOutcome(passive[b], outcome).lease = NoLease
  BY <1>1, OutcomeTypes DEF RequestTypes
<1>4. proxied' = [q \in UpClients |->
       IF q = r THEN after
       ELSE IF /\ proxied[q].pc = "sent" /\ proxied[q].probe /\ proxied[q].backend = b
               /\ outcome # "unclassified"
       THEN [proxied[q] EXCEPT !.freed = TRUE]
       ELSE proxied[q]]
  BY DEF Observes
<1>5. passive \in [Backends -> Counters]
  BY DEF RequestTypes
<1> HIDE DEF b
<1>6. ASSUME NEW q \in UpClients \ {r}
      PROVE  \/ proxied'[q] = proxied[q] /\ ~ (/\ outcome # "unclassified" /\ proxied[q].pc = "sent"
                    /\ proxied[q].probe /\ proxied[q].backend = b)
             \/ /\ outcome # "unclassified" /\ Sent(proxied[q]) /\ proxied[q].probe
                /\ proxied[q].backend = b
                /\ proxied'[q] = [pc |-> "sent", backend |-> proxied[q].backend,
                                  probe |-> proxied[q].probe, now |-> proxied[q].now,
                                  freed |-> TRUE, tries |-> proxied[q].tries,
                                  started |-> proxied[q].started]
  <2>1. CASE /\ proxied[q].pc = "sent" /\ proxied[q].probe /\ proxied[q].backend = b
             /\ outcome # "unclassified"
    <3>1. Sent(proxied[q])
      BY <2>1 DEF RequestTypes, ProxiedIdle, Selector, Selecting, Answering
    <3>2. proxied'[q] = [proxied[q] EXCEPT !.freed = TRUE]
      BY <1>4, <2>1
    <3> QED BY <2>1, <3>1, <3>2 DEF Sent
  <2>2. CASE ~(/\ proxied[q].pc = "sent" /\ proxied[q].probe /\ proxied[q].backend = b
               /\ outcome # "unclassified")
    BY <1>4, <2>2
  <2> QED BY <2>1, <2>2
<1>7. passive' \in [Backends -> Counters] /\ \A c \in Backends \ {b} : passive'[c] = passive[c]
  BY <1>1, <1>2, <1>3, <1>5
<1>8. outcome # "unclassified" => passive'[b] = AfterOutcome(passive[b], outcome)
  BY <1>1, <1>2, <1>5
<1>9. DOMAIN proxied' = UpClients /\ proxied' = [q \in UpClients |-> proxied'[q]] /\ proxied'[r] = after
  BY <1>4
<1> QED BY <1>2, <1>3, <1>6, <1>7, <1>8, <1>9 DEF b, Observed

\* Nobody has asked yet and every backend starts with fresh counters.
LEMMA RequestTypesInit == UpstreamInit => RequestTypes
<1> SUFFICES ASSUME UpstreamInit PROVE RequestTypes
  OBVIOUS
<1>1. FreshCounters \in Counters
  BY DEF FreshCounters, Counters, NoLease
<1> QED BY <1>1 DEF UpstreamInit, RequestTypes, ProxiedIdle

\* A new selection, of a request or of its retry.
LEMMA BeginsSelector ==
  ASSUME NEW tries, NEW started
  PROVE  Selector(Begins(tries, started)) /\ Begins(tries, started).pc = "regular"
  BY DEF Selector, Begins, Selecting

\* The end of an attempt of select_with_passive, and the beginning of the next
\* over all the backends in service, the last one included.
LEMMA ExhaustedEffect ==
  ASSUME RequestTypes, DiscoveryInv, NEW r \in UpClients, Exhausted(r)
  PROVE  /\ Selector(proxied[r])
         /\ proxied' = [proxied EXCEPT ![r] = proxied'[r]]
         /\ Selector(proxied'[r]) /\ proxied'[r].todo = groups
         /\ proxied[r].pc # "any" /\ proxied'[r].pc # "regular"
<1> DEFINE q == proxied[r]
<1>1. Selector(q)
  BY DEF Exhausted, RequestTypes, ProxiedIdle, Sent, Answering, Selecting
<1>2. q.pc # "any"
  BY DEF Exhausted, RequestTypes
<1>3. clock \in Nat
  BY DEF DiscoveryInv, DiscoveryTypes
<1>4. DOMAIN proxied = UpClients /\ proxied = [p \in UpClients |-> proxied[p]]
  BY DEF RequestTypes
<1> DEFINE next ==
       CASE q.pc = "regular" /\ HasTripped ->
                [q EXCEPT !.pc = "probe", !.now = clock, !.todo = groups]
         [] q.pc = "regular" /\ ~HasTripped -> [q EXCEPT !.pc = "ready", !.todo = groups]
         [] q.pc = "probe" -> [q EXCEPT !.pc = "ready", !.now = 0, !.todo = groups]
         [] q.pc = "ready" -> [q EXCEPT !.pc = "any", !.todo = groups]
         [] q.pc = "any" -> [pc |-> "failed"]
<1>5. proxied' = [proxied EXCEPT ![r] = next]
  BY DEF Exhausted
<1> HIDE DEF q, next
<1>6. proxied'[r] = next /\ proxied' = [proxied EXCEPT ![r] = proxied'[r]]
  BY <1>4, <1>5
<1> USE DEF next
<1>7. proxied'[r] = next
  BY <1>6
<1>8. Selector(proxied'[r]) /\ proxied'[r].todo = groups /\ proxied'[r].pc # "regular"
  <2>1. q = [pc |-> q.pc, todo |-> q.todo, now |-> q.now, tries |-> q.tries, started |-> q.started]
        /\ q.now \in Nat
    BY <1>1 DEF Selector
  <2>2. CASE q.pc = "regular" /\ HasTripped
    <3>1. proxied'[r] = [pc |-> "probe", todo |-> groups, now |-> clock, tries |-> q.tries,
                         started |-> q.started]
      BY <1>7, <2>1, <2>2
    <3> QED BY <1>3, <3>1 DEF Selector, Selecting
  <2>3. CASE q.pc = "regular" /\ ~HasTripped
    <3>1. proxied'[r] = [pc |-> "ready", todo |-> groups, now |-> q.now, tries |-> q.tries,
                         started |-> q.started]
      BY <1>7, <2>1, <2>3
    <3> QED BY <2>1, <3>1 DEF Selector, Selecting
  <2>4. CASE q.pc = "probe"
    <3>1. proxied'[r] = [pc |-> "ready", todo |-> groups, now |-> 0, tries |-> q.tries,
                         started |-> q.started]
      BY <1>7, <2>1, <2>4
    <3> QED BY <3>1 DEF Selector, Selecting
  <2>5. CASE q.pc = "ready"
    <3>1. proxied'[r] = [pc |-> "any", todo |-> groups, now |-> q.now, tries |-> q.tries,
                         started |-> q.started]
      BY <1>7, <2>1, <2>5
    <3> QED BY <2>1, <3>1 DEF Selector, Selecting
  <2> QED BY <1>1, <1>2, <2>2, <2>3, <2>4, <2>5 DEF Selector, Selecting
<1> QED BY <1>1, <1>2, <1>6, <1>8 DEF q

\* A visit to a candidate: the request is sent to it, with a lease if it is a
\* probe, or the candidate is passed over.
Visited(r, b) ==
  /\ Selector(proxied[r]) /\ b \in Candidates(proxied[r].todo)
  /\ proxied' = [proxied EXCEPT ![r] = proxied'[r]]
  /\ Eligible(r, b) =>
       proxied'[r] = [pc |-> "sent", backend |-> b, probe |-> proxied[r].pc = "probe",
                      now |-> proxied[r].now, freed |-> FALSE,
                      tries |-> proxied[r].tries, started |-> proxied[r].started]
  /\ ~Eligible(r, b) =>
       /\ proxied'[r] = [pc |-> proxied[r].pc,
                         todo |-> Unvisited(proxied[r].todo, b),
                         now |-> proxied[r].now, tries |-> proxied[r].tries,
                         started |-> proxied[r].started]
       /\ proxied[r].pc # "any"
  /\ passive' \in [Backends -> Counters]
  /\ ~(proxied[r].pc = "probe" /\ Eligible(r, b)) => passive' = passive
  /\ proxied[r].pc = "probe" /\ Eligible(r, b) =>
       /\ LeaseFree(passive[b], proxied[r].now)
       /\ passive' = [passive EXCEPT ![b].lease = proxied[r].now + ProbeLease]

\* PriorityGroupedIter and the closures of select_with_passive have that effect.
LEMMA VisitEffect ==
  ASSUME RequestTypes, NEW r \in UpClients, NEW b \in Backends, Visit(r, b)
  PROVE  Visited(r, b)
<1>1. Selector(proxied[r]) /\ b \in Candidates(proxied[r].todo)
  BY DEF Visit, RequestTypes, ProxiedIdle, Sent, Answering, Selecting
<1>2. DOMAIN proxied = UpClients /\ proxied = [p \in UpClients |-> proxied[p]]
  BY DEF RequestTypes
<1> DEFINE next ==
       IF Eligible(r, b)
       THEN [pc |-> "sent", backend |-> b, probe |-> proxied[r].pc = "probe",
             now |-> proxied[r].now,
             freed |-> FALSE, tries |-> proxied[r].tries, started |-> proxied[r].started]
       ELSE [proxied[r] EXCEPT !.todo = Unvisited(proxied[r].todo, b)]
<1>3. proxied' = [proxied EXCEPT ![r] = next]
  BY DEF Visit
<1> HIDE DEF next
<1>4. proxied'[r] = next /\ proxied' = [proxied EXCEPT ![r] = proxied'[r]]
  BY <1>2, <1>3
<1>5. CASE Eligible(r, b)
  <2>1. proxied'[r] = [pc |-> "sent", backend |-> b, probe |-> proxied[r].pc = "probe",
                       now |-> proxied[r].now, freed |-> FALSE,
                       tries |-> proxied[r].tries, started |-> proxied[r].started]
    BY <1>4, <1>5 DEF next
  <2>2. CASE proxied[r].pc = "probe"
    <3>1. passive' = [passive EXCEPT ![b].lease = proxied[r].now + ProbeLease]
      BY <1>5, <2>2 DEF Visit
    <3>2. passive' \in [Backends -> Counters]
      BY <1>1, <3>1, UpstreamAssumption DEF RequestTypes, Counters, Selector
    <3>3. LeaseFree(passive[b], proxied[r].now)
      BY <1>5, <2>2 DEF Eligible
    <3> QED BY <1>1, <1>4, <1>5, <2>1, <2>2, <3>1, <3>2, <3>3 DEF Visited
  <2>3. CASE proxied[r].pc # "probe"
    BY <1>1, <1>4, <1>5, <2>1, <2>3 DEF Visit, RequestTypes, Visited
  <2> QED BY <2>2, <2>3
<1>6. CASE ~Eligible(r, b)
  <2>1. passive' = passive /\ passive' \in [Backends -> Counters]
    BY <1>6 DEF Visit, RequestTypes
  <2>2. proxied'[r] = [proxied[r] EXCEPT !.todo = Unvisited(proxied[r].todo, b)]
    BY <1>4, <1>6 DEF next
  <2>3. proxied'[r] = [pc |-> proxied[r].pc,
                       todo |-> Unvisited(proxied[r].todo, b),
                       now |-> proxied[r].now, tries |-> proxied[r].tries,
                       started |-> proxied[r].started]
    BY <1>1, <2>2 DEF Selector
  <2>4. proxied[r].pc # "any"
    BY <1>6 DEF Eligible
  <2> QED BY <1>1, <1>4, <1>6, <2>1, <2>3, <2>4 DEF Visited
<1> QED BY <1>5, <1>6

\* Where an outcome is observed from: response_filter, error_while_proxy or
\* fail_to_connect, and what becomes of the request.
LEMMA OutcomeStep ==
  ASSUME RequestTypes, NEW r \in UpClients,
         NEW outcome \in Failing \cup {"healthy", "other", "unclassified"},
         ResponseFilter(r, outcome) \/ ErrorWhileProxy(r, outcome) \/ FailToConnect(r, outcome)
  PROVE  /\ Sent(proxied[r]) \/ Answering(proxied[r])
         /\ \E after :
              /\ Observes(r, outcome, after)
              /\ \/ after = ProxiedIdle \/ Answering(after)
                 \/ \E tries, started : after = Begins(tries, started)
<1>1. Sent(proxied[r]) \/ Answering(proxied[r])
  BY DEF ResponseFilter, ErrorWhileProxy, FailToConnect, RequestTypes, ProxiedIdle, Selector,
     Selecting
<1>2. CASE ResponseFilter(r, outcome)
  <2>1. Answering([pc |-> "body", backend |-> proxied[r].backend])
    BY <1>1 DEF Answering, Sent
  <2> QED BY <1>1, <1>2, <2>1 DEF ResponseFilter
<1>3. CASE ErrorWhileProxy(r, outcome)
  BY <1>1, <1>3 DEF ErrorWhileProxy
<1>4. CASE FailToConnect(r, outcome)
  BY <1>1, <1>4 DEF FailToConnect
<1> QED BY <1>2, <1>3, <1>4

\* What the requests make of one another's records, and of the counters.
LEMMA RequestTypesStep ==
  ASSUME RequestTypes, DiscoveryInv, NEW r \in UpClients, RequestStep(r)
  PROVE  RequestTypes'
<1>0. ASSUME NEW q, q = ProxiedIdle \/ Selector(q) \/ Sent(q) \/ Answering(q),
             q.pc = "any" => DOMAIN q.todo # {}, proxied' = [proxied EXCEPT ![r] = q],
             passive' \in [Backends -> Counters]
      PROVE  RequestTypes'
  BY <1>0 DEF RequestTypes
<1>1. CASE ProxiedArrive(r)
  <2>1. proxied' = [proxied EXCEPT ![r] = Begins(0, clock)] /\ passive' \in [Backends -> Counters]
    BY <1>1 DEF ProxiedArrive, RequestTypes
  <2> QED BY <1>0, <2>1, BeginsSelector
<1>2. ASSUME NEW b \in Backends, Visit(r, b) PROVE RequestTypes'
  <2>0. Selector(proxied[r]) /\ proxied' = [proxied EXCEPT ![r] = proxied'[r]]
        /\ passive' \in [Backends -> Counters]
    BY <1>2, VisitEffect DEF Visited
  <2>1. CASE Eligible(r, b)
    <3>1. proxied'[r] = [pc |-> "sent", backend |-> b, probe |-> proxied[r].pc = "probe",
                         now |-> proxied[r].now, freed |-> FALSE,
                         tries |-> proxied[r].tries, started |-> proxied[r].started]
      BY <1>2, <2>1, VisitEffect DEF Visited
    <3>2. Sent(proxied'[r]) /\ proxied'[r].pc = "sent"
      BY <2>0, <3>1 DEF Sent, Selector
    <3> QED BY <1>0, <2>0, <3>2
  <2>2. CASE ~Eligible(r, b)
    <3>1. proxied'[r] = [pc |-> proxied[r].pc, todo |-> Unvisited(proxied[r].todo, b),
                         now |-> proxied[r].now, tries |-> proxied[r].tries,
                         started |-> proxied[r].started]
          /\ proxied[r].pc # "any"
      BY <1>2, <2>2, VisitEffect DEF Visited
    <3>2. Selector(proxied'[r]) /\ proxied'[r].pc # "any"
      BY <2>0, <3>1 DEF Selector
    <3> QED BY <1>0, <2>0, <3>2
  <2> QED BY <2>1, <2>2
<1>3. CASE Exhausted(r)
  <2>1. passive' \in [Backends -> Counters]
    BY <1>3 DEF Exhausted, RequestTypes
  <2>2. DOMAIN groups # {}
    BY DEF DiscoveryInv, InService
  <2> QED BY <1>0, <1>3, <2>1, <2>2, ExhaustedEffect
<1>4. ASSUME NEW outcome \in Failing \cup {"healthy", "other", "unclassified"},
             ResponseFilter(r, outcome) \/ ErrorWhileProxy(r, outcome) \/ FailToConnect(r, outcome)
      PROVE  RequestTypes'
  <2>1. Sent(proxied[r]) \/ Answering(proxied[r])
    BY <1>4, OutcomeStep
  <2>2. PICK after :
          /\ Observes(r, outcome, after)
          /\ \/ after = ProxiedIdle \/ Answering(after)
             \/ \E tries, started : after = Begins(tries, started)
    BY <1>4, OutcomeStep
  <2>o. Observed(r, outcome, after)
    BY <2>1, <2>2, ObservesEffect
  <2>3. after = ProxiedIdle \/ Selector(after) \/ Answering(after)
    BY <2>2, BeginsSelector
  <2>4. after.pc # "any"
    BY <2>2, BeginsSelector DEF ProxiedIdle, Answering
  <2>5. ASSUME NEW q \in UpClients \ {r}
        PROVE  proxied'[q] = proxied[q] \/ (Sent(proxied'[q]) /\ proxied'[q].pc = "sent")
    <3>1. CASE proxied'[q] = proxied[q]
      BY <3>1
    <3>2. CASE ~(proxied'[q] = proxied[q])
      <4>1. Sent(proxied[q]) /\
            proxied'[q] = [pc |-> "sent", backend |-> proxied[q].backend,
                           probe |-> proxied[q].probe, now |-> proxied[q].now,
                           freed |-> TRUE, tries |-> proxied[q].tries,
                           started |-> proxied[q].started]
        BY <2>o, <3>2 DEF Observed
      <4> QED BY <4>1 DEF Sent
    <3> QED BY <3>1, <3>2
  <2>6. /\ passive' \in [Backends -> Counters] /\ DOMAIN proxied' = UpClients
        /\ proxied' = [q \in UpClients |-> proxied'[q]] /\ proxied'[r] = after
    BY <2>o DEF Observed
  <2> QED BY <2>3, <2>4, <2>5, <2>6 DEF RequestTypes
<1>5. CASE ProxiedEnds(r)
  <2>1. proxied' = [proxied EXCEPT ![r] = ProxiedIdle] /\ passive' \in [Backends -> Counters]
    BY <1>5 DEF ProxiedEnds, RequestTypes
  <2>2. ProxiedIdle.pc # "any"
    BY DEF ProxiedIdle
  <2> QED BY <1>0, <2>1, <2>2
<1> QED BY <1>1, <1>2, <1>3, <1>4, <1>5 DEF RequestStep

\* A step of an upstream is a request's, or leaves requests and counters alone.
LEMMA RequestPart ==
  ASSUME [UpstreamNext]_<<upstreamVars, clock>>
  PROVE  \/ \E r \in UpClients : RequestStep(r)
         \/ UNCHANGED <<passive, proxied, streak>>
<1>1. CASE UNCHANGED <<upstreamVars, clock>>
  BY <1>1 DEF upstreamVars, requestVars
<1>2. CASE \E b \in DOMAIN groups : ActiveCheck(b)
  BY <1>2 DEF ActiveCheck
<1>3. CASE ClockTicks /\ UNCHANGED <<discoveryVars, requestVars, streak>>
  BY <1>3 DEF requestVars
<1> QED BY <1>1, <1>2, <1>3 DEF UpstreamNext, UpstreamStep, RequestStep

\* Any step of a request or of the upstream keeps what RequestTypes says.
LEMMA RequestTypesNext ==
  ASSUME RequestTypes, DiscoveryInv, [UpstreamNext]_<<upstreamVars, clock>> PROVE RequestTypes'
<1>1. CASE UNCHANGED <<passive, proxied, streak>>
  BY <1>1 DEF RequestTypes
<1> QED BY <1>1, RequestPart, RequestTypesStep

\* What a request holds is what the stage of its selection needs, always.
LEMMA RequestsSafe == UpstreamSpec => []RequestTypes
<1>1. UpstreamInit /\ clock = 0 => RequestTypes
  BY RequestTypesInit
<1>2. RequestTypes /\ DiscoveryInv /\ [UpstreamNext]_<<upstreamVars, clock>> => RequestTypes'
  BY RequestTypesNext
<1> QED BY <1>1, <1>2, DiscoverySafe, PTL DEF UpstreamSpec

\* A selection always ends with a backend (upstream_peer's "no backend" error is
\* never reached): however lookups fail, expire and time out, a refresh leaves a
\* backend in service, and the last of the attempts takes any.
THEOREM SelectionFindsBackend == UpstreamSpec => []NeverWithoutBackend
<1>1. RequestTypes => NeverWithoutBackend
  BY DEF RequestTypes, NeverWithoutBackend, ProxiedIdle, Selector, Selecting, Sent, Answering
<1> QED BY <1>1, RequestsSafe, PTL

--------------------------------------------------------------------------------
(* Probes. *)

Probing(r, b) ==
  /\ proxied[r].pc = "sent" /\ proxied[r].probe /\ proxied[r].backend = b
  /\ ~proxied[r].freed

\* ProbesOneAtATime speaks of requests only; what keeps them apart is the lease.
\* A probe that no outcome has freed is covered by the lease of its backend, its
\* own or that of a later probe.
Leased ==
  \A b \in Backends, r \in UpClients : Probing(r, b) =>
    /\ passive[b].lease >= proxied[r].now + ProbeLease
    /\ \A q \in UpClients : (q # r /\ Probing(q, b)) =>
         \/ proxied[r].now >= proxied[q].now + ProbeLease
         \/ proxied[q].now >= proxied[r].now + ProbeLease

\* When only one request changes, and not into a probe, leases need not change.
LEMMA LeasedKept ==
  ASSUME RequestTypes, Leased, NEW r \in UpClients, NEW next,
         proxied' = [proxied EXCEPT ![r] = next],
         next.pc = "sent" => ~next.probe,
         passive' = passive
  PROVE  Leased'
<1>1. \A b \in Backends, q \in UpClients :
        Probing(q, b)' => q # r /\ proxied'[q] = proxied[q] /\ Probing(q, b)
  BY DEF Probing, RequestTypes
<1> QED BY <1>1 DEF Leased

\* take_probe: the lease of an unfreed probe has expired when the next one takes it.
LEMMA LeasedVisit ==
  ASSUME RequestTypes, Leased, NEW r \in UpClients, NEW b \in Backends, Visit(r, b)
  PROVE  Leased'
<1>1. CASE ~(proxied[r].pc = "probe" /\ Eligible(r, b))
  <2>1. /\ passive' = passive /\ proxied' = [proxied EXCEPT ![r] = proxied'[r]]
    BY <1>1, VisitEffect DEF Visited
  <2>2. CASE Eligible(r, b)
    <3>1. proxied'[r] = [pc |-> "sent", backend |-> b, probe |-> proxied[r].pc = "probe",
                         now |-> proxied[r].now, freed |-> FALSE,
                         tries |-> proxied[r].tries, started |-> proxied[r].started]
      BY <2>2, VisitEffect DEF Visited
    <3>2. ~proxied'[r].probe
      <4>1. (proxied[r].pc = "probe") = FALSE
        BY <1>1, <2>2
      <4>2. proxied'[r].probe = (proxied[r].pc = "probe")
        BY <3>1
      <4> QED BY <4>1, <4>2
    <3> QED BY <2>1, <3>2, LeasedKept
  <2>3. CASE ~Eligible(r, b)
    <3>0. Visited(r, b)
      BY VisitEffect
    <3>1. proxied'[r].pc = proxied[r].pc /\ Selector(proxied[r])
      BY <2>3, <3>0 DEF Visited
    <3>2. proxied'[r].pc # "sent"
      BY <3>1 DEF Selector, Selecting
    <3> QED BY <2>1, <3>2, LeasedKept
  <2> QED BY <2>2, <2>3
<1>2. CASE proxied[r].pc = "probe" /\ Eligible(r, b)
  <2> DEFINE now == proxied[r].now
  <2>1. /\ LeaseFree(passive[b], now)
        /\ passive' = [passive EXCEPT ![b].lease = now + ProbeLease]
        /\ proxied' = [proxied EXCEPT ![r] = proxied'[r]]
        /\ Selector(proxied[r])
        /\ proxied'[r] = [pc |-> "sent", backend |-> b, probe |-> proxied[r].pc = "probe",
                          now |-> now, freed |-> FALSE,
                          tries |-> proxied[r].tries, started |-> proxied[r].started]
    BY <1>2, VisitEffect DEF Visited
  <2>2. now \in Nat /\ ProbeLease \in Nat
    BY <2>1, UpstreamAssumption DEF Selector
  <2>3. /\ passive'[b].lease = now + ProbeLease
        /\ \A c \in Backends \ {b} : passive'[c].lease = passive[c].lease
    BY <2>1 DEF RequestTypes, Counters
  <2>4. /\ proxied'[r].pc = "sent" /\ proxied'[r].backend = b /\ proxied'[r].now = now
        /\ \A q \in UpClients \ {r} : proxied'[q] = proxied[q]
    BY <2>1 DEF RequestTypes
  <2> HIDE DEF now
  <2>5. \A c \in Backends, q \in UpClients \ {r} : Probing(q, c)' <=> Probing(q, c)
    BY <2>4 DEF Probing
  <2>6. \A c \in Backends : Probing(r, c)' => c = b
    BY <2>4 DEF Probing
  <2>7. \A q \in UpClients : \A c \in Backends : Probing(q, c) => proxied[q].now \in Nat
    BY DEF Probing, RequestTypes, Sent, ProxiedIdle, Selector, Selecting, Answering
  <2>8. \A q \in UpClients \ {r} : Probing(q, b) => now >= proxied[q].now + ProbeLease
    <3>1. passive[b].lease \in Int
      BY DEF RequestTypes, Counters
    <3> QED BY <2>1, <2>2, <2>7, <3>1 DEF Leased, LeaseFree, NoLease
  <2>9. ASSUME NEW c \in Backends, NEW q \in UpClients, Probing(q, c)'
        PROVE  /\ passive'[c].lease >= proxied'[q].now + ProbeLease
               /\ \A p \in UpClients : (p # q /\ Probing(p, c)') =>
                    \/ proxied'[q].now >= proxied'[p].now + ProbeLease
                    \/ proxied'[p].now >= proxied'[q].now + ProbeLease
    <3>1. CASE q = r
      BY <2>2, <2>3, <2>4, <2>5, <2>6, <2>7, <2>8, <2>9, <3>1
    <3>2. CASE q # r /\ c = b
      BY <2>2, <2>3, <2>4, <2>5, <2>6, <2>7, <2>8, <2>9, <3>2 DEF Leased
    <3>3. CASE q # r /\ c # b
      BY <2>2, <2>3, <2>4, <2>5, <2>6, <2>7, <2>8, <2>9, <3>3 DEF Leased
    <3> QED BY <3>1, <3>2, <3>3
  <2> QED BY <2>9 DEF Leased
<1> QED BY <1>1, <1>2

\* An outcome that gives the lease back frees the probes under way.
LEMMA LeasedOutcome ==
  ASSUME RequestTypes, Leased, NEW r \in UpClients,
         NEW outcome \in Failing \cup {"healthy", "other", "unclassified"},
         ResponseFilter(r, outcome) \/ ErrorWhileProxy(r, outcome) \/ FailToConnect(r, outcome)
  PROVE  Leased'
<1>1. Sent(proxied[r]) \/ Answering(proxied[r])
  BY OutcomeStep
<1>2. PICK after :
        /\ Observes(r, outcome, after)
        /\ \/ after = ProxiedIdle \/ Answering(after)
           \/ \E tries, started : after = Begins(tries, started)
  BY OutcomeStep
<1>3. Observed(r, outcome, after)
  BY <1>1, <1>2, ObservesEffect
<1>4. after.pc # "sent"
  BY <1>2 DEF ProxiedIdle, Answering, Begins
<1>5. ASSUME NEW b \in Backends, NEW q \in UpClients, Probing(q, b)'
      PROVE  /\ proxied'[q] = proxied[q] /\ Probing(q, b)
             /\ outcome # "unclassified" => b # proxied[r].backend
             /\ passive'[b] = passive[b]
  <2>1. q # r
    BY <1>3, <1>4, <1>5 DEF Observed, Probing
  <2>2. proxied'[q] = proxied[q]
    BY <1>3, <1>5, <2>1 DEF Observed, Probing
  <2>3. Probing(q, b)
    BY <1>5, <2>2 DEF Probing
  <2>4. outcome # "unclassified" => b # proxied[r].backend
    <3>1. ASSUME proxied'[q] = [pc |-> "sent", backend |-> proxied[q].backend,
                                probe |-> proxied[q].probe, now |-> proxied[q].now,
                                freed |-> TRUE, tries |-> proxied[q].tries,
                                started |-> proxied[q].started]
          PROVE  FALSE
      BY <1>5, <3>1 DEF Probing
    <3> QED BY <1>3, <2>1, <2>3, <3>1 DEF Observed, Probing
  <2> QED BY <1>3, <2>2, <2>3, <2>4 DEF Observed
<1> QED BY <1>5 DEF Leased

\* take_probe, the outcomes that free a lease and the lapse of time together.
LEMMA LeasedNext ==
  ASSUME RequestTypes, DiscoveryInv, Leased, [UpstreamNext]_<<upstreamVars, clock>>
  PROVE  Leased'
<1>1. CASE UNCHANGED <<passive, proxied, streak>>
  BY <1>1 DEF Leased, Probing
<1>2. ASSUME NEW r \in UpClients, RequestStep(r) PROVE Leased'
  <2>1. CASE ProxiedArrive(r)
    <3>1. Begins(0, clock).pc # "sent"
      BY DEF Begins
    <3> QED BY <2>1, <3>1, LeasedKept DEF ProxiedArrive
  <2>2. CASE \E b \in Backends : Visit(r, b)
    BY <2>2, LeasedVisit
  <2>3. CASE Exhausted(r)
    <3>1. Selector(proxied'[r]) /\ proxied' = [proxied EXCEPT ![r] = proxied'[r]]
      BY <2>3, ExhaustedEffect
    <3>2. proxied'[r].pc # "sent" /\ passive' = passive
      BY <2>3, <3>1 DEF Selector, Selecting, Exhausted
    <3> QED BY <3>1, <3>2, LeasedKept
  <2>4. CASE ProxiedEnds(r)
    <3>1. ProxiedIdle.pc # "sent"
      BY DEF ProxiedIdle
    <3> QED BY <2>4, <3>1, LeasedKept DEF ProxiedEnds
  <2> QED BY <1>2, <2>1, <2>2, <2>3, <2>4, LeasedOutcome DEF RequestStep
<1> QED BY <1>1, <1>2, RequestPart

\* The lease of a backend covers every probe under way that nobody freed, and two
\* of those began a lease apart.
LEMMA LeasesHold == UpstreamSpec => []Leased
<1>1. UpstreamInit /\ clock = 0 => Leased
  BY DEF UpstreamInit, Leased, Probing, ProxiedIdle
<1>2. RequestTypes /\ DiscoveryInv /\ Leased /\ [UpstreamNext]_<<upstreamVars, clock>> => Leased'
  BY LeasedNext
<1> QED BY <1>1, <1>2, DiscoverySafe, RequestsSafe, PTL DEF UpstreamSpec

\* A tripped backend is probed by one request at a time (take_probe and its lease),
\* unless a lease has expired or the outcome of another request gave it back,
\* although a request reads the clock long before it takes the lease.
THEOREM ProbesAreLeased == UpstreamSpec => []ProbesOneAtATime
<1>1. RequestTypes /\ Leased => ProbesOneAtATime
  <2> SUFFICES ASSUME RequestTypes, Leased, NEW r \in UpClients, NEW q \in UpClients,
                 r # q, proxied[r].pc = "sent", proxied[q].pc = "sent",
                 proxied[r].probe, proxied[q].probe,
                 proxied[r].backend = proxied[q].backend,
                 ~proxied[r].freed, ~proxied[q].freed
               PROVE  \/ Since(proxied[r].now, proxied[q].now) >= ProbeLease
                      \/ Since(proxied[q].now, proxied[r].now) >= ProbeLease
    BY DEF ProbesOneAtATime
  <2>1. Sent(proxied[r]) /\ Sent(proxied[q])
    BY DEF RequestTypes, ProxiedIdle, Selector, Selecting, Answering
  <2>2. proxied[r].backend \in Backends /\ proxied[r].now \in Nat /\ proxied[q].now \in Nat
    BY <2>1 DEF Sent
  <2>3. Probing(r, proxied[r].backend) /\ Probing(q, proxied[r].backend)
    BY DEF Probing
  <2>4. \/ proxied[r].now >= proxied[q].now + ProbeLease
        \/ proxied[q].now >= proxied[r].now + ProbeLease
    BY <2>2, <2>3 DEF Leased
  <2> QED BY <2>2, <2>4, UpstreamAssumption DEF Since, AtLeastZero
<1> QED BY <1>1, RequestsSafe, LeasesHold, PTL

--------------------------------------------------------------------------------
(* Passive checking. *)

Streaks == [kind : Failing \cup {"none", "healthy"}, run : Nat]

\* PassiveCounters against the outcomes in the order of their observation: what is
\* counted towards a threshold was observed last, and that many times in a row.
Counted(node, run) ==
  /\ \A f \in Failing : node.failures[f] > 0 => run.kind = f /\ node.failures[f] <= run.run
  /\ node.successes > 0 => run.kind = "healthy" /\ node.successes <= run.run

Extended(run, outcome) ==
  [kind |-> outcome, run |-> IF run.kind = outcome THEN run.run + 1 ELSE 1]

\* RotationEarned is a property of steps: the state has to remember why the
\* counters stand where they stand.
CountersEarned ==
  /\ streak \in [Backends -> Streaks]
  /\ \A b \in Backends : Counted(passive[b], streak[b])

\* One outcome: the counters still say how often it came in a row, and the backend
\* is taken out or back only when that is the configured number.
LEMMA OutcomeCounts ==
  ASSUME NEW node \in Counters, NEW run \in Streaks, Counted(node, run),
         NEW outcome \in Failing \cup {"healthy"}
  PROVE  LET after == AfterOutcome(node, outcome)
             extended == Extended(run, outcome)
         IN /\ extended \in Streaks
            /\ Counted(after, extended)
            /\ ~node.tripped /\ after.tripped =>
                 outcome \in Failing /\ Thresholds[outcome] \in 1..extended.run
            /\ node.tripped /\ ~after.tripped =>
                 outcome = "healthy" /\ HealthySuccesses \in 1..extended.run
<1> DEFINE after == AfterOutcome(node, outcome)
           extended == Extended(run, outcome)
<1>0. extended \in Streaks /\ extended.kind = outcome
      /\ extended.run = (IF run.kind = outcome THEN run.run + 1 ELSE 1)
      /\ extended.run \in Nat \ {0}
  BY DEF Extended, Streaks
<1>1. CASE outcome \in Failing
  <2> DEFINE f == OnlyThisFailure(node, outcome)
             trips == Thresholds[outcome] > 0 /\ f[outcome] >= Thresholds[outcome]
  <2>1. after = [failures |-> f, successes |-> 0, lease |-> NoLease,
                 tripped |-> node.tripped \/ trips]
    BY <1>1 DEF AfterOutcome, AfterFailing, Failing
  <2>2. /\ f[outcome] = node.failures[outcome] + 1
        /\ \A g \in Failing \ {outcome} : f[g] = 0
    BY <1>1 DEF OnlyThisFailure
  <2>3. node.failures[outcome] \in Nat
    BY <1>1 DEF Counters
  <2>4. f[outcome] <= extended.run
    BY <1>0, <1>1, <2>2, <2>3 DEF Counted, Streaks
  <2>5. Counted(after, extended)
    <3>1. after.failures = f /\ after.successes = 0
      BY <2>1
    <3> QED BY <1>0, <2>2, <2>4, <3>1 DEF Counted
  <2>6. after.tripped = (node.tripped \/ trips)
    BY <2>1
  <2>7. trips => Thresholds[outcome] \in 1..extended.run
    BY <1>0, <1>1, <2>2, <2>3, <2>4, UpstreamAssumption
  <2> HIDE DEF after, extended, trips
  <2> QED BY <1>0, <1>1, <2>5, <2>6, <2>7 DEF after, extended
<1>2. CASE outcome = "healthy"
  <2> DEFINE successes == IF node.tripped THEN node.successes + 1 ELSE node.successes
             restored == node.tripped /\ HealthySuccesses > 0 /\ successes >= HealthySuccesses
  <2>1. after = [failures |-> [f \in Failing |-> 0], lease |-> NoLease,
                 successes |-> IF restored THEN 0 ELSE successes,
                 tripped |-> node.tripped /\ ~restored]
    BY <1>2 DEF AfterOutcome, AfterHealthyStatus, Failing
  <2>2. node.successes \in Nat /\ successes \in Nat
    BY DEF Counters
  <2>3. successes <= extended.run
    BY <1>0, <1>2, <2>2 DEF Counted, Streaks
  <2> HIDE DEF restored, successes
  <2>4. Counted(after, extended)
    <3>1. /\ \A f \in Failing : after.failures[f] = 0
          /\ after.successes = IF restored THEN 0 ELSE successes
      BY <2>1
    <3> QED BY <1>0, <1>2, <2>2, <2>3, <3>1 DEF Counted
  <2>5. after.tripped = (node.tripped /\ ~restored)
    BY <2>1
  <2>6. restored => HealthySuccesses \in 1..extended.run
    BY <1>0, <2>2, <2>3, UpstreamAssumption DEF restored
  <2> HIDE DEF after, extended
  <2> QED BY <1>0, <1>2, <2>4, <2>5, <2>6 DEF after, extended
<1> QED BY <1>1, <1>2

\* A step of the counters is an outcome, or changes nothing that counts.
RotationStep ==
  \A b \in Backends :
    /\ (~passive[b].tripped /\ passive'[b].tripped)
       => /\ streak'[b].kind \in Failing
          /\ Thresholds[streak'[b].kind] \in 1..streak'[b].run
    /\ (passive[b].tripped /\ ~passive'[b].tripped)
       => streak'[b].kind = "healthy" /\ HealthySuccesses \in 1..streak'[b].run

\* A step that observes no outcome leaves the counters of every backend alone.
LEMMA CountersKept ==
  ASSUME RequestTypes, CountersEarned, streak' = streak,
         \A b \in Backends : /\ passive'[b].failures = passive[b].failures
                             /\ passive'[b].successes = passive[b].successes
                             /\ passive'[b].tripped = passive[b].tripped
  PROVE  CountersEarned' /\ RotationStep
  BY DEF CountersEarned, Counted, RotationStep

\* PassiveState::observe: each outcome extends one streak or ends it.
LEMMA CountersOutcome ==
  ASSUME RequestTypes, CountersEarned, NEW r \in UpClients,
         NEW outcome \in Failing \cup {"healthy", "other", "unclassified"}, NEW after,
         Sent(proxied[r]) \/ Answering(proxied[r]), Observes(r, outcome, after)
  PROVE  CountersEarned' /\ RotationStep
<1> DEFINE b == proxied[r].backend
<1>1. Observed(r, outcome, after) /\ b \in Backends
  BY ObservesEffect DEF Sent, Answering
<1>2. passive[b] \in Counters
  BY <1>1 DEF RequestTypes
<1>3. CASE outcome = "unclassified"
  BY <1>1, <1>3, CountersKept DEF Observed, Observes
<1>4. CASE outcome = "other"
  <2>1. passive'[b] = [passive[b] EXCEPT !.lease = NoLease]
    BY <1>1, <1>4 DEF Observed, AfterOutcome, Failing
  <2>2. /\ passive'[b].failures = passive[b].failures
        /\ passive'[b].successes = passive[b].successes
        /\ passive'[b].tripped = passive[b].tripped
    BY <1>2, <2>1 DEF Counters
  <2>3. \A c \in Backends \ {b} : passive'[c] = passive[c]
    BY <1>1 DEF Observed
  <2>4. streak' = streak
    BY <1>4 DEF Observes
  <2> HIDE DEF b
  <2> QED BY <2>2, <2>3, <2>4, CountersKept
<1>5. CASE outcome \in Failing \cup {"healthy"}
  <2>1. streak' = [streak EXCEPT ![b] = Extended(streak[b], outcome)]
    BY <1>5 DEF Observes, Extended, Failing
  <2>2. passive'[b] = AfterOutcome(passive[b], outcome)
        /\ \A c \in Backends \ {b} : passive'[c] = passive[c]
    BY <1>1, <1>5 DEF Observed, Failing
  <2> HIDE DEF b
  <2>3. streak[b] \in Streaks /\ Counted(passive[b], streak[b])
    BY <1>1 DEF CountersEarned
  <2>4. streak'[b] = Extended(streak[b], outcome)
        /\ \A c \in Backends \ {b} : streak'[c] = streak[c]
    BY <1>1, <2>1 DEF CountersEarned
  <2>5. /\ streak'[b] \in Streaks
        /\ Counted(passive'[b], streak'[b])
        /\ ~passive[b].tripped /\ passive'[b].tripped =>
             outcome \in Failing /\ Thresholds[outcome] \in 1..streak'[b].run
        /\ passive[b].tripped /\ ~passive'[b].tripped =>
             outcome = "healthy" /\ HealthySuccesses \in 1..streak'[b].run
    BY <1>2, <1>5, <2>2, <2>3, <2>4, OutcomeCounts
  <2>6. streak'[b].kind = outcome
    BY <2>4 DEF Extended
  <2>7. streak' \in [Backends -> Streaks]
    BY <1>1, <2>1, <2>4, <2>5 DEF CountersEarned
  <2>8. CountersEarned'
    BY <2>2, <2>4, <2>5, <2>7 DEF CountersEarned
  <2>9. RotationStep
    BY <2>2, <2>4, <2>5, <2>6 DEF RotationStep
  <2> QED BY <2>8, <2>9
<1> QED BY <1>3, <1>4, <1>5

\* Every step either observes one outcome or leaves the counters alone.
LEMMA CountersNext ==
  ASSUME RequestTypes, CountersEarned, [UpstreamNext]_<<upstreamVars, clock>>
  PROVE  CountersEarned' /\ RotationStep
<1>1. CASE UNCHANGED <<passive, proxied, streak>>
  BY <1>1, CountersKept
<1>2. ASSUME NEW r \in UpClients, RequestStep(r) PROVE CountersEarned' /\ RotationStep
  <2>1. CASE ProxiedArrive(r) \/ Exhausted(r) \/ ProxiedEnds(r)
    BY <2>1, CountersKept DEF ProxiedArrive, Exhausted, ProxiedEnds
  <2>2. ASSUME NEW b \in Backends, Visit(r, b) PROVE CountersEarned' /\ RotationStep
    <3>1. streak' = streak
      BY <2>2 DEF Visit
    <3>2. passive' = passive
          \/ passive' = [passive EXCEPT ![b].lease = proxied[r].now + ProbeLease]
      BY <2>2 DEF Visit
    <3>3. \A c \in Backends : /\ passive'[c].failures = passive[c].failures
                              /\ passive'[c].successes = passive[c].successes
                              /\ passive'[c].tripped = passive[c].tripped
      BY <3>2 DEF RequestTypes, Counters
    <3> QED BY <3>1, <3>3, CountersKept
  <2>3. ASSUME NEW outcome \in Failing \cup {"healthy", "other", "unclassified"},
               ResponseFilter(r, outcome) \/ ErrorWhileProxy(r, outcome) \/ FailToConnect(r, outcome)
        PROVE  CountersEarned' /\ RotationStep
    <3>1. Sent(proxied[r]) \/ Answering(proxied[r])
      BY <2>3, OutcomeStep
    <3>2. \E after : Observes(r, outcome, after)
      BY <2>3, OutcomeStep
    <3> QED BY <3>1, <3>2, CountersOutcome
  <2> QED BY <1>2, <2>1, <2>2, <2>3 DEF RequestStep
<1> QED BY <1>1, <1>2, RequestPart

\* Passive checking (PassiveHealthState::observe) takes a backend out of rotation
\* only after the configured number of failures of one kind in a row, and back only
\* after the configured number of healthy statuses in a row, in whatever order the
\* outcomes of old and new requests arrive.
THEOREM RotationIsEarned == UpstreamSpec => RotationEarned
<1>1. UpstreamInit /\ clock = 0 => CountersEarned
  BY DEF UpstreamInit, CountersEarned, Counted, FreshCounters, Streaks
<1>2. /\ RequestTypes /\ CountersEarned /\ [UpstreamNext]_<<upstreamVars, clock>>
      => CountersEarned' /\ [RotationStep]_<<upstreamVars, clock>>
  BY CountersNext
<1>3. UpstreamSpec => [][RotationStep]_<<upstreamVars, clock>>
  BY <1>1, <1>2, RequestsSafe, PTL DEF UpstreamSpec
<1> QED BY <1>3 DEF RotationStep, RotationEarned

--------------------------------------------------------------------------------
(* Preference. *)

\* A backend that has been steady since the selection began is still ahead of the
\* selection: it is not skipped, at its priority, and the attempt is the first.
SteadyAhead ==
  /\ DOMAIN steady = UpClients
  /\ \A r \in UpClients : (proxied[r].pc \in Selecting /\ steady[r] # {}) =>
       /\ proxied[r].pc = "regular"
       /\ \A b \in steady[r] :
            /\ b \in Regular
            /\ b \in DOMAIN proxied[r].todo /\ proxied[r].todo[b] = groups[b]

\* The ways in which a request can be selecting after a step.
StillSelecting(q) ==
  \/ proxied'[q] = proxied[q]
  \/ /\ proxied[q].pc \notin Selecting
     /\ UNCHANGED groups
     /\ proxied'[q].pc = "regular" /\ proxied'[q].todo = groups
  \/ Selector(proxied[q]) /\ \E b \in Backends : Visit(q, b) /\ ~Eligible(q, b)
  \/ Exhausted(q)

\* How a selection can be under way after a step: it was before and visited nothing
\* it could use, began just now, moved to its next attempt, or somebody else moved.
LEMMA SelectingStep ==
  ASSUME RequestTypes, DiscoveryInv, [UpstreamNext]_<<upstreamVars, clock>>, NEW q \in UpClients,
         proxied'[q].pc \in Selecting
  PROVE  StillSelecting(q)
<1>1. CASE UNCHANGED <<passive, proxied, streak>>
  BY <1>1 DEF StillSelecting
<1>2. ASSUME NEW r \in UpClients, RequestStep(r) PROVE StillSelecting(q)
  <2>1. CASE ProxiedArrive(r)
    <3>1. q = r => proxied'[q] = Begins(0, clock) /\ proxied[q].pc = "idle"
      BY <2>1 DEF ProxiedArrive, RequestTypes
    <3>2. q # r => proxied'[q] = proxied[q]
      BY <2>1 DEF ProxiedArrive, RequestTypes
    <3>3. UNCHANGED groups
      BY <2>1 DEF ProxiedArrive, discoveryVars
    <3> QED BY <3>1, <3>2, <3>3 DEF StillSelecting, Begins, Selecting
  <2>2. ASSUME NEW b \in Backends, Visit(r, b) PROVE StillSelecting(q)
    <3>1. Visited(r, b)
      BY <2>2, VisitEffect
    <3>2. q # r => proxied'[q] = proxied[q]
      BY <3>1 DEF Visited, RequestTypes
    <3>3. q = r => ~Eligible(r, b)
      BY <3>1 DEF Visited, Selecting
    <3> QED BY <2>2, <3>1, <3>2, <3>3 DEF StillSelecting, Visited
  <2>3. CASE Exhausted(r)
    <3>1. q # r => proxied'[q] = proxied[q]
      BY <2>3 DEF Exhausted, RequestTypes
    <3> QED BY <2>3, <3>1 DEF StillSelecting
  <2>4. ASSUME NEW outcome \in Failing \cup {"healthy", "other", "unclassified"},
               ResponseFilter(r, outcome) \/ ErrorWhileProxy(r, outcome) \/ FailToConnect(r, outcome)
        PROVE  StillSelecting(q)
    <3>1. Sent(proxied[r]) \/ Answering(proxied[r])
      BY <2>4, OutcomeStep
    <3>2. PICK after :
            /\ Observes(r, outcome, after)
            /\ \/ after = ProxiedIdle \/ Answering(after)
               \/ \E tries, started : after = Begins(tries, started)
      BY <2>4, OutcomeStep
    <3>3. Observed(r, outcome, after)
      BY <3>1, <3>2, ObservesEffect
    <3>4. CASE q = r
      <4>1. proxied'[q] = after
        BY <3>3, <3>4 DEF Observed
      <4>2. PICK tries, started : after = Begins(tries, started)
        BY <3>2, <4>1 DEF ProxiedIdle, Answering, Selecting
      <4>3. proxied[q].pc \notin Selecting
        BY <3>1, <3>4 DEF Sent, Answering, Selecting
      <4>4. UNCHANGED groups
        BY <3>2 DEF Observes, discoveryVars
      <4> QED BY <4>1, <4>2, <4>3, <4>4 DEF StillSelecting, Begins
    <3>5. CASE q # r
      BY <3>3, <3>5 DEF Observed, StillSelecting, Selecting
    <3> QED BY <3>4, <3>5
  <2>5. CASE ProxiedEnds(r)
    <3>1. q # r => proxied'[q] = proxied[q]
      BY <2>5 DEF ProxiedEnds, RequestTypes
    <3>2. q = r => proxied'[q] = ProxiedIdle
      BY <2>5 DEF ProxiedEnds, RequestTypes
    <3> QED BY <3>1, <3>2 DEF StillSelecting, ProxiedIdle, Selecting
  <2> QED BY <1>2, <2>1, <2>2, <2>3, <2>4, <2>5 DEF RequestStep
<1> QED BY <1>1, <1>2, RequestPart

\* What was steady stays ahead in the candidates of the selection.
LEMMA SteadyNext ==
  ASSUME RequestTypes, DiscoveryInv, SteadyAhead, UpstreamNext
  PROVE  SteadyAhead'
<1>1. steady' = [r \in UpClients |->
        IF proxied'[r].pc \notin Selecting THEN {}
        ELSE IF proxied[r].pc \notin Selecting THEN Regular'
        ELSE {b \in steady[r] \cap Regular' : groups'[b] = groups[b]}]
  BY DEF UpstreamNext, KeepSteady
<1>2. ASSUME NEW r \in UpClients, proxied'[r].pc \in Selecting, steady'[r] # {}
      PROVE  /\ proxied'[r].pc = "regular"
             /\ \A b \in steady'[r] :
                  /\ b \in Regular'
                  /\ b \in DOMAIN proxied'[r].todo /\ proxied'[r].todo[b] = groups'[b]
  <2>0. StillSelecting(r)
    BY <1>2, SelectingStep
  <2>1. CASE proxied[r].pc \notin Selecting
    <3>1. UNCHANGED groups /\ proxied'[r].pc = "regular" /\ proxied'[r].todo = groups
      BY <1>2, <2>0, <2>1 DEF StillSelecting, Selector, Exhausted
    <3>2. steady'[r] = Regular'
      BY <1>1, <1>2, <2>1
    <3>3. Regular' \subseteq DOMAIN groups'
      BY DEF Regular
    <3> QED BY <3>1, <3>2, <3>3
  <2>2. CASE proxied[r].pc \in Selecting
    <3>1. \A b \in steady'[r] : b \in steady[r] /\ b \in Regular' /\ groups'[b] = groups[b]
      BY <1>1, <1>2, <2>2
    <3>2. /\ proxied[r].pc = "regular"
          /\ \A b \in steady[r] :
               /\ b \in Regular
               /\ b \in DOMAIN proxied[r].todo /\ proxied[r].todo[b] = groups[b]
      BY <1>2, <2>2, <3>1 DEF SteadyAhead
    <3>3. CASE proxied'[r] = proxied[r]
      BY <3>1, <3>2, <3>3
    <3>4. ASSUME NEW c \in Backends, Visit(r, c), ~Eligible(r, c)
          PROVE  /\ proxied'[r].pc = "regular"
                 /\ \A b \in steady'[r] :
                      b \in DOMAIN proxied'[r].todo /\ proxied'[r].todo[b] = groups[b]
      <4>1. c \notin Regular
        BY <3>2, <3>4 DEF Eligible, Regular
      <4>2. Visited(r, c)
        BY <3>4, VisitEffect
      <4>3. proxied'[r].pc = "regular" /\ proxied'[r].todo = Unvisited(proxied[r].todo, c)
        BY <3>2, <3>4, <4>2 DEF Visited
      <4> QED BY <3>1, <3>2, <4>1, <4>3 DEF Unvisited
    <3>5. CASE Exhausted(r)
      <4>1. proxied[r].todo = <<>>
        BY <3>5 DEF Exhausted
      <4>2. DOMAIN proxied[r].todo = {}
        BY <4>1
      <4> QED BY <1>2, <3>1, <3>2, <4>2
    <3> QED BY <2>0, <2>2, <3>1, <3>3, <3>4, <3>5 DEF StillSelecting
  <2> QED BY <2>1, <2>2
<1> QED BY <1>1, <1>2 DEF SteadyAhead

\* The choice itself: the candidate is of the highest priority left, and what is
\* steady is left.
LEMMA SteadyPreferred ==
  ASSUME RequestTypes, DiscoveryInv, SteadyAhead, UpstreamNext, NEW r \in UpClients,
         proxied[r].pc \in Selecting, proxied'[r].pc = "sent", steady[r] # {}
  PROVE  /\ proxied[r].pc = "regular"
         /\ \A b \in steady[r] : groups[b] <= proxied[r].todo[proxied'[r].backend]
<1>1. \E b \in Backends : Visit(r, b) /\ Eligible(r, b)
  <2>1. PICK q \in UpClients : RequestStep(q)
    BY RequestPart DEF Selecting
  <2>2. CASE ProxiedArrive(q)
    BY <2>2 DEF ProxiedArrive, RequestTypes, Begins, Selecting
  <2>3. ASSUME NEW b \in Backends, Visit(q, b) PROVE Visit(r, b) /\ Eligible(r, b)
    <3>1. Visited(q, b)
      BY <2>3, VisitEffect
    <3>2. q = r
      BY <3>1 DEF Visited, RequestTypes, Selecting
    <3>3. Eligible(r, b)
      BY <3>1, <3>2 DEF Visited, Selecting
    <3> QED BY <2>3, <3>2, <3>3
  <2>4. CASE Exhausted(q)
    <3>1. Selector(proxied'[q]) /\ proxied' = [proxied EXCEPT ![q] = proxied'[q]]
      BY <2>4, ExhaustedEffect
    <3>2. r # q
      BY <3>1 DEF Selector, Selecting
    <3> QED BY <3>1, <3>2 DEF RequestTypes, Selecting
  <2>5. ASSUME NEW outcome \in Failing \cup {"healthy", "other", "unclassified"},
               ResponseFilter(q, outcome) \/ ErrorWhileProxy(q, outcome) \/ FailToConnect(q, outcome)
        PROVE  FALSE
    <3>1. Sent(proxied[q]) \/ Answering(proxied[q])
      BY <2>5, OutcomeStep
    <3>2. PICK after : Observes(q, outcome, after)
      BY <2>5, OutcomeStep
    <3>3. Observed(q, outcome, after)
      BY <3>1, <3>2, ObservesEffect
    <3>4. q # r
      BY <3>1 DEF Sent, Answering, Selecting
    <3>5. proxied'[r] = proxied[r]
      <4>1. ~Sent(proxied[r])
        BY DEF Sent, Selecting
      <4> QED BY <3>3, <3>4, <4>1 DEF Observed
    <3> QED BY <3>5 DEF Selecting
  <2>6. CASE ProxiedEnds(q)
    BY <2>6 DEF ProxiedEnds, RequestTypes, ProxiedIdle, Selecting
  <2> QED BY <2>1, <2>2, <2>3, <2>4, <2>5, <2>6 DEF RequestStep
<1>2. PICK c \in Backends : Visit(r, c) /\ Eligible(r, c)
  BY <1>1
<1>3. Visited(r, c)
  BY <1>2, VisitEffect
<1>4. proxied'[r].backend = c /\ c \in Candidates(proxied[r].todo)
  BY <1>2, <1>3 DEF Visited
<1> QED BY <1>4 DEF SteadyAhead, Candidates

\* A backend in service, ready and not tripped during the whole of a selection is
\* never passed over (PriorityGroupedIter and select_with_passive): not for a lower
\* priority, not for a probe, not for a fallback, whatever refreshes, checks and
\* outcomes of other requests happen between two candidates.
THEOREM SteadyIsPreferred == UpstreamSpec => PrefersSteady
<1>1. UpstreamInit /\ clock = 0 => SteadyAhead
  BY DEF UpstreamInit, SteadyAhead
<1>2. ASSUME RequestTypes, DiscoveryInv, SteadyAhead, UNCHANGED <<upstreamVars, clock>>
      PROVE  SteadyAhead'
  BY <1>2 DEF SteadyAhead, Regular, upstreamVars, requestVars, discoveryVars
<1>3. RequestTypes /\ DiscoveryInv /\ SteadyAhead /\ [UpstreamNext]_<<upstreamVars, clock>>
      => SteadyAhead'
  BY <1>2, SteadyNext
<1>4. RequestTypes /\ DiscoveryInv /\ SteadyAhead /\ [UpstreamNext]_<<upstreamVars, clock>>
      => [\A r \in UpClients :
            (proxied[r].pc \in Selecting /\ proxied'[r].pc = "sent" /\ steady[r] # {})
            => /\ proxied[r].pc = "regular"
               /\ \A b \in steady[r] : groups[b] <= proxied[r].todo[proxied'[r].backend]]_<<upstreamVars, clock>>
  BY SteadyPreferred
<1> QED BY <1>1, <1>3, <1>4, DiscoverySafe, RequestsSafe, PTL DEF UpstreamSpec, PrefersSteady
================================================================================
