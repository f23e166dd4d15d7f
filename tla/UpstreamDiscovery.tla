---------------------------- MODULE UpstreamDiscovery ----------------------------
(***************************************************************************)
(* Service discovery of one upstream (proxy/upstream/discovery.rs): nodes  *)
(* given by IP and nodes given by DNS name, resolved once before the       *)
(* candidate is compiled and refreshed by the load balancer's background   *)
(* task.  Each DNS node keeps its last answer for StaleTtl.  A backend is  *)
(* its Pingora identity, address and weight; groups, the priority groups   *)
(* of selection.rs, maps the backends in service to their priorities.      *)
(***************************************************************************)
EXTENDS MonotonicClock, FiniteSetsExt

CONSTANTS
  NodeSets,         \* upstreams: [dns : host -> priority, literal : backend -> priority]
  Backends,
  StaleTtl,         \* DNS_STALE_TTL
  RefreshTimeout,   \* dns_resolution_timeout
  MaxRefreshes      \* bound: background refreshes

ASSUME DiscoveryAssumption ==
  /\ \A n \in NodeSets : DOMAIN n.literal \subseteq Backends
  /\ StaleTtl \in Nat /\ RefreshTimeout \in Nat \ {0} /\ MaxRefreshes \in Nat

VARIABLES
  nodes,            \* the enabled nodes of the upstream, never changed
  lkg,              \* DnsLkgState of each DNS node: its last answer and when
  refresh,          \* the refresh under way
  groups,           \* what requests select from
  refreshes,
  answered          \* history: the last answer of each DNS node and when, the
                    \* answer to the preparation included

discoveryVars == <<nodes, lkg, refresh, groups, refreshes, answered>>

Hosts == DOMAIN nodes.dns
NoAnswer == [backends |-> {}, at |-> -1]
Never == [backends |-> {}, at |-> -1, to |-> "nobody"]
NotRefreshing == [pc |-> "idle"]

\* insert_backend: of several priorities of one identity the highest stays.
InsertBackend(priorities) == Max(priorities)

\* HybridDiscovery::discover, from what each DNS node contributed.
Combined(found) ==
  LET of(b) == {nodes.dns[h] : h \in {g \in Hosts : b \in found[g]}}
               \cup {nodes.literal[c] : c \in {b} \cap DOMAIN nodes.literal}
  IN [b \in DOMAIN nodes.literal \cup UNION {found[h] : h \in Hosts} |-> InsertBackend(of(b))]

\* prepare_upstream resolves with a discovery of its own, whose last-known-good
\* state is dropped with it; LB::from_prepared installs the result.  A node that
\* fails contributes nothing; an empty result is an error.
DiscoveryInit ==
  /\ nodes \in NodeSets
  /\ \E found \in [Hosts -> SUBSET Backends] :
       /\ groups = Combined(found)
       /\ DOMAIN groups # {}
       /\ answered = [h \in Hosts |-> IF found[h] = {} THEN Never
                       ELSE [backends |-> found[h], at |-> 0, to |-> "preparation"]]
  /\ lkg = [h \in Hosts |-> NoAnswer]
  /\ refresh = NotRefreshing
  /\ refreshes = 0

\* SeededDiscovery::discover once the prepared backends are taken: all lookups
\* run at the same time.
RefreshStarts ==
  /\ refresh.pc = "idle"
  /\ refreshes < MaxRefreshes
  /\ refreshes' = refreshes + 1
  /\ refresh' = [pc |-> "lookup", started |-> clock, pending |-> Hosts,
                 found |-> [h \in Hosts |-> {}], failed |-> {}]
  /\ UNCHANGED <<nodes, lkg, groups, answered, clock>>

Answers(h, backends) ==
  refresh' = [refresh EXCEPT !.pending = @ \ {h}, !.found[h] = backends]

\* DnsDiscovery::discover, a non-empty answer.
LookupAnswers(h, backends) ==
  /\ refresh.pc = "lookup" /\ h \in refresh.pending
  /\ lkg' = [lkg EXCEPT ![h] = [backends |-> backends, at |-> clock]]
  /\ answered' = [answered EXCEPT ![h] =
                    [backends |-> backends, at |-> clock, to |-> "refresh"]]
  /\ Answers(h, backends)
  /\ UNCHANGED <<nodes, groups, refreshes, clock>>

\* Mutant of AfterFailure: using the old answer makes it young again.
AfterFailureRenewed(h) == [lkg EXCEPT ![h].at = clock]

AfterFailure(h) == lkg

\* lkg_backends.
LkgUsable(h) == lkg[h].at # NoAnswer.at /\ Since(clock, lkg[h].at) <= StaleTtl

\* DnsDiscovery::discover, an empty answer or an error: the last-known-good
\* answer if it is young enough.
LookupFails(h) ==
  /\ refresh.pc = "lookup" /\ h \in refresh.pending
  /\ IF LkgUsable(h)
     THEN /\ lkg' = AfterFailure(h)
          /\ Answers(h, lkg[h].backends)
     ELSE /\ refresh' = [refresh EXCEPT !.pending = @ \ {h}, !.failed = @ \cup {h}]
          /\ UNCHANGED lkg
  /\ UNCHANGED <<nodes, groups, refreshes, answered, clock>>

\* Mutant of DiscoveryErr: failures are only logged.
DiscoveryErrLogged(found) == FALSE

DiscoveryErr(found) == DOMAIN Combined(found) = {} /\ refresh.failed # {}

\* Pingora's update: replaces the backends, and with them the priority groups, at
\* once.  Priorities are not part of a backend's identity, so a set of the same
\* identities may be taken for no change.
Install(new) ==
  \/ groups' = new
  \/ DOMAIN new = DOMAIN groups /\ UNCHANGED groups

RefreshEnds ==
  /\ refresh.pc = "lookup" /\ refresh.pending = {}
  /\ IF DiscoveryErr(refresh.found) THEN UNCHANGED groups
     ELSE Install(Combined(refresh.found))
  /\ refresh' = NotRefreshing
  /\ UNCHANGED <<nodes, lkg, refreshes, answered, clock>>

\* The timeout in SeededDiscovery::discover: the backends stay as they are.
RefreshTimesOut ==
  /\ refresh.pc = "lookup" /\ refresh.pending # {}
  /\ Since(clock, refresh.started) >= RefreshTimeout
  /\ refresh' = NotRefreshing
  /\ UNCHANGED <<nodes, lkg, groups, refreshes, answered, clock>>

DiscoveryNext ==
  \/ RefreshStarts
  \/ \E h \in Hosts :
       \/ \E backends \in (SUBSET Backends) \ {{}} : LookupAnswers(h, backends)
       \/ LookupFails(h)
  \/ RefreshEnds
  \/ RefreshTimesOut

--------------------------------------------------------------------------------
(* Properties. *)

\* A refresh changes what is in service.
Refreshed == refresh.pc = "lookup" /\ refresh.pending = {} /\ groups' # groups

RecentlyGood(h) ==
  answered[h].to # "nobody" /\ Since(clock, answered[h].at) <= StaleTtl

\* A refresh that changes the backends takes every DNS node at its last answer, or
\* not at all: a node whose last answer to a refresh is within DNS_STALE_TTL keeps
\* its backends however its lookups failed since, and no backend stays whose
\* nodes had all answered without it or longer ago than that, however many
\* failures were bridged in between.
RefreshHonoursLkg ==
  [][Refreshed =>
       /\ \A h \in Hosts :
            (RecentlyGood(h) /\ answered[h].to = "refresh")
            => answered[h].backends \subseteq DOMAIN groups'
       /\ \A b \in DOMAIN groups' \ DOMAIN nodes.literal : \E h \in Hosts :
            b \in answered[h].backends /\ answered[h].at + StaleTtl >= refresh.started
    ]_<<discoveryVars, clock>>

\* "A transient resolver failure must not evict a recently-good node": a node
\* that answered within DNS_STALE_TTL, be it to the preparation of the candidate,
\* keeps its backends through a refresh.
TransientFailureKeepsNode ==
  [][Refreshed =>
       \A h \in Hosts :
         RecentlyGood(h) => answered[h].backends \subseteq DOMAIN groups'
    ]_<<discoveryVars, clock>>
================================================================================
