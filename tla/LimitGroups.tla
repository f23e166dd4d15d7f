------------------------------- MODULE LimitGroups -------------------------------
(***************************************************************************)
(* The counters behind limit-count (plugins/limit_count.rs) across hot     *)
(* reloads: which configurations are accepted, which limits a request is   *)
(* held to, the registry of named groups with its weak entries, and the    *)
(* quota the client is told.  One behaviour is one fixed window: Rate only *)
(* counts up in it (LimitCount has the sliding window and its clock).      *)
(***************************************************************************)
EXTENDS Integers, FiniteSets, SequencesExt

CONSTANTS
  CountSnapshots,     \* sequence of snapshots: route -> limit-count configuration
  CountRequests,      \* request -> its route and the values of its variables ("" when absent)
  RegistryReclaim     \* registry.len() from which dead entries are reclaimed

VARIABLES
  countAt,            \* index of the published snapshot
  building,           \* route -> instance, the part of the next snapshot built so far
  serving,            \* route -> instance [config, state] of the published snapshot
  inFlight,           \* request -> [pc, instance, limits left]
  groups,             \* registry: group -> state, alive or not
  rates,              \* state -> the observations, <<window, key>> -> count
  verdicts            \* history: what each request was told by each limit

ASSUME GroupAssumption ==
  /\ CountSnapshots \in Seq(Range(CountSnapshots))
  /\ \A snapshot \in Range(CountSnapshots) : \A route \in DOMAIN snapshot :
       /\ \A g, h \in snapshot[route].group : g = h
       /\ \A m \in snapshot[route].main : m.count \in Nat
       /\ snapshot[route].missing \in {"allow", "deny", "default"}

groupVars == <<countAt, building, serving, inFlight, groups, rates, verdicts>>

----------------------------------------------------------------------------------
(* Configuration *)

MAX_WINDOW_SECS == 86400

\* parse_and_validate_plugin_config, validate_limit_count_shape and TryFrom: one of
\* main and rules, no group together with rules, distinct rule keys.
count_config_valid(c) ==
  /\ (c.main = {}) # (c.rules = <<>>)
  /\ \A m \in c.main : m.count >= 1 /\ m.window \in 1 .. MAX_WINDOW_SECS
  /\ \A i \in DOMAIN c.rules : c.rules[i].count >= 1 /\ c.rules[i].window \in 1 .. MAX_WINDOW_SECS
  /\ ~ (c.group # {} /\ c.rules # <<>>)
  /\ \A i, j \in DOMAIN c.rules : (c.rules[i].key = c.rules[j].key) => (i = j)

\* build_fixed_rates: the windows an instance registers.
build_fixed_rates(c) ==
  {m.window : m \in c.main} \cup {c.rules[i].window : i \in DOMAIN c.rules}

----------------------------------------------------------------------------------
(* Selection.  A template is a variable name; the key "" is a missing one. *)

\* An absent variable falls back to the client's address (apisix_key); a header or a
\* cookie selector does not.
resolve_main_key(c, vars) ==
  CASE c.keyType = "constant" -> c.key
    [] c.keyType = "var" /\ vars[c.key] # "" -> vars[c.key]
    [] c.keyType = "var" /\ vars[c.key] = "" -> vars["remote_addr"]
    [] c.keyType = "head" -> vars[c.key]

LimitOf(key, limit, fromRule) ==
  [key |-> key, count |-> limit.count, window |-> limit.window, fromRule |-> fromRule]

\* Every rule with a placeholder applies, under the empty key too.
select_limits(c, vars) ==
  IF c.rules # <<>>
  THEN LET templates == SelectSeq(c.rules, LAMBDA rule : rule.template)
       IN [i \in DOMAIN templates |-> LimitOf(vars[templates[i].key], templates[i], TRUE)]
  ELSE <<LimitOf(resolve_main_key(c, vars), CHOOSE m \in c.main : TRUE, FALSE)>>

\* handle_missing_key: the limits left when the plugin-level key is missing.
handle_missing_key(c, limit) ==
  CASE c.missing = "allow" -> [verdict |-> "pass", limits |-> <<>>]
    [] c.missing = "deny" -> [verdict |-> "reject", limits |-> <<>>]
    [] c.missing = "default" ->
         [verdict |-> "count", limits |-> <<[limit EXCEPT !.key = "_default_rate_limit_key"]>>]

\* What request_filter does before it counts.
FirstVerdict(c, vars) ==
  LET limits == select_limits(c, vars) IN
  CASE limits = <<>> ->
         [verdict |-> IF c.allowDegradation THEN "pass" ELSE "reject", limits |-> <<>>]
    [] limits # <<>> /\ limits[1].key = "" /\ ~ limits[1].fromRule ->
         handle_missing_key(c, limits[1])
    [] OTHER -> [verdict |-> "count", limits |-> limits]

----------------------------------------------------------------------------------
(* The registry *)

NoInstance == [config |-> <<>>, state |-> 0]

StatesOf(instances) == {instances[route].state : route \in DOMAIN instances}

Alive(state) ==
  \/ state \in StatesOf(serving) \cup StatesOf(building)
  \/ \E r \in DOMAIN inFlight : inFlight[r].instance.state = state

\* Mutant of Reclaimed: a full registry is emptied.
ReclaimedAll(registry) ==
  IF Cardinality(DOMAIN registry) >= RegistryReclaim THEN <<>> ELSE registry

Reclaimed(registry) ==
  IF Cardinality(DOMAIN registry) >= RegistryReclaim
  THEN [g \in {h \in DOMAIN registry : Alive(registry[h])} |-> registry[g]]
  ELSE registry

\* registry.get(group).and_then(Weak::upgrade), as a set of at most one state.
UpgradedState(registry, group) ==
  {registry[g] : g \in {h \in DOMAIN registry \cap group : Alive(registry[h])}}

\* group_state.  A state without a group belongs to its instance alone.
GroupState(c) ==
  LET registry == IF c.group = {} THEN groups ELSE Reclaimed(groups)
      found == UpgradedState(registry, c.group)
      state == IF found = {} THEN Len(rates) + 1 ELSE CHOOSE s \in found : TRUE
  IN [state |-> state,
      groups |-> [g \in DOMAIN registry \cup c.group |->
                    IF g \in c.group THEN state ELSE registry[g]],
      rates |-> IF found = {} THEN Append(rates, <<>>) ELSE rates]

----------------------------------------------------------------------------------
(* Reloads *)

GroupsInit ==
  /\ countAt = 0
  /\ building = <<>> /\ serving = <<>>
  /\ inFlight = [r \in DOMAIN CountRequests |->
                   [pc |-> "new", instance |-> NoInstance, limits |-> <<>>]]
  /\ groups = <<>> /\ rates = <<>> /\ verdicts = <<>>

Candidate == CountSnapshots[countAt + 1]

\* The routes of a candidate are compiled in the order of a HashMap: any order.  An
\* unchanged one keeps its instance.
CompileRoute(route) ==
  LET c == Candidate[route]
      kept == route \in DOMAIN serving /\ serving[route].config = c
      made == GroupState(c)
  IN /\ countAt < Len(CountSnapshots)
     /\ route \in DOMAIN Candidate \ DOMAIN building
     /\ count_config_valid(c)
     /\ building' = [x \in DOMAIN building \cup {route} |->
                       IF x # route THEN building[x]
                       ELSE IF kept THEN serving[route] ELSE [config |-> c, state |-> made.state]]
     /\ groups' = IF kept THEN groups ELSE made.groups
     /\ rates' = IF kept THEN rates ELSE made.rates
     /\ UNCHANGED <<countAt, serving, inFlight, verdicts>>

\* Another route of the candidate does not compile, or it is superseded.
CandidateDropped ==
  /\ building # <<>>
  /\ Len(rates) <= Len(CountSnapshots)  \* bound
  /\ building' = <<>>
  /\ UNCHANGED <<countAt, serving, inFlight, groups, rates, verdicts>>

CountersPublished ==
  /\ countAt < Len(CountSnapshots)
  /\ DOMAIN building = DOMAIN Candidate
  /\ countAt' = countAt + 1
  /\ serving' = building
  /\ building' = <<>>
  /\ UNCHANGED <<inFlight, groups, rates, verdicts>>

----------------------------------------------------------------------------------
(* Requests *)

\* A request reaches the plugin of its route with the snapshot it has pinned.
LimitRequest(r) ==
  LET route == CountRequests[r].route
      first == FirstVerdict(serving[route].config, CountRequests[r].vars)
  IN
  /\ inFlight[r].pc = "new"
  /\ route \in DOMAIN serving
  /\ inFlight' = [inFlight EXCEPT ![r] =
                    [pc |-> IF first.verdict = "count" THEN "count" ELSE "end",
                     instance |-> serving[route], limits |-> first.limits]]
  /\ UNCHANGED <<countAt, building, serving, groups, rates, verdicts>>

\* check_rate_limit, build_rate_limit_headers and, for what is limited,
\* handle_rate_limit.  Rate::observe counts the limited ones too.
ObserveFixed(r) ==
  LET limit == Head(inFlight[r].limits)
      instance == inFlight[r].instance
      at == <<limit.window, limit.key>>
      counts == rates[instance.state]
      count == (IF at \in DOMAIN counts THEN counts[at] ELSE 0) + 1
      limited == count > limit.count
      left == Tail(inFlight[r].limits)
  IN /\ inFlight[r].pc = "count"
     /\ rates' = [rates EXCEPT ![instance.state] =
                    [x \in DOMAIN counts \cup {at} |-> IF x = at THEN count ELSE counts[x]]]
     /\ verdicts' = Append(verdicts,
                       [config |-> instance.config, at |-> at,
                        limit |-> limit.count, allowed |-> ~ limited,
                        remaining |-> IF limited THEN 0 ELSE limit.count - count])
     /\ inFlight' = [inFlight EXCEPT ![r] =
                       [pc |-> IF limited \/ left = <<>> THEN "end" ELSE "count",
                        instance |-> instance, limits |-> left]]
     /\ UNCHANGED <<countAt, building, serving, groups>>

LimitEnds(r) ==
  /\ inFlight[r].pc = "end"
  /\ inFlight' = [inFlight EXCEPT ![r] =
                    [pc |-> "done", instance |-> NoInstance, limits |-> inFlight[r].limits]]
  /\ UNCHANGED <<countAt, building, serving, groups, rates, verdicts>>

GroupsNext ==
  \/ \E i \in DOMAIN CountSnapshots : \E route \in DOMAIN CountSnapshots[i] : CompileRoute(route)
  \/ CandidateDropped \/ CountersPublished
  \/ \E r \in DOMAIN CountRequests :
       LimitRequest(r) \/ ObserveFixed(r) \/ LimitEnds(r)

GroupsSpec == GroupsInit /\ [][GroupsNext]_groupVars

----------------------------------------------------------------------------------
(* Properties *)

\* Is the group configured in every snapshot published so far?
Lasting(group) ==
  \A i \in 1 .. countAt : \E route \in DOMAIN CountSnapshots[i] :
    CountSnapshots[i][route].group = group

\* The verdicts given on one counter: those of a lasting group under one window and
\* key, whichever instance gave them.
OnCounter(group, at) == {i \in DOMAIN verdicts : verdicts[i].config.group = group /\ verdicts[i].at = at}

\* Routes of one group share their counters, also while a reload replaces the plugin
\* instances of some of them, candidates are dropped half-built and the registry is
\* reclaimed: as long as the group stays configured, a limit of L lets L requests of
\* a window pass in all, and each was told how many are left.
GroupCountsJointly ==
  \A i \in DOMAIN verdicts :
    LET v == verdicts[i]
        all == OnCounter(v.config.group, v.at)
        place == Cardinality({j \in all : j <= i})
    IN (v.config.group # {} /\ Lasting(v.config.group)) =>
         /\ Cardinality({j \in all : verdicts[j].allowed /\ verdicts[j].limit = v.limit}) <= v.limit
         /\ v.remaining = IF place > v.limit THEN 0 ELSE v.limit - place
================================================================================
