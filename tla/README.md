# A TLA+ verification of pingsix

pingsix is an API gateway on top of pingora. Its configuration (routes, services,
upstreams, global rules, certificates) lives in etcd or in a YAML file; the gateway
validates it, compiles it into an immutable runtime snapshot and swaps that snapshot
under the data plane. This directory models the parts of the gateway where several
tasks share state, checks the models with TLC on small instances and proves the most
important results with TLAPS for every value of the constants.

Paths below are relative to the crate's `src/`.

## 1. Inventory

| Part | State it keeps | Operations | Talks to |
|---|---|---|---|
| Configuration store (`config/etcd/store.rs`, seam in `proxy/graph_mutation/store.rs`) | resources with their mod revisions, the generation guard | `snapshot`, `compare_and_swap`, `get_exact`, `list_kind` | etcd |
| Admin API (`admin/mod.rs`) and mutations (`graph_mutation/authority.rs` `put`, `delete`; `decode.rs`, `secrets.rs`) | one snapshot and one commit per request | restore redacted secrets, validate the candidate graph, plan, commit, record as pending, answer | store, authority |
| Configuration graph authority (`graph_mutation/state.rs`, `authority.rs`) | lifecycle, generation, target, committed graph, cancellation token, worker channel and handle, publication registry | `replace_all`, `apply_watch`, `submit`, the preparation worker, `shutdown` | sync task, runtime, status |
| etcd sync (`config/etcd/sync.rs`) | client, watch position | `list`, `watch`, `run_sync_loop` | etcd, authority, status |
| Status (`core/status.rs`) | connection, outage, reconnect fence, revisions, last error | one critical section per method | everybody; the readiness probe |
| Runtime (`proxy/runtime.rs`, `proxy/control_plane/*`) | the published snapshot, the active health checks | `compile`, `publish` | authority, health checks, data plane |
| Health checks (`proxy/upstream/health_check.rs`) | registrations with generations, running tasks | register, unregister, discard, executor | runtime, load balancers |
| Upstreams (`proxy/upstream/{load_balancer,selection,discovery}.rs`) | backend sets, selection state, DNS caches | background update, select, retry | health checks, requests |
| Limiters (`plugins/limit_{count,conn,req}.rs`, `limiting.rs`, `limiter_shards.rs`) | counters per key | acquire, release, window expiry | requests |
| Circuit breaker (`plugins/api_breaker.rs`) | failure counts, open interval | admit, record outcome | requests |
| Plugin pipeline (`core/plugin/*`, `service/http.rs`) | per-request context | phases, early responses, logging | plugins, upstreams |
| Cache (`plugins/cache.rs`, `cache/http.rs`) | cache key and variance of a request | lookup, admission, purge | requests |
| Logs (`logging/mod.rs`, `plugins/file_logger.rs`) | bounded queue, current file | enqueue, write, rotate, flush | requests |
| Routing and TLS (`proxy/route.rs`, `ssl.rs`, `service.rs`, `global_rule.rs`) | immutable indexes | match | runtime, requests |
| Authentication (`plugins/{key,jwt,basic}_auth.rs`) | the request's credential marks | verify, hide | requests, cache |
| Secrets (`utils/encryption.rs`, `graph_mutation/secrets.rs`) | the keyring | seal, open, mask, restore | Admin API, store |
| Bodies (`plugins/response_rewrite.rs`, `request_validation.rs`, `client_control.rs`, `grpc_web.rs`, `ai_proxy/*`) | buffers in the request's context | hold back, validate, transform, release | requests |
| Mirror (`plugins/proxy_mirror.rs`) | permits, one queue and task per request, the resolved address | sample, copy, look up, send | requests, DNS |
| Other plugins | none across requests | transform one request or response | requests |

What is hard in it, and what each part must guarantee:

* **Store and mutations.** Several requests, several gateways and foreign tools write
  concurrently; each request validated a snapshot that may be old when it commits, and a
  reply may be lost after the write. Right means: the stored graph is always valid, and a
  redacted secret never overwrites a newer one.
* **Authority.** A submission replaces the target while the worker prepares, retries or
  waits on an older one; candidates are compiled without the write lock; the signal
  channel has one slot; shutdown races with submission. Right means: what is published is
  the latest target, nothing submitted is forgotten, outcomes are reported of the
  revisions they belong to, shutdown ends.
* **Sync.** Lists, batches with several events of a key, bad data, closed streams and
  outages in any order. Right means: the data plane runs exactly what etcd held at the
  revision it reports, and converges to the latest good configuration.
* **Status.** Reports of four actors interleave. Right means: readiness comes back after
  every outage, and not too early.
* **Health checks.** `publish` registers, stores and discards while an executor on another
  runtime learns of it through a lossy broadcast channel, checks die and the process stops.
  Right means: the load balancers in use are checked, each by one task, nothing else is,
  and nothing is left at shutdown.
* **Upstreams.** A request walks the candidates while refreshes, checks and other requests'
  outcomes change them; lookups fail one by one; outcomes arrive after the state they were
  sent under has changed. Right means: a backend that is good all the time is not passed
  over, no failure empties the upstream, a trip and a recovery are earned, probes are few.
* **Limiters and breaker.** Requests read a clock or look a counter up, are overtaken, and
  act on what they saw; maps are bounded and forget; requests are cancelled half-way;
  responses arrive long after the state they were admitted under has changed. Right means:
  no slot leaks, no key gets more than its rate or window, a trip holds as long as it says,
  and routes of one group count together across reloads.
* **Compilation.** A new snapshot takes over every object nothing relevant changed for,
  directly or through services, upstreams and the plugins that name them. Right means: no
  stale object survives, and none is rebuilt (losing its state) without need.
* **Requests.** Snapshots are published between any two plugin calls; any of them may reject
  or fail; retries repeat phases. Right means: a request runs the plugins of one snapshot in
  order, is answered once and logged once.
* **Cache.** A response stored under one configuration and consumer meets others later, with
  credentials in headers, queries and cookies, hidden or not by then, recognised before or
  after the cache was switched on. Right means: a hit belongs to the request it answers.
* **Routing.** Matchers are filled one resource at a time. Right means: route and
  certificate are those the documentation describes, in whatever order they were inserted.
* **Bodies.** Several plugins hold back and replace one body that arrives in chunks cut
  anywhere. Right means: the outcome is that of the whole body.
* **Mirror.** Tasks share a lookup whose leader may be aborted; queues fill; instances are
  retired. Right means: a copy is whole or given up, and nobody waits for ever.
* **Admin API and secrets.** Masked bodies come back after the resource or the keyring has
  changed. Right means: what a gateway loads is what clients asked for.
* **Log.** Producers never wait; the writer rotates, loses its file and is shut down while
  they go on. Right means: a line is kept once, in order, or lost for a reason the code
  knows of.

## 2. Modules

| Module | Models | Uses |
|---|---|---|
| `GraphStore` | etcd as the code uses it, Admin PUT/DELETE up to the CAS, other writers | - |
| `PublicationRegistry` | the bounded registry of outcomes, as operators | - |
| `StatusStore` | readiness, as operators on one record | - |
| `ConfigurationGraph` | `submit`, the preparation worker, `shutdown` | the three above |
| `EtcdSync` | list, watch, relist | `ConfigurationGraph` |
| `ControlPlane` | the composition, its fairness and its properties | `EtcdSync` |
| `ConfigReplica` | abstract: a copy that moves forward in a log of configurations | - |
| `HealthChecks` | the check side of `RuntimeStore::publish`, the registry, the executor, the checks | - |
| `BoundedShard` | one shard of the limiters' bounded map, as operators | - |
| `MonotonicClock` | `Instant`, read now and used later | - |
| `LimitConn` | concurrent requests per key | `BoundedShard` |
| `LimitReq`, `LimitCount`, `ApiBreaker` | the leaky bucket, the sliding window, the breaker | `BoundedShard`, `MonotonicClock` |
| `UpstreamDiscovery` | DNS and literal nodes of an upstream, last-known-good answers, refreshes | `MonotonicClock` |
| `ProxyUpstream` | selection by priority and health, passive checking, probes, outcomes, retries | `UpstreamDiscovery` |
| `Ordering` | sorting a set, filtering a sequence, looping over one, as choices and recursive functions | - |
| `LogWriter` | the process log: channel, buffered file, rotation, stderr fallback, drain | - |
| `FileLogger` | the file-logger plugin: bodies, queue, writer thread, replacement | - |
| `LimitGroups` | limit-count's configurations, limits of a request, registry of groups | - |
| `PluginPipeline` | one request through all phases while snapshots are published | `Ordering` |
| `AuthPlugins` | key-auth, jwt-auth and basic-auth, credential marks of the context | - |
| `ResponseCache` | policy, key, isolation, variance, admission, purge, reloads | `AuthPlugins` |
| `Routing` | the route matcher and the certificate matcher | `Ordering` |
| `SnapshotCompile` | gate, reuse plan, preparation, compilation, publication | - |
| `AiProxy` | configuration, endpoint and transformation of ai-proxy, as operators | - |
| `BodyFilters` | the stack of plugins that see bodies, chunk by chunk | `AiProxy` |
| `ProxyMirror` | mirrored requests, their tasks, the shared lookup | - |
| `AdminApi` | the Admin handlers, masks, envelopes, keyrings | - |
| `MCControlPlane`, `MCScenarios`, `MCHealthChecks`, `MCTraffic`, `MCDataPlane` | instances for TLC. `MCScenarios` looks at the control plane in one environment per behaviour, `MCTraffic` and `MCDataPlane` at one part of the data plane per behaviour | |
| `ControlPlaneProofs`, `PublicationProofs`, `HealthChecksProofs`, `ProxyUpstreamProofs`, `ShardProofs`, `LimiterProofs`, `DataPlaneProofs`, `RequestProofs` | theorems and the lemmas they rest on | the modules they are about |

How state and actions correspond to the code:

* A variable has the name of its field where it has one (`latestGeneration`, `target`,
  `committed`, `activeCancellation`, `workerTx`, `workerTask`, `records`). The status and
  the registry are values updated by operators, because each of their methods is one
  critical section.
* One action is one critical section or one stretch between awaits. `submit` takes eight
  of them (`sub.pc`); it holds `write_lock` throughout, but the worker's unlocked reads,
  `shutdown` and the registry readers can come between any two.
* The worker's program counter `wpc[w]` names where its task is suspended.
  `prepare_latest` is `Take .. Commit`; returning `Settled` is going back to `recv`.
  `attempted` and `job` are two variables, because the code reads the target twice.
* `history[r + 1]` is etcd's graph at revision r and `written[r]` the key written there:
  lists and watch responses are computed from the two, so a watch response may end at any
  revision, split or merge transactions' events by revision, and repeat keys.
* Bodies are opaque. Three CONSTANT predicates stand for the pure code: `Valid`
  (`validate_config_set`), `Decodes` (`decode_graph`) and `Compiles` (`build_prepared`
  and `RuntimeSnapshot::compile`). They are arbitrary in the proofs.
* `runtime.publish` cannot fail (its only `return` is `Ok`), so `Fence` has no error arm.
* In `HealthChecks` a generation is a position in `registrations`, the sequence of all
  registrations ever made; a service carries what tells two `Arc`s apart (`built`) and its
  fingerprint (`print`). `DashMap` is iterated key by key, so an enumeration is not a
  snapshot. `running` and `awaiting` are the `JoinHandle`s the executor holds and `alive`
  the tasks that really execute: the property is that the two agree.
* A limiter's shard is `[entries, order]`, and an eviction predicate is the set of keys
  that satisfy it at that moment. A critical section under the shard's lock is one action;
  reading the clock, `fetch_add` and `fetch_sub` are actions of their own. `LimitConn`
  keeps every `ConnState` ever made in `counts`, since a request's `Arc` outlives the
  map's entry.
* In `LimitReq` time is counted so that a bucket drains one unit per tick and a request
  costs `Cost` units; `born`, `passed` and `movedBack` of a bucket, `passed` in
  `LimitCount` and `history` in `ApiBreaker` are history variables for the properties.
* In `ProxyUpstream` a request visits one candidate per action, highest priority first and
  in any order within a group: that is what the cursor of `selection.rs` yields whatever
  the algorithm draws, since it enumerates what the draws missed. `proxied[r].pc` names the
  attempt of `select_with_passive` it is in. A backend is address and weight; `groups` is
  the selector a `select_with` loads, with the priorities Pingora's equality ignores, so a
  refresh that only changes priorities may be taken for no change (`Install`). `answered`,
  `steady`, `streak`, and `freed` of a request, are history variables.
* In `LogWriter` a line is its number, sizes count lines, and `logFile.buffer` holds what
  was written and is not known to be on disk: the `BufWriter` and the write that tokio's
  `File` does in the background, whose error a later call reports. A failing call may have
  written any prefix of it. `try_send` is one step; rotation External and Disabled are the
  case of a limit that is not reached. `lost` is a history variable.
* In `PluginPipeline` a plugin is the set of phases it acts in and may continue, reject or
  fail in each; one call is one action, so `PublishSnapshot` comes between any two. The
  order of the callbacks and what pingora does between them is external.
* In `ResponseCache` a *site* is what a snapshot holds for the route; pingora's storage is a
  function from keys and variances to responses. Digests are the values they are taken of.
  Each proxy-cache instance has its own no-cache flag; the context holds those that are set.
* In `Routing` a URI is a sequence of segments and a host its labels from the right.
  matchit's choice is written as "the most specific pattern, segment by segment"; the
  reference definition in the property compares all routes at once instead.
* In `SnapshotCompile` an `Arc` is the attempt that built it and its place in the graph, so
  that sharing is visible. Each pass of `build_prepared` is an operator; the preparation of
  upstreams may fail for any subset of the names.
* In `BodyFilters` a byte is an abstract fragment and a body is cut in every possible way;
  `exchange` fixes plugins, request and answer. `None`, an empty chunk and the end of the
  stream are three different things, as they are for pingora.
* In `ProxyMirror` the resolver's `Notify` is the `woken` flag of its followers; the abort of
  a task, a timeout and the retirement of an instance may strike at every await.
* In `AdminApi` a resource is the sequence of its secret leaves and an envelope is
  `<<key, text>>`: the cipher is ideal. A gateway may restart with another keyring at any
  time, which also stands for several gateways on one store.
* `ControlPlane` implements `ConfigReplica` with `history` as the log and `runtime` as the
  copy (`ImplementsReplica`).
* In `take`, the target cannot be absent once a signal was sent; the arm is there because
  the code has it.

## 3. Runs

| Run | Checks |
|---|---|
| `control_plane` | `StoredGraphsValid`, `RedactedPutKeepsSecret`, `PublishedIsEtcdState`, `PublishesLatestTarget`, `NoLostWakeup`, `RecordsTruthful`, `ImplementsReplica` |
| `control_plane_live` | `Converges`, `ReadinessReturns`, `ShutdownCompletes`, under `FairSpec` |
| `health_checks` | `OneOwnedTask`, `ServedIsRegistered`, `ServedNotTakenDown`, `Reconciled`, `ExecutorShutdown` |
| `traffic` | `CountsExact`, `OverflowOnlyWhenBusy` (limit-conn); `WithinRate` (limit-req); `SlidingExact` (limit-count); `BreakerConsistent`, `RecoveryEarned` (api-breaker); `RefreshHonoursLkg`, `NeverWithoutBackend`, `PrefersSteady`, `ProbesOneAtATime`, `RotationEarned` (upstreams); `LinesAccounted` (process log) |
| `data_plane` | `RequestSettled` (pipeline), `CacheHitsBelong` (cache), `RoutedAsDocumented`, `CertificateMostSpecific` (routing), `SnapshotCoherent`, `UntouchedKept` (compilation), `FileLogAccounted` (file-logger), `GroupCountsJointly` (limit-count's groups), `BodiesWhole`, `ProviderRequestSound` (bodies, ai-proxy), `MirrorWhole` (mirror), `SecretsSurvive`, `AdminWritesSealed` (Admin API) |
| `never_resurrected`, `reconnect_fence`, `data_error_readiness`, `transient_dns_failure`, `no_split_guards`, `masked_list_edit`, `static_routes` | violated, see section 6 |

The control plane's scenarios limit only the environment. `store`: two Admin requests
with two secrets on a route that needs an upstream, and, on the upstream alone, together with
writers that ignore the guard; 4 revisions. `watch`: the
sync task and a worker follow a store that others write, with good, uncompilable and
undecryptable upstreams, the invalid graph (a route without its upstream), foreign writes and a
fault, 3 revisions. `admin`: a request whose own write comes back through the watch before
it is recorded, with a registry of capacity 1. `settles`: a malformed key, good and
uncompilable bodies and a fault, ending in a good graph. `stops`: a shutdown at any moment,
with two workers so that a second spawn is possible.

Bounds. `MaxRevision` 3 or 4 counts from an empty cluster at revision 1, so two or three
writes happen: enough for a candidate to be overtaken, rejected and replaced, for a batch
with two events of a key, and for two requests to conflict and a third writer to
interfere. `MaxFaults` 1 gives one outage with everything before and after it; the first
list failing is one of its places. The registry's capacity is 1 instead of 128 so
that trimming happens. The theorems below remove these bounds for what they prove.

For the health checks two publications are enough to add, keep, replace and remove each of
two keys, and a channel of one update loses one whenever two follow each other. For the
traffic plugins the map has two slots so that the third key finds it full and the fourth
finds the overflow bucket in use; `Budget` 2 lets the sweep look behind a busy entry;
six requests trip a breaker of two failures, interrupt a recovery and complete it.
An upstream comes in three parts, because their product is too large. Refreshes alone: three,
since a wrongly renewed answer shows in the second failure after it. One request among
refreshes: any stage of its selection can meet the swap, all backends unready or nothing but
tripped ones. Two concurrent requests, three in all, without refreshes: enough to trip a
backend, probe it twice and free the first lease by a late outcome; only the backup
changes its active health there. The lease, the stale TTL and the timeouts are one tick or none.
Six log lines fill a file past its limit with a batch of one, rotate it twice with backups
already there, and leave lines in the channel for the drain.
`MaxSkew` bounds the time between reading the clock and taking the lock in `LimitCount` by
less than a window: the two are adjacent statements, and a window is at least a second. A
request that is overtaken there makes the window short by as much, which `SlidingExact` allows:
with a limit of two, a window of three ticks and a skew of one, TLC finds it.

The parts of `data_plane`, defined in `MCDataPlane`:

* *pipeline*: three snapshots (global rules, a plugin that route and service both configure,
  exit transformers; a rule and a service only; no route at all), one retry, bodies of one
  chunk. A phase interrupted by a publication, by a rejection and by a failure all occur.
* *cache*: two clients and four histories of two sites each: authentication in front of the
  cache, a global cache in front of it, credentials in cookies and tokens, variants with
  purge and bypass, asked over http and https and for two hosts. Two sites are enough for a
  response to outlive its configuration, three seconds for it to expire and to be served stale.
* *routing*: five tables and two certificate sets, inserted in every order, asked with every
  combination of the hosts, URIs and methods that tell the patterns apart.
* *compile*: every sequence of two of 288 graphs: an upstream that changes, references and
  embedded upstreams in routes, services, global rules and traffic-split, duplicate nodes,
  dangling references. A dependency is at most three references long, so two compilations
  show whether it was followed.
* *file-logger*: two requests, a reload under them, a queue and a drain budget of one line.
* *groups*: three snapshots in which routes share, change and leave a group, candidates
  dropped half-built, a registry reclaimed from one entry on (128 in the code).
* *bodies*: about 140 exchanges of up to four plugins, bodies of up to five bytes cut in every way,
  buffers that just hold them and that do not.
* *mirror*: two requests of one instance, a queue of one chunk, zero or one of two permits
  in use elsewhere, two ticks for the address to age past its TTL and its grace.
* *admin*: a resource with up to two secrets and a certificate, four keyrings, every kind of
  good and bad request.

`CHECK_DEADLOCK FALSE` is set because the systems really do come to rest: when no more
writes come everything waits on the watch, and when no more requests come the plugins and
the executor wait.

Fairness (`FairSpec`). Weak fairness of the sync task, of the submission it is making, of
each worker and of shutdown: they are tokio tasks, polled whenever they can go on. Strong
fairness of `Fence`: the worker that wants `write_lock` gets it, since the sync task
sleeps between its attempts. Strong fairness of `SyncStops`: the select in
`run_sync_loop` is biased to the shutdown signal. Strong fairness of `PrepareOk`: DNS
preparation retried for ever succeeds in the end, an assumption about the network.
Nothing is assumed of clients, of other writers or of time. In `HealthChecks` the publisher
(the preparation worker) and the executor are weakly fair; no check need ever return by
itself, since the executor aborts it after the grace period.

## 4. Proofs

Every theorem holds for any sets of keys, bodies, secrets, requests, workers, hosts and
backends, any `Valid`, `Decodes` and `Compiles`, and any bounds, from the named assumptions
on the constants of its modules (`StoreAssumption`, `EmptyValid`, `CapacityAssumption`,
`PolicyAssumption`, `WorkerAssumption`, `FaultAssumption`, `CheckAssumption`,
`ClockAssumption`, `DiscoveryAssumption`, `UpstreamAssumption`, `ShardAssumption`,
`ReqAssumption`, `CountAssumption`, `BreakerAssumption`, `ConnAssumption`,
`GroupAssumption`, `FileLoggerAssumption`, `AdminAssumption`, `OptionalFields`, `MirrorConstants`,
`PipelineAssumption`, `LogAssumption`, `RoutingAssumption`). They ask
for positive limits and budgets, limit-count configurations with one group at most and a
`count` that is a number, finitely many health-check keys, a window longer than the skew, a mask that is
not itself a secret, valid mirror configurations, graphs whose optional fields hold at most one
value, finitely many plugins in a layer and one of a name, and finite tables of routes and
certificates whose patterns are sequences, a catch-all only at the end (matchit refuses it
elsewhere), with ids of their own. TLC evaluates all of them.

| Module | Theorem | States |
|---|---|---|
| `ControlPlaneProofs` | `StoreTypeCorrect`, `StoredGraphsAlwaysValid`, `RedactedPutsKeepSecrets`, `TypeCorrect`, `PublishedGraphIsEtcdState`, `OnlyLatestTargetPublished` | types, `StoredGraphsValid`, `RedactedPutKeepsSecret`, `PublishedIsEtcdState`, `PublishesLatestTarget` |
| `PublicationProofs` | `ReplicaImplemented`, `RegistryTellsTheTruth`, `NoSubmissionIsLost` | `ImplementsReplica`, `RecordsTruthful`, `NoLostWakeup` |
| `HealthChecksProofs` | `ChecksRunOnce`, `ServedAlwaysRegistered`, `ServedKeepsItsCheck` | `OneOwnedTask`, `ServedIsRegistered`, `ServedNotTakenDown` |
| `ProxyUpstreamProofs` | `LastKnownGoodHonoured`, `SelectionFindsBackend`, `ProbesAreLeased`, `RotationIsEarned`, `SteadyIsPreferred` | `RefreshHonoursLkg`, `NeverWithoutBackend`, `ProbesOneAtATime`, `RotationEarned`, `PrefersSteady` |
| `LimiterProofs`, on the lemmas of `ShardProofs` | `RateHonoured`, `WindowsSlide`, `BreakersConsistent`, `RecoveryIsEarned`, `SlotsAreCounted`, `OverflowIsForced`, `GroupsShareTheirLimits` | `WithinRate`, `SlidingExact`, `BreakerConsistent`, `RecoveryEarned`, `CountsExact`, `OverflowOnlyWhenBusy`, `GroupCountsJointly` |
| `DataPlaneProofs` | `SecretsKept`, `WritesAreSealed`, `EveryLineAccounted`, `SnapshotsCoherent`, `UntouchedObjectsKept`, `MirrorsWhole` | `SecretsSurvive`, `AdminWritesSealed`, `FileLogAccounted`, `SnapshotCoherent`, `UntouchedKept`, `MirrorWhole` |
| `RequestProofs` | `RequestsSettled`, `LogLinesAccounted`, `CertificateChosen`, `RouteChosen` | `RequestSettled`, `LinesAccounted`, `CertificateMostSpecific`, `RoutedAsDocumented` |

**Control plane.**

* `StoredGraphsAlwaysValid`. Validity alone is not inductive: a commit writes what was
  validated against an older graph. `CasInv` adds what ties the two together: every
  write through the protocol moves the guard, so a snapshot whose guard is the current
  one has the bodies of the current graph (`SnapshotInv`), and a commit whose
  guard expectation still holds would make a valid graph (`CommitInv`). The hypothesis is
  that no writer ignores the guard.
* `RedactedPutsKeepSecrets`, from the same invariant: a target whose mod revision is the
  expected one still has the secret that was restored. It holds with direct writers too,
  since they move the target's mod revision though not the guard.
* `PublishedGraphIsEtcdState`. `PlaneInv` says that every graph in flight (the list
  response, the submission, the target, a worker's job, the runtime and the committed
  graph) is etcd's graph at the revision it carries (`InFlight`), and that the target is
  etcd's graph at the stream position whenever a watch is open (`InStep`). `BatchIsExact`
  is the heart: layering the last event of each key on the graph at the position gives the
  graph at the batch's revision. It uses `Framed` (revision r changed only the key
  `written[r]`) and an induction over revisions.
* `OnlyLatestTargetPublished` adds `Generations`: a job or target of a generation is the
  one that was numbered so, and outside of a submission the target has the latest number.
* `ReplicaImplemented`. The initial states map to initial states. A write of the store is an
  `Extend`; the step that swaps the runtime snapshot is a `CatchUp`, for which `Screening`
  adds that what waits at the fence maps, is accepted and compiles; all others stutter.
* `RegistryTellsTheTruth`. `Verdicts` follows what a worker found out about its job to what
  the registry says of that revision. That a published revision runs rests on
  `PublicationLock`: from the swap to the registry update the lock is held, so no other
  worker swaps in between; `Attempts` keeps the verdict with the graph it was reached on.
* `NoSubmissionIsLost` takes the most. `Wakeups` says who will serve the target, for each
  stage of a worker; it is inductive only while nobody stops the plane, with `OneWorker`
  (one worker was spawned and has the sender), `Tokens` (the target's cancellation
  is the active one unless a submission is replacing it) and `Forward`: a list reads the
  current revision and a watch starts where the list ended, so the revision check at the
  fence never throws the latest target away.

**Health checks.**

* `ChecksRunOnce`. That a running task is owned is not inductive: `TaskInv` adds that
  handles are outside `running_tasks` only while the executor is joining them, where it
  starts nothing, and that what `restart_finished_tasks` collected is still finished.
* `ServedAlwaysRegistered`. `ServeInv` follows a publication: until the snapshot is stored
  the active set is that of the old snapshot, the keys looked at so far have their
  registration in `next`, and a displaced generation belongs to a key already looked at and
  is nobody's `next`. Nothing it stops is therefore in use.
* `ServedKeepsItsCheck`. A removal is announced long before it is received, so the invariant
  must say that a load balancer which has left the snapshot never comes back: `RetireInv`
  numbers load balancers by the publication that built them (`BuiltBounded`; compilation
  reuses those of the current snapshot only), keeps every announced removal `Retired`, and
  ties the registry to `active` and `next` key by key (`RegistryFollows`), which is why the
  registration a new one displaces is that of the old snapshot. `Counted` bounds the
  generations: a publication registers each key once at most.

**Upstreams.**

* `LastKnownGoodHonoured`. `DiscoveryInv` ties the cache of the resolver to the history of
  answers (`LkgIsLastAnswer`), including the answers a refresh under way has collected
  (`LookupsSettled`); the backends in service are never empty (`InService`).
* `SelectionFindsBackend`. `RequestTypes` says what a selection holds at each of its four
  attempts; the last one is entered only with candidates, since `InService` gives it some.
* `ProbesAreLeased`. `Leased`: the lease of a backend reaches past every probe under way
  that nobody freed, and any two of those began at least a lease apart.
* `RotationIsEarned`. The counters say only how far a streak has come. `CountersEarned` ties
  them to the outcomes as they arrived: a failure counter counts outcomes of its kind in a
  row, and the recovery counter healthy ones since the trip.
* `SteadyIsPreferred`. `SteadyAhead`: what was steady so far is still among the candidates
  ahead, at its priority in the selector the request loaded, and the attempt is the first.

**Limiters and breaker.** `ShardProofs` proves what the bounded map's operators keep
(`WellFormed`: an entry is in the recency order exactly once; a capacity; entries only
vanish if they may) and that a sweep that retires nothing has seen busy entries as far as
its budget goes (`SweepBusy`). The sweep is a recursive function on 0..Budget; its existence
and every fact about it are set inductions over Nat (`SetInduction`, proved from the
well-foundedness of `<`).

* `RateHonoured`. `Fair`: what a bucket still holds is what it let pass less what drained
  since it was made, where the time its anchor moved back counts as drained twice.
* `WindowsSlide`. A window only remembers; the property is about what passed. `Remembers`
  ties them: among the last events of a key the window still has those that passed within a
  window of now, as many as the limit can tell apart; an old reading prunes less,
  a late one up to `MaxSkew` more. The proof showed that the property is false without the
  `MaxSkew` (a request that waits for the lock is counted at its reading, not
  at the moment it passed) and it now says so.
* `BreakersConsistent`, `RecoveryIsEarned`. `Sound` is the state of one breaker, `Backed` says
  what its history holds: the last trip, and the healthy responses since.
* `SlotsAreCounted`. A counter is the cardinality of a set of guards spread over requests:
  `AllCounted` and the lemmas on `HeldIn` say how that set changes when one request moves.
* `OverflowIsForced` adds `StatesApart`: two entries of the map never share a counter, so as
  many busy entries are as many busy counters.
* `GroupsShareTheirLimits`, for any sequence of snapshots and any number of requests.
  `GroupInv` ties every instance that a snapshot, a candidate or a request holds to the
  registry: the entry of its group is its state, and no two groups share one
  (`InstancesSound`, `RegistrySound`). `GroupStateGives` says what `group_state` may do to
  the registry: entries something holds stay. A lasting group has a serving instance
  (`LastingHeld`), so its state is never replaced and `CountersSound` holds: a count is the
  number of verdicts given on it.

**Admin API.**

* `SecretsKept`. `AdminInv`: each stored leaf is the secret its client asked for, in the clear
  or in an envelope (`LeafHolds`), position by position. The hypothesis `~LeavesMove` is the one
  the code needs: section 6 has the run that shows what happens without it.
* `WritesAreSealed` follows step by step from the handlers, with the answers they give.

**file-logger.** `EveryLineAccounted`. `FileLogInv` says of every possible line that it is in as
many places as its request has logged it, once or not at all (`LinesKept`), that a buffer is
the prefix of what was sent whatever the chunks (`RequestsSound`), and when a writer can have a
line in hand, be past its budget or be closed: only once its instance has been replaced and
the last request that held it has gone (`WritersSound`).

**Runtime snapshots.** `SnapshotInv` says that the published snapshot is what the constructors
would make of the published graph from nothing, but for the attempts its objects are of
(`SnapshotOf`), and that a plan was drawn up against the snapshot in force.

* `SnapshotsCoherent`. `RebuiltSnapshot` keeps it: a reused object was compiled from upstreams
  and a service that the plan reuses too, so it is the object the constructor would return now
  (`SameService`, `SameRoute`), and every other object finds its inline upstreams among the
  planned jobs (`JobsCover`). The gate makes every name resolve (`NothingMissing`), so a gated
  graph always compiles. Two upstreams built at one place are one (`OwnUnique`) and different
  places have different keys (`KeysInjective`): hence one check for each load balancer in use.
* `UntouchedObjectsKept`. What a route or a service depends on exists in both graphs
  (`DependenciesExist`), so an unchanged closure is in the plan's reused set.

**Mirrors.** `MirrorsWhole`, for any number of requests, instances and permits, any queue and
clock. `MirrorInv` says where every chunk is: what a task has written and still has queued are
the places of its request's body one after the other (`BodiesInOrder`), and a sender that is
still good has sent as many as its request was given (`SendersSound`), so that the next
chunk fits behind them and a full queue ends the body instead of leaving a gap. `FlightLed`
makes the flag of a lookup and its one leader the same thing; `FollowersWake` then needs the
leader to keep a task among "lookup", "clear" and "notify" even when it is aborted or times
out. The hypothesis `OneInstance` (no request passes two proxy-mirrors) is needed: section 6
says what two do to each other.

**Plugin pipeline.** `RequestsSettled`, for any sequence of snapshots, retries and chunks.
`Settled` relates the stage of a request to what ran and what is left: what ran of a phase is
the beginning of the plan its snapshot prescribes and what is left is the end (`RanAsPlanned`,
`OnTheWay`), phases that cannot have begun have run nothing (`NotYet`), and what was sent fits
the stage and the error (`AnswerFits`). The plan is a sequence because the layers can be put in
order (`OrderExists`): that the orders of the plugins are total is proved too. Framing
(`RenderedFramed`) holds of whatever an exit transformer makes of a rejection.

**Process log.** `LogLinesAccounted`, for any capacity, file size, number of backups, buffer and
batch. `LogInv` looks at the lines in two ways. They are in lanes, in which they are in the order
they were logged: the rotated ones, the backups from the oldest, the file, the buffer, the channel
(`Lanes`). And they are in places that part them (`Placed`). A step moves lines between two places
(`LinesMoved`) along the lane. A rotation is the hard one, a recursive function over the files:
each rename keeps the lanes (`RenamedStep`), also when it finds its source missing, so wherever
the renames stop what is gone was the oldest (`RotatedFiles`, an induction over the renames).

**TLS selection.** `CertificateChosen`, for any certificates and names. The matcher `Represents` a
set of claims, entries of certificates' lists: it has failed if and only if two of them are of one
pattern, and otherwise maps each pattern to its one claimant. One more claim keeps that
(`OneMoreClaim`), so the loops over a list and over the certificates do, in any order. The
longest wildcard suffix needs no maximum: only one suffix is a label shorter than the name
(`WildcardSuffix`). While proving it, a certificate that lists one pattern twice turned out to be
refused like two certificates that share one, which the property now says.

**Route matching.** `RouteChosen`, for any table of routes and any request. The matcher is the
outcome of three nested loops, over routes, hosts and URIs, each of which looks up its key as if
it were a path. What the look-up finds is the key itself or nothing: of two patterns one of which
covers the other, the other is more specific or covers it too (`Overlap`), so a pattern that takes
a later one in is `Shadowing`, or loses against it (`UriFree`, also for a host that a route lists
twice). So the matcher holds for every host and URI just the routes inserted so far, in the order
of the table (`MatcherHolds`, `RouteInserted`), which the stable sort leaves alone (`PushedLast`).
A full matcher's first route that takes the method is then the documented one
(`FirstDocumented`), with the fallback to the routes without host (`HostDocumented`) and to the
preflight (`RequestMatched`).

Only model-checked, and why:

* Liveness (`Converges`, `ReadinessReturns`, `ShutdownCompletes`, `Reconciled`,
  `ExecutorShutdown`): fairness and `ENABLED` are out of the prover's reach.
* `BodiesWhole` and `ProviderRequestSound`: their modules use RECURSIVE operators.
* `CacheHitsBelong` is about the cache keys and variances of the configurations it is run with: a
  template that leaves the URI out of the key makes different paths share a response, as
  configured.

## 5. Plan

1. Composition: upstreams with `HealthChecks` (which task refreshes which load balancer), and
   a request that is retried across a publication with its limiter slots underneath.
2. Traffic split's weighted draw and the rules of ip-restriction and cors against reference
   definitions, should they become stateful.

## 6. What comments and assertions say that does not hold

* `never_resurrected`: a submission that passed the lifecycle check spawns a worker after
  `shutdown` has set `Stopped` (`state.rs` 163 and `authority.rs` 158 say it cannot).
* `reconnect_fence`: a candidate in flight from before the outage lifts the fence that
  should wait for the listed graph (`status.rs` 187).
* `data_error_readiness`: after a reconnect a rejected list leaves the gateway unready
  although the last-known-good graph runs (`sync.rs` 417).
* `transient_dns_failure`: the discovery that refreshes an upstream starts without the
  answers of the one that prepared it, so the first failing lookup evicts a node that was
  just resolved (`discovery.rs` 617 and 137).
* `no_split_guards`: limit-conn looks a counter up under the lock and increments it after;
  an idle counter in between is swept, and the key is then counted by two states
  (`limit_conn.rs` 365).
* `masked_list_edit`: the masked leaves of a list are restored by position, so dropping the
  first of two secrets from a redacted body keeps the dropped one and loses the other
  (`secrets.rs` 74; `USER_GUIDE.md` 232, `secrets.rs` 30).
* `static_routes`: the matcher looks a new URI up as if it were a request path, so a static
  route inserted after a parameter or catch-all route that covers it is filed under that
  pattern and shares its requests (`route.rs` 417; `USER_GUIDE.md` 1038). Hosts likewise.
  `RoutedAsDocumented` excepts such tables (`Shadowing`) and compares all others with what
  the guide describes. The pattern that covers another may also stand before it in the list of
  the same route: the two are then filed together and share the other's routes.

Met while modelling, and followed by the models as the code has it:

* Two instances of proxy-mirror on one request share the key of the sender in the context
  (`proxy_mirror.rs` 560): the last gets every chunk twice, the other none. `MirrorWhole` is
  checked with one instance per request.
* Two instances of client-control on one request count each chunk twice, under one key
  (`client_control.rs` 127): the smaller limit then rejects bodies of half its size.
* When a body reaches response-rewrite's limit, the rest of the chunk that crosses it is
  dropped (`response_rewrite.rs` 408), although the comment on `process_filters` (378) says
  that chunk is restored.
* Followers of an aborted lookup may be handed the error of an earlier flight.
* A mask sent in a PUT of a resource that does not exist is stored literally, except in a
  certificate, where it is not a key.
* With encryption disabled, a masked resave leaves the envelope that was stored.
* A request over HTTP/2 without Content-Length counts as one without a body for ai-proxy and
  request-validation.
* A `$http_authorization` in `cache_key` switches the isolation of consumers off, since the
  key then tells them apart by itself.
* `Service.upstream`, embedded in a service, is not validated by the gate as a route's is.
* A publication record can be trimmed before its own handler reads it, which
  `admin/mod.rs` 336 does not expect; it takes more than 128 later revisions meanwhile.

## 7. Not modelled

* The YAML source (`load_static`), which loads once before anything runs; the start-up's wiring.
* Plugins that map one request or response to another by text and keep nothing: rewriting,
  redirects, CORS, CSRF, IP restriction, fault injection, echo, request ids, blocking,
  compression. `PluginPipeline` has what they can do to the control flow.
* Traffic split's rules and weighted draw; the fixed window of limit-count, which is pingora's
  `Rate`; the order in which a load-balancing algorithm draws the members of a group;
  `MAX_LB_ITERATIONS` (256 candidates) and the peer options.
* Parsing, schemas and ranges of single configuration fields; TLS and authentication of the
  etcd client; metrics; the wording of answers and the format of log lines.
* The cache lock, which only delays a request, and the hiding of cache headers; matchit's
  insertion conflicts; ciphers, digests and signatures, which are ideal.
* A retry that pingora itself would decide on after a connection is up (a refused HTTP/2
  stream). The only retry in the code is `fail_to_connect`'s (`http.rs` 521), before
  `upstream_request_filter` has run; `error_while_proxy` asks for none. So `ProxyMirror` opens a
  request's queue once per instance.
* An etcd cluster restored to an older revision, which the code does not handle; how long a
  delayed request sleeps; what decides an active check.
