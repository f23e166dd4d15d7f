------------------------------ MODULE ProxyMirror ------------------------------
(***************************************************************************)
(* The proxy-mirror plugin (plugins/proxy_mirror.rs): a sampled request is *)
(* copied by a background task with a bounded queue, under a process-wide  *)
(* cap, to a target whose address one lookup at a time resolves for every  *)
(* task of the instance.  Requests, tasks, the resolver's leader and its   *)
(* followers, timeouts and the retirement of an instance interleave.       *)
(*                                                                         *)
(* A body is the sequence of its chunks' numbers; Finish is the end that   *)
(* comes without a chunk.  A request passes its instances in their order;  *)
(* they share the keys of the request's context.                           *)
(***************************************************************************)
EXTENDS Integers, Sequences, FiniteSets, SequencesExt

CONSTANTS
  MirrorRequests,          \* request -> [layers, chunks, uri], uri = [path, query]
  MirrorConfigs,           \* instance -> its configuration
  MAX_CONCURRENT_MIRRORS, MIRROR_QUEUE_CAPACITY,
  PermitsElsewhere,        \* permits the tasks of other plugins may hold
  MIRROR_DNS_CACHE_TTL, MIRROR_DNS_STALE_GRACE,
  MirrorHorizon            \* bound on the clock

\* A URL is [scheme, authority, port, path, query], "" and 0 for what is not there.
parse_mirror_target(url) ==
  IF url.scheme \notin {"http", "https"} \/ url.authority = "" \/ url.path # "" \/ url.query # "" THEN <<>>
  ELSE <<[host |-> url.authority, tls |-> url.scheme = "https", sni |-> url.authority,
          port |-> IF url.port # 0 THEN url.port ELSE IF url.scheme = "https" THEN 443 ELSE 80]>>

\* A path is a sequence of segments, conf.path at most one path.
validate_path(path) == path # <<>> => path[1] # <<>>
mirror_config_valid(conf) == parse_mirror_target(conf.host) # <<>> /\ validate_path(conf.path)

\* The configured path replaces the request's or goes before it; the query stays.
build_mirror_request(conf, uri) ==
  IF conf.path = <<>> THEN uri
  ELSE [uri EXCEPT !.path = IF conf.mode = "replace" THEN conf.path[1] ELSE conf.path[1] \o @]

ASSUME MirrorConstants ==
  /\ \A r \in DOMAIN MirrorRequests :
       /\ MirrorRequests[r].layers \in Seq(DOMAIN MirrorConfigs) /\ MirrorRequests[r].chunks \in Nat
       /\ MirrorRequests[r].uri = [path |-> MirrorRequests[r].uri.path, query |-> MirrorRequests[r].uri.query]
  /\ \A m \in DOMAIN MirrorConfigs : mirror_config_valid(MirrorConfigs[m])
  /\ MAX_CONCURRENT_MIRRORS \in Nat \ {0} /\ MIRROR_QUEUE_CAPACITY \in Nat \ {0}
  /\ PermitsElsewhere \subseteq 0 .. MAX_CONCURRENT_MIRRORS
  /\ MIRROR_DNS_CACHE_TTL \in Nat \ {0} /\ MIRROR_DNS_STALE_GRACE \in Nat /\ MirrorHorizon \in Nat

VARIABLES
  mirrorNow, mirrorPermits, \* the clock; the permits for these tasks
  mirrorDns,               \* instance -> [addr, at, error, flight], at the time of the last answer
  mirrorRetired,           \* instances whose snapshot is gone
  mirrorCtx,               \* request -> [stage, sampled, sender, fed]
  mirrorTasks              \* <<request, instance>> -> the background task

mirrorVars == <<mirrorNow, mirrorPermits, mirrorDns, mirrorRetired, mirrorCtx, mirrorTasks>>

MirrorIds == DOMAIN MirrorRequests
MirrorInstances == UNION {Range(MirrorRequests[r].layers) : r \in MirrorIds}
MirrorTaskIds == {<<r, m>> : r \in MirrorIds, m \in MirrorInstances}
NoSender == <<>>
Finish == 0

\* Where a task is: the lookup ("resolve" .. "notify"), then "connect" and "body";
\* next says what follows "notify".
Looking == {"lookup", "clear", "notify"}
Resolving == {"resolve", "elect", "missed", "registered", "waiting"} \cup Looking
Running == Resolving \cup {"connect", "body"}
MirrorTask(pc) ==
  [pc |-> pc, next |-> "", queue |-> <<>>, active |-> TRUE, written |-> <<>>, woken |-> FALSE, used |-> -1,
   request |-> <<>>]

\* The task and its receiver are gone.
Ended == [MirrorTask("dropped") EXCEPT !.active = FALSE]

RunningTasks(tasks) == {t \in MirrorTaskIds : tasks[t].pc \in Running}
Holds(r, t) == mirrorCtx[r].sender = t

MirrorInit ==
  /\ mirrorNow = 0 /\ mirrorPermits \in {MAX_CONCURRENT_MIRRORS - n : n \in PermitsElsewhere}
  /\ mirrorDns = [m \in MirrorInstances |-> [addr |-> FALSE, at |-> 0, error |-> FALSE, flight |-> FALSE]]
  /\ mirrorRetired = {}
  /\ mirrorCtx = [r \in MirrorIds |-> [stage |-> "new", sampled |-> FALSE, sender |-> NoSender, fed |-> 0]]
  /\ mirrorTasks = [t \in MirrorTaskIds |-> MirrorTask("none")]

MirrorTick ==
  /\ mirrorNow < MirrorHorizon
  /\ mirrorNow' = mirrorNow + 1
  /\ UNCHANGED <<mirrorPermits, mirrorDns, mirrorRetired, mirrorCtx, mirrorTasks>>

--------------------------------------------------------------------------------
(* The request.                                                             *)

\* request_filter of every instance: the last one's sample is what stays.
MirrorSample(r, sampled) ==
  /\ mirrorCtx[r].stage = "new" /\ Range(MirrorRequests[r].layers) \cap mirrorRetired = {}
  /\ mirrorCtx' = [mirrorCtx EXCEPT ![r].stage = "sampled", ![r].sampled = sampled]
  /\ UNCHANGED <<mirrorPermits, mirrorNow, mirrorDns, mirrorRetired, mirrorTasks>>

\* upstream_request_filter of an instance: a permit, a channel, a task.
Spawn(r, state, m) ==
  IF ~mirrorCtx[r].sampled \/ Cardinality(RunningTasks(state.tasks)) >= mirrorPermits THEN state
  ELSE [tasks |-> [state.tasks EXCEPT ![<<r, m>>] =
                    [MirrorTask("resolve") EXCEPT
                       !.request = <<build_mirror_request(MirrorConfigs[m], MirrorRequests[r].uri)>>]],
        sender |-> <<r, m>>]

SpawnAll(r) ==
  LET layers == MirrorRequests[r].layers
      spawned[i \in 0 .. Len(layers)] ==
        IF i = 0 THEN [tasks |-> mirrorTasks, sender |-> NoSender] ELSE Spawn(r, spawned[i - 1], layers[i])
  IN spawned[Len(layers)]

MirrorSpawn(r) ==
  LET result == SpawnAll(r)
  IN /\ mirrorCtx[r].stage = "sampled"
     /\ mirrorTasks' = result.tasks
     /\ mirrorCtx' = [mirrorCtx EXCEPT ![r].stage = "body", ![r].sender = result.sender]
     /\ UNCHANGED <<mirrorPermits, mirrorNow, mirrorDns, mirrorRetired>>

\* Mutant: a chunk that finds the queue full is dropped and the next ones go on.
TrySendSkipping(task, chunk) ==
  IF ~task.active THEN task
  ELSE IF task.pc \notin Running THEN [task EXCEPT !.active = FALSE]
  ELSE IF Len(task.queue) >= MIRROR_QUEUE_CAPACITY THEN task
  ELSE [task EXCEPT !.queue = Append(@, chunk)]

\* A full queue, like a task that is gone, ends the sending for good.
try_send(task, chunk) ==
  IF ~task.active THEN task
  ELSE IF task.pc \notin Running \/ Len(task.queue) >= MIRROR_QUEUE_CAPACITY
       THEN [task EXCEPT !.active = FALSE]
  ELSE [task EXCEPT !.queue = Append(@, chunk)]

\* Every instance of the request sends to the one sender of its context.
SendAll(r, chunk) ==
  LET layers == MirrorRequests[r].layers
      sent[i \in 0 .. Len(layers)] ==
        IF i = 0 THEN mirrorTasks[mirrorCtx[r].sender] ELSE try_send(sent[i - 1], chunk)
  IN sent[Len(layers)]

\* request_body_filter of every instance, for the next chunk or the bare end.
MirrorBodyChunk(r, end) ==
  LET ctx == mirrorCtx[r]
      last == ctx.fed = MirrorRequests[r].chunks
      chunk == IF last THEN [n |-> Finish, end |-> TRUE] ELSE [n |-> ctx.fed + 1, end |-> end]
  IN /\ ctx.stage = "body"
     /\ end => last \/ ctx.fed + 1 = MirrorRequests[r].chunks
     /\ last => end
     /\ mirrorCtx' = [mirrorCtx EXCEPT ![r].fed = IF last THEN @ ELSE @ + 1,
                                       ![r].stage = IF end THEN "sent" ELSE @]
     /\ mirrorTasks' = IF ctx.sender = NoSender THEN mirrorTasks
                       ELSE [mirrorTasks EXCEPT ![ctx.sender] = SendAll(r, chunk)]
     /\ UNCHANGED <<mirrorPermits, mirrorNow, mirrorDns, mirrorRetired>>

\* The request is over, complete or not: its context and the sender go.
MirrorRequestEnds(r) ==
  /\ mirrorCtx[r].stage \in {"sampled", "body", "sent"}
  /\ mirrorCtx' = [mirrorCtx EXCEPT ![r] =
                     [stage |-> "over", sampled |-> FALSE, sender |-> NoSender, fed |-> 0]]
  /\ UNCHANGED <<mirrorPermits, mirrorNow, mirrorDns, mirrorRetired, mirrorTasks>>

\* The last owner of the instance is gone: MirrorTaskTracker aborts its tasks.
MirrorRetire(m) ==
  LET Aborted(t) ==
        IF t[2] # m \/ mirrorTasks[t].pc \notin Running THEN mirrorTasks[t]
        ELSE IF mirrorTasks[t].pc \notin Looking THEN Ended
        ELSE [mirrorTasks[t] EXCEPT !.pc = IF @ = "notify" THEN @ ELSE "clear", !.next = "dropped"]
  IN /\ m \notin mirrorRetired
     /\ \A r \in MirrorIds : m \in Range(MirrorRequests[r].layers) => mirrorCtx[r].stage \in {"new", "over"}
     /\ mirrorRetired' = mirrorRetired \cup {m}
     /\ mirrorTasks' = [t \in MirrorTaskIds |-> Aborted(t)]
     /\ UNCHANGED <<mirrorPermits, mirrorNow, mirrorDns, mirrorCtx>>

--------------------------------------------------------------------------------
(* The task: resolve_with.                                                  *)

cached_fresh(dns) == dns.addr /\ mirrorNow - dns.at < MIRROR_DNS_CACHE_TTL
stale_reuse(dns) == dns.addr /\ mirrorNow - dns.at < MIRROR_DNS_CACHE_TTL + MIRROR_DNS_STALE_GRACE

Goto(t, pc) == mirrorTasks' = [mirrorTasks EXCEPT ![t].pc = pc]
Connects(t, dns) == mirrorTasks' = [mirrorTasks EXCEPT ![t].pc = "connect", ![t].used = mirrorNow - dns.at]
Drops(t) == mirrorTasks' = [mirrorTasks EXCEPT ![t] = Ended]

ResolveChecksCache(t) ==
  /\ mirrorTasks[t].pc = "resolve"
  /\ IF cached_fresh(mirrorDns[t[2]]) THEN Connects(t, mirrorDns[t[2]]) ELSE Goto(t, "elect")
  /\ UNCHANGED <<mirrorPermits, mirrorNow, mirrorDns, mirrorRetired, mirrorCtx>>

\* compare_exchange on lookup_in_flight.
ResolveElects(t) ==
  /\ mirrorTasks[t].pc = "elect"
  /\ Goto(t, IF mirrorDns[t[2]].flight THEN "missed" ELSE "lookup")
  /\ mirrorDns' = [mirrorDns EXCEPT ![t[2]].flight = TRUE]
  /\ UNCHANGED <<mirrorPermits, mirrorNow, mirrorRetired, mirrorCtx>>

LookupAnswers(t, ok) ==
  /\ mirrorTasks[t].pc = "lookup"
  /\ mirrorDns' = [mirrorDns EXCEPT ![t[2]] =
       IF ok THEN [@ EXCEPT !.addr = TRUE, !.at = mirrorNow, !.error = FALSE] ELSE [@ EXCEPT !.error = TRUE]]
  /\ mirrorTasks' = [mirrorTasks EXCEPT ![t] = [@ EXCEPT
       !.pc = "clear",
       !.next = IF ok \/ stale_reuse(mirrorDns[t[2]]) THEN "connect" ELSE "dropped",
       !.used = IF ok THEN 0 ELSE mirrorNow - mirrorDns[t[2]].at]]
  /\ UNCHANGED <<mirrorPermits, mirrorNow, mirrorRetired, mirrorCtx>>

\* LookupFlight::drop, also when the leader is aborted: the flag, then the waiters.
LookupFlightClears(t) ==
  /\ mirrorTasks[t].pc = "clear"
  /\ Goto(t, "notify")
  /\ mirrorDns' = [mirrorDns EXCEPT ![t[2]].flight = FALSE]
  /\ UNCHANGED <<mirrorPermits, mirrorNow, mirrorRetired, mirrorCtx>>

LookupFlightNotifies(t) ==
  LET Woken(u) == IF u[2] = t[2] /\ mirrorTasks[u].pc \in {"registered", "waiting"}
                  THEN [mirrorTasks[u] EXCEPT !.woken = TRUE] ELSE mirrorTasks[u]
  IN /\ mirrorTasks[t].pc = "notify"
     /\ mirrorTasks' = [u \in MirrorTaskIds |->
          IF u # t THEN Woken(u)
          ELSE IF mirrorTasks[t].next = "connect" THEN [mirrorTasks[t] EXCEPT !.pc = "connect", !.next = ""]
          ELSE Ended]
     /\ UNCHANGED <<mirrorPermits, mirrorNow, mirrorDns, mirrorRetired, mirrorCtx>>

\* A follower registers for the notification, then looks at the flag.
FollowerRegisters(t) ==
  /\ mirrorTasks[t].pc = "missed"
  /\ mirrorTasks' = [mirrorTasks EXCEPT ![t].pc = "registered", ![t].woken = FALSE]
  /\ UNCHANGED <<mirrorPermits, mirrorNow, mirrorDns, mirrorRetired, mirrorCtx>>

FollowerLooks(t) ==
  /\ mirrorTasks[t].pc = "registered"
  /\ Goto(t, IF mirrorDns[t[2]].flight THEN "waiting" ELSE "resolve")
  /\ UNCHANGED <<mirrorPermits, mirrorNow, mirrorDns, mirrorRetired, mirrorCtx>>

FollowerWakes(t) ==
  /\ mirrorTasks[t].pc = "waiting" /\ mirrorTasks[t].woken
  /\ IF stale_reuse(mirrorDns[t[2]]) THEN Connects(t, mirrorDns[t[2]])
     ELSE IF mirrorDns[t[2]].error THEN Drops(t) ELSE Goto(t, "resolve")
  /\ UNCHANGED <<mirrorPermits, mirrorNow, mirrorDns, mirrorRetired, mirrorCtx>>

\* MIRROR_CONNECT_TIMEOUT over the resolution: a leader gives the flight up.
ResolveTimesOut(t) ==
  /\ mirrorTasks[t].pc \in Resolving \ {"clear", "notify"}
  /\ IF mirrorTasks[t].pc = "lookup"
     THEN mirrorTasks' = [mirrorTasks EXCEPT ![t] = [@ EXCEPT !.pc = "clear", !.next = "dropped"]]
     ELSE Drops(t)
  /\ UNCHANGED <<mirrorPermits, mirrorNow, mirrorDns, mirrorRetired, mirrorCtx>>

\* The connection and the request head.
MirrorConnects(t, ok) ==
  /\ mirrorTasks[t].pc = "connect"
  /\ IF ok THEN mirrorTasks' = [mirrorTasks EXCEPT ![t] = [@ EXCEPT !.pc = "body", !.used = -1, !.woken = FALSE]]
     ELSE Drops(t)
  /\ UNCHANGED <<mirrorPermits, mirrorNow, mirrorDns, mirrorRetired, mirrorCtx>>

\* One chunk to the target; a queue that is empty for good is an error.
MirrorWrites(t, ok) ==
  LET task == mirrorTasks[t]
      chunk == Head(task.queue)
      written == IF chunk.n = Finish THEN task.written ELSE Append(task.written, chunk.n)
  IN /\ task.pc = "body"
     /\ task.queue # <<>> \/ ~Holds(t[1], t)
     /\ IF task.queue = <<>> \/ ~ok THEN Drops(t)
        ELSE mirrorTasks' = [mirrorTasks EXCEPT ![t] =
               [task EXCEPT !.queue = Tail(task.queue), !.written = written,
                            !.pc = IF chunk.end THEN "ok" ELSE task.pc, !.active = task.active /\ ~chunk.end]]
     /\ UNCHANGED <<mirrorPermits, mirrorNow, mirrorDns, mirrorRetired, mirrorCtx>>

MirrorNext ==
  \/ MirrorTick
  \/ \E r \in MirrorIds :
       \/ \E sampled \in BOOLEAN : MirrorSample(r, sampled)
       \/ MirrorSpawn(r) \/ MirrorRequestEnds(r)
       \/ \E end \in BOOLEAN : MirrorBodyChunk(r, end)
  \/ \E m \in MirrorInstances : MirrorRetire(m)
  \/ \E t \in MirrorTaskIds :
       \/ ResolveChecksCache(t) \/ ResolveElects(t)
       \/ \E ok \in BOOLEAN : LookupAnswers(t, ok) \/ MirrorConnects(t, ok) \/ MirrorWrites(t, ok)
       \/ LookupFlightClears(t) \/ LookupFlightNotifies(t)
       \/ FollowerRegisters(t) \/ FollowerLooks(t) \/ FollowerWakes(t) \/ ResolveTimesOut(t)

MirrorSpec == MirrorInit /\ [][MirrorNext]_mirrorVars

--------------------------------------------------------------------------------

\* A mirrored body arrives in order and without a gap, and is whole when its task
\* reports success; permits bound the tasks; at most one lookup per target runs,
\* no follower waits without a leader that will wake it, and no task connects to
\* an address older than the grace.
MirrorWhole ==
  /\ \A t \in MirrorTaskIds :
       LET task == mirrorTasks[t]
           n == MirrorRequests[t[1]].chunks
       IN /\ Len(task.written) <= n /\ \A k \in DOMAIN task.written : task.written[k] = k
          /\ task.pc = "ok" =>
               /\ Len(task.written) = n
               /\ task.request[1].query = MirrorRequests[t[1]].uri.query
          /\ task.pc = "waiting" /\ ~task.woken =>
               \E u \in MirrorTaskIds : u[2] = t[2] /\ mirrorTasks[u].pc \in Looking
          /\ task.pc = "connect" => task.used < MIRROR_DNS_CACHE_TTL + MIRROR_DNS_STALE_GRACE
  /\ Cardinality(RunningTasks(mirrorTasks)) <= mirrorPermits
  /\ \A m \in MirrorInstances :
       Cardinality({t \in MirrorTaskIds : t[2] = m /\ mirrorTasks[t].pc = "lookup"}) <= 1
================================================================================
