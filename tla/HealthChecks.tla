------------------------------ MODULE HealthChecks ------------------------------
(***************************************************************************)
(* Active health checks: RuntimeStore::publish reconciles the checks of a  *)
(* new snapshot (proxy/runtime.rs), the HealthCheckRegistry hands out      *)
(* generations and broadcasts updates, and the HealthCheckExecutor owns    *)
(* one task per registered generation (proxy/upstream/health_check.rs).    *)
(*                                                                         *)
(* publish runs in the preparation worker, under publish_lock; the         *)
(* executor and every check are tasks of other runtimes.  A step ends      *)
(* where another of them can observe the state: at each access to the      *)
(* concurrent map, at each send and at each await.  DashMap iterates shard *)
(* by shard, so an enumeration of the registry reads the keys one by one.  *)
(*                                                                         *)
(* The generation of a registration is its position in registrations.  A   *)
(* service is the load balancer's Arc: built tells Arcs apart, print is    *)
(* the health-check fingerprint of its configuration.                      *)
(***************************************************************************)
EXTENDS Naturals, Sequences, FiniteSets

CONSTANTS
  Checks,         \* the keys "upstream/<id>", "route/<id>/inline", ...
  Prints,         \* health-check fingerprints
  Capacity,       \* of the broadcast channel (1000 in the code)
  MaxPublishes,   \* bound: snapshots published
  MaxExits,       \* bound: checks that return without having been stopped
  Stops           \* may the process be asked to stop?

ASSUME CheckAssumption ==
  /\ IsFiniteSet(Checks)
  /\ Capacity \in Nat \ {0}
  /\ MaxPublishes \in Nat /\ MaxExits \in Nat
  /\ Stops \in BOOLEAN

VARIABLES
  current,        \* RuntimeStore.current: the service of each key, or NoService
  active,         \* RuntimeStore.health_checks: a generation, 0 is absent
  pub,            \* the publication in progress
  publishes,      \* how many have begun
  registrations,  \* every registration ever made, by generation
  registry,       \* HealthCheckRegistry.upstreams: a generation, 0 is absent
  stop,           \* the generations whose shutdown_tx has sent true
  events,         \* broadcast updates the executor has not received
  lagged,         \* did the channel overwrite an update it had not received?
  exec,           \* the executor: where it is, the keys of an enumeration it
                  \* has still to read, the generations it is working through
  running,        \* running_tasks: the generations whose handle it holds
  awaiting,       \* handles taken out of running_tasks and not yet joined
  alive,          \* how many tasks of each generation are executing
  exits,
  shutdown        \* the process's ShutdownWatch

storeVars == <<current, active, pub, publishes>>
registryVars == <<registrations, registry, stop>>
channelVars == <<events, lagged>>
executorVars == <<exec, running, awaiting>>
taskVars == <<alive, exits>>
vars == <<storeVars, registryVars, channelVars, executorVars, taskVars, shutdown>>

NoService == [built |-> 0, print |-> "none"]
Service == [built : 1..MaxPublishes, print : Prints]
Generations == 1..(MaxPublishes * Cardinality(Checks))
KeyOf(g) == registrations[g].key
Update == [kind : {"Added", "Removed"}, gen : Generations]

\* A registration is in force when it is the one its key has in the registry.
Registered(g) == registry[KeyOf(g)] = g
InForce == {registry[k] : k \in Checks} \ {0}

NoPublish == [pc |-> "idle", snapshot |-> [k \in Checks |-> NoService],
              desired |-> {}, next |-> [k \in Checks |-> 0],
              displaced |-> <<>>, removed |-> {}, update |-> <<>>]

Init ==
  /\ current = [k \in Checks |-> NoService]
  /\ active = [k \in Checks |-> 0]
  /\ pub = NoPublish
  /\ publishes = 0
  /\ registrations = <<>>
  /\ registry = [k \in Checks |-> 0]
  /\ stop = {}
  /\ events = <<>>
  /\ lagged = FALSE
  /\ exec = [pc |-> "off", unread |-> {}, found |-> {}]
  /\ running = {}
  /\ awaiting = {}
  /\ alive = [g \in Generations |-> 0]
  /\ exits = 0
  /\ shutdown = FALSE

--------------------------------------------------------------------------------
(* RuntimeStore::publish. *)

\* Compilation reuses the load balancer of an unchanged upstream and builds a
\* new one for an edited upstream, also when the edit (a weight) leaves the
\* health-check fingerprint alone; collect_health_checks lists them by key.
Snapshots ==
  {s \in [Checks -> {NoService} \cup Service] :
     \A k \in Checks : s[k].built \in {0, publishes + 1, current[k].built}
                       /\ (s[k].built = current[k].built => s[k] = current[k])}

PublishBegins(snapshot) ==
  /\ pub.pc = "idle"
  /\ publishes < MaxPublishes
  /\ publishes' = publishes + 1
  /\ pub' = [NoPublish EXCEPT !.pc = "register", !.snapshot = snapshot,
                              !.desired = {k \in Checks : snapshot[k] # NoService}]
  /\ UNCHANGED <<current, active, registryVars, channelVars, executorVars,
                 taskVars, shutdown>>

\* Mutant: keeping by fingerprint alone.
UnchangedByFingerprint(k) ==
  /\ active[k] # 0
  /\ registrations[active[k]].service.print = pub.snapshot[k].print

\* The check of key k is kept: same fingerprint and the very same Arc.
Unchanged(k) ==
  /\ active[k] # 0
  /\ registrations[active[k]].service = pub.snapshot[k]

\* Between its accesses to shared state publish sends the update of the last.
Publishing(pc) == pub.pc = pc /\ pub.update = <<>>

KeepCheck(k) ==
  /\ Publishing("register")
  /\ k \in pub.desired
  /\ Unchanged(k)
  /\ pub' = [pub EXCEPT !.desired = @ \ {k}, !.next[k] = active[k]]
  /\ UNCHANGED <<current, active, publishes, registryVars, channelVars,
                 executorVars, taskVars, shutdown>>

NextGeneration == Len(registrations) + 1

\* HealthCheckRegistry::register_upstream up to the notification.
RegisterUpstream(k) ==
  LET g == NextGeneration IN
  /\ Publishing("register")
  /\ k \in pub.desired
  /\ ~Unchanged(k)
  /\ registrations' = Append(registrations, [key |-> k, service |-> pub.snapshot[k]])
  /\ registry' = [registry EXCEPT ![k] = g]
  /\ pub' = [pub EXCEPT !.desired = @ \ {k}, !.next[k] = g,
                        !.displaced = IF registry[k] = 0 THEN @ ELSE Append(@, registry[k]),
                        !.update = <<[kind |-> "Added", gen |-> g]>>]
  /\ UNCHANGED <<current, active, publishes, stop, channelVars, executorVars,
                 taskVars, shutdown>>

\* What an Added or Removed update does to the channel: the executor is the
\* only receiver, without it the send fails, and a full channel overwrites
\* its oldest update.
Subscribed == exec.pc \notin {"off", "done"}

NotifyUpdate ==
  /\ pub.update # <<>>
  /\ pub' = [pub EXCEPT !.update = <<>>]
  /\ \/ ~Subscribed /\ UNCHANGED channelVars
     \/ Subscribed /\ Len(events) < Capacity
        /\ events' = Append(events, pub.update[1])
        /\ UNCHANGED lagged
     \/ Subscribed /\ Len(events) = Capacity
        /\ events' = Append(Tail(events), pub.update[1])
        /\ lagged' = TRUE
  /\ UNCHANGED <<current, active, publishes, registryVars, executorVars,
                 taskVars, shutdown>>

StoreSnapshot ==
  /\ Publishing("register")
  /\ pub.desired = {}
  /\ current' = pub.snapshot
  /\ pub' = [pub EXCEPT !.pc = "stored",
                        !.removed = {k \in Checks : active[k] # 0 /\ pub.next[k] = 0}]
  /\ UNCHANGED <<active, publishes, registryVars, channelVars, executorVars,
                 taskVars, shutdown>>

\* Mutant: displaced checks are discarded while the old snapshot still serves.
MayDiscardEarly == pub.pc \in {"register", "stored"} /\ pub.update = <<>>

MayDiscard == Publishing("stored")

\* DisplacedHealthCheck::discard up to the notification.
Discard ==
  /\ MayDiscard
  /\ pub.displaced # <<>>
  /\ stop' = stop \cup {Head(pub.displaced)}
  /\ pub' = [pub EXCEPT !.displaced = Tail(@),
                        !.update = <<[kind |-> "Removed", gen |-> Head(pub.displaced)]>>]
  /\ UNCHANGED <<current, active, publishes, registrations, registry, channelVars,
                 executorVars, taskVars, shutdown>>

\* HealthCheckRegistry::unregister_upstream up to the notification.
UnregisterUpstream(k) ==
  /\ Publishing("stored")
  /\ pub.displaced = <<>>
  /\ k \in pub.removed
  /\ registry[k] = active[k]
  /\ registry' = [registry EXCEPT ![k] = 0]
  /\ stop' = stop \cup {active[k]}
  /\ pub' = [pub EXCEPT !.removed = @ \ {k},
                        !.update = <<[kind |-> "Removed", gen |-> active[k]]>>]
  /\ UNCHANGED <<current, active, publishes, registrations, channelVars,
                 executorVars, taskVars, shutdown>>

PublishEnds ==
  /\ Publishing("stored")
  /\ pub.displaced = <<>> /\ pub.removed = {}
  /\ active' = pub.next
  /\ pub' = NoPublish
  /\ UNCHANGED <<current, publishes, registryVars, channelVars, executorVars,
                 taskVars, shutdown>>

PublisherStep ==
  \/ \E k \in Checks : KeepCheck(k) \/ RegisterUpstream(k) \/ UnregisterUpstream(k)
  \/ NotifyUpdate
  \/ StoreSnapshot
  \/ Discard
  \/ PublishEnds

--------------------------------------------------------------------------------
(* The executor. *)

environmentVars == <<storeVars, registryVars, exits, shutdown>>

\* Mutant: the Vacant check is missing.
StartTaskTwice(g) ==
  IF Registered(g)
  THEN /\ running' = running \cup {g}
       /\ alive' = [alive EXCEPT ![g] = @ + 1]
  ELSE UNCHANGED <<running, alive>>

\* start_task: a generation already running is left alone, one that is no
\* longer registered is not started.
StartTask(g) ==
  IF g \notin running /\ Registered(g)
  THEN /\ running' = running \cup {g}
       /\ alive' = [alive EXCEPT ![g] = @ + 1]
  ELSE UNCHANGED <<running, alive>>

Goto(pc) == [pc |-> pc, unread |-> {}, found |-> {}]
Enumerate(pc) == [pc |-> pc, unread |-> Checks, found |-> {}]

\* start_service, run: subscribe first, enumerate the registry afterwards.
ExecutorStarts ==
  /\ exec.pc = "off"
  /\ exec' = Enumerate("boot")
  /\ UNCHANGED <<environmentVars, channelVars, running, awaiting, alive>>

\* get_all_upstreams reads one key.
ReadKey(k) ==
  /\ exec.pc \in {"boot", "stale", "resync"}
  /\ k \in exec.unread
  /\ exec' = [exec EXCEPT !.unread = @ \ {k}, !.found = @ \cup ({registry[k]} \ {0})]
  /\ UNCHANGED <<environmentVars, channelVars, running, awaiting, alive>>

\* The first loop of run and the last of resync_tasks.
StartFound ==
  /\ exec.pc \in {"boot", "resync"}
  /\ exec.unread = {}
  /\ \/ \E g \in exec.found :
          /\ StartTask(g)
          /\ exec' = [exec EXCEPT !.found = @ \ {g}]
     \/ /\ exec.found = {}
        /\ exec' = Goto(IF exec.pc = "boot" THEN "loop" ELSE "finished")
        /\ UNCHANGED <<running, alive>>
  /\ UNCHANGED <<environmentVars, channelVars, awaiting>>

\* The select of run is biased: a shutdown is seen before an update, an
\* update before the cleanup tick.
Selecting == exec.pc = "loop" /\ ~shutdown

ReceiveAdded ==
  /\ Selecting /\ ~lagged
  /\ events # <<>> /\ Head(events).kind = "Added"
  /\ events' = Tail(events)
  /\ StartTask(Head(events).gen)
  /\ exec' = Goto("finished")
  /\ UNCHANGED <<environmentVars, lagged, awaiting>>

ReceiveRemoved ==
  LET g == Head(events).gen IN
  /\ Selecting /\ ~lagged
  /\ events # <<>> /\ Head(events).kind = "Removed"
  /\ events' = Tail(events)
  /\ running' = running \ {g}
  /\ awaiting' = running \cap {g}
  /\ exec' = Goto("stopping")
  /\ UNCHANGED <<environmentVars, lagged, alive>>

\* stop_task and stop_all_tasks: the task has returned, or its grace period
\* is over and it is aborted.
JoinTask ==
  /\ exec.pc \in {"stopping", "stale", "draining"}
  /\ \E g \in awaiting :
       /\ awaiting' = awaiting \ {g}
       /\ alive' = [alive EXCEPT ![g] = 0]
  /\ UNCHANGED <<environmentVars, channelVars, exec, running>>

TaskStopped ==
  /\ exec.pc = "stopping"
  /\ awaiting = {}
  /\ exec' = Goto("finished")
  /\ UNCHANGED <<environmentVars, channelVars, running, awaiting, alive>>

\* Mutant: the lost updates are only logged.
ReceiveLaggedNoResync ==
  /\ Selecting /\ lagged
  /\ lagged' = FALSE
  /\ exec' = Goto("finished")
  /\ UNCHANGED <<environmentVars, events, running, awaiting, alive>>

\* RecvError::Lagged: what the updates would have said is read from the
\* registry; the updates still in the channel are received afterwards.
ReceiveLagged ==
  /\ Selecting /\ lagged
  /\ lagged' = FALSE
  /\ exec' = Enumerate("stale")
  /\ UNCHANGED <<environmentVars, events, running, awaiting, alive>>

\* resync_tasks stops the running tasks it did not find, one after another.
StopStale ==
  /\ exec.pc = "stale"
  /\ exec.unread = {}
  /\ awaiting = {}
  /\ \/ \E g \in running \ exec.found :
          /\ running' = running \ {g}
          /\ awaiting' = {g}
          /\ UNCHANGED exec
     \/ /\ running \subseteq exec.found
        /\ exec' = Enumerate("resync")
        /\ UNCHANGED <<running, awaiting>>
  /\ UNCHANGED <<environmentVars, channelVars, alive>>

\* The cleanup tick.
Tick ==
  /\ Selecting /\ ~lagged /\ events = <<>>
  /\ \E g \in running : alive[g] = 0
  /\ exec' = Goto("finished")
  /\ UNCHANGED <<environmentVars, channelVars, running, awaiting, alive>>

\* restart_finished_tasks: collect what has finished, then restart what is
\* still registered and forget the rest.
CollectFinished ==
  /\ exec.pc = "finished"
  /\ exec' = [exec EXCEPT !.pc = "restart", !.found = {g \in running : alive[g] = 0}]
  /\ UNCHANGED <<environmentVars, channelVars, running, awaiting, alive>>

RestartFinished ==
  /\ exec.pc = "restart"
  /\ \/ \E g \in exec.found :
          /\ exec' = [exec EXCEPT !.found = @ \ {g}]
          /\ IF Registered(g)
             THEN alive' = [alive EXCEPT ![g] = @ + 1] /\ UNCHANGED running
             ELSE running' = running \ {g} /\ UNCHANGED alive
     \/ /\ exec.found = {}
        /\ exec' = Goto("loop")
        /\ UNCHANGED <<running, alive>>
  /\ UNCHANGED <<environmentVars, channelVars, awaiting>>

\* The shutdown branch: request_shutdown_all, then stop_all_tasks.
ExecutorShutsDown ==
  /\ exec.pc = "loop" /\ shutdown
  /\ exec' = Enumerate("signal")
  /\ UNCHANGED <<environmentVars, channelVars, running, awaiting, alive>>

\* Mutant: only the tasks request_shutdown_all has signalled are awaited.
DrainedSignalled == running \cap stop

Drained == running

RequestShutdownAll ==
  /\ exec.pc = "signal"
  /\ \/ \E k \in exec.unread :
          /\ exec' = [exec EXCEPT !.unread = @ \ {k}]
          /\ stop' = stop \cup ({registry[k]} \ {0})
          /\ UNCHANGED <<running, awaiting>>
     \/ /\ exec.unread = {}
        /\ exec' = Goto("draining")
        /\ awaiting' = Drained
        /\ running' = {}
        /\ UNCHANGED stop
  /\ UNCHANGED <<storeVars, registrations, registry, channelVars, taskVars, shutdown>>

ExecutorStopped ==
  /\ exec.pc = "draining"
  /\ awaiting = {}
  /\ exec' = Goto("done")
  /\ events' = <<>> /\ lagged' = FALSE
  /\ UNCHANGED <<environmentVars, running, awaiting, alive>>

ExecutorStep ==
  \/ ExecutorStarts
  \/ \E k \in Checks : ReadKey(k)
  \/ StartFound
  \/ ReceiveAdded
  \/ ReceiveRemoved
  \/ ReceiveLagged
  \/ JoinTask
  \/ TaskStopped
  \/ StopStale
  \/ Tick
  \/ CollectFinished
  \/ RestartFinished
  \/ ExecutorShutsDown
  \/ RequestShutdownAll
  \/ ExecutorStopped

--------------------------------------------------------------------------------
(* The checks themselves and the process. *)

\* A check whose shutdown_rx turned true returns.
CheckStops(g) ==
  /\ g \in stop /\ alive[g] > 0
  /\ alive' = [alive EXCEPT ![g] = @ - 1]
  /\ UNCHANGED <<storeVars, registryVars, channelVars, executorVars, exits, shutdown>>

\* A check returns although nobody stopped it.
CheckExits(g) ==
  /\ g \notin stop /\ alive[g] > 0
  /\ exits < MaxExits
  /\ exits' = exits + 1
  /\ alive' = [alive EXCEPT ![g] = @ - 1]
  /\ UNCHANGED <<storeVars, registryVars, channelVars, executorVars, shutdown>>

RequestShutdown ==
  /\ Stops
  /\ ~shutdown
  /\ shutdown' = TRUE
  /\ UNCHANGED <<storeVars, registryVars, channelVars, executorVars, taskVars>>

Next ==
  \/ \E snapshot \in Snapshots : PublishBegins(snapshot)
  \/ PublisherStep
  \/ ExecutorStep
  \/ \E g \in Generations : CheckStops(g) \/ CheckExits(g)
  \/ RequestShutdown

\* The preparation worker and the executor are runnable tasks.  Nothing makes a
\* publication begin, and no check need ever return: the executor aborts it.
Spec == Init /\ [][Next]_vars /\ WF_vars(PublisherStep) /\ WF_vars(ExecutorStep)

--------------------------------------------------------------------------------
(* Properties. *)

\* Every variable keeps its type: generations are assigned once, the channel
\* stays within its capacity.
TypeOK ==
  /\ current \in [Checks -> {NoService} \cup Service]
  /\ active \in [Checks -> {0} \cup Generations]
  /\ pub.pc \in {"idle", "register", "stored"}
  /\ pub.snapshot \in [Checks -> {NoService} \cup Service]
  /\ pub.next \in [Checks -> {0} \cup Generations]
  /\ pub.desired \subseteq Checks /\ pub.removed \subseteq Checks
  /\ pub.displaced \in Seq(Generations)
  /\ pub.update \in Seq(Update)
  /\ publishes \in 0..MaxPublishes
  /\ registrations \in Seq([key : Checks, service : Service])
  /\ registry \in [Checks -> {0} \cup DOMAIN registrations]
  /\ stop \subseteq DOMAIN registrations
  /\ events \in Seq(Update) /\ Len(events) <= Capacity
  /\ lagged \in BOOLEAN
  /\ exec.pc \in {"off", "boot", "loop", "stopping", "stale", "resync", "finished",
                  "restart", "signal", "draining", "done"}
  /\ exec.unread \subseteq Checks /\ exec.found \subseteq Generations
  /\ running \subseteq Generations /\ awaiting \subseteq Generations
  /\ alive \in [Generations -> Nat]
  /\ exits \in 0..MaxExits
  /\ shutdown \in BOOLEAN

ShuttingDown == exec.pc \in {"signal", "draining", "done"}

\* No check runs twice, and every running check has an owner that will stop it:
\* its JoinHandle is in running_tasks or is being awaited ("never drop a live
\* handle", start_task), also when an update repeats what an enumeration saw.
OneOwnedTask ==
  \A g \in Generations :
    /\ alive[g] <= 1
    /\ alive[g] = 1 => g \in running \cup awaiting

\* The load balancers requests are served from always have a registration of
\* their own that nobody has told to stop: publish registers the new ones before
\* it stores the snapshot, discards the displaced ones only after it, and keeps
\* a registration only for the identical Arc.
ServedIsRegistered ==
  ~ShuttingDown =>
    \A k \in Checks : current[k] # NoService =>
      \E g \in DOMAIN registrations \ stop :
        registrations[g] = [key |-> k, service |-> current[k]]

\* The executor takes the check of a load balancer that still serves requests
\* down only in a resync after lost updates or at shutdown; otherwise a displaced
\* check runs until the snapshot without it is stored.
ServedNotTakenDown ==
  [][\A g \in running \ running' :
       \/ alive[g] = 0
       \/ exec.pc \in {"stale", "signal"}
       \/ current[KeyOf(g)] # registrations[g].service]_vars

LiveServices(k) ==
  {registrations[g].service : g \in {h \in DOMAIN registrations : KeyOf(h) = k /\ alive[h] > 0}}

\* Publications over, the checks that run are exactly those of the snapshot in
\* force, whatever updates were lost or repeated and whichever checks had died.
Reconciled ==
  <>[](exec.pc = "done" \/ shutdown
       \/ \A k \in Checks : LiveServices(k) = {current[k]} \ {NoService})

\* The executor's shutdown ends, with no check left behind.
ExecutorShutdown ==
  shutdown ~> [](exec.pc = "done" /\ \A g \in Generations : alive[g] = 0)
================================================================================
