----------------------------- MODULE ControlPlane -----------------------------
(***************************************************************************)
(* The control plane of one gateway: Admin requests, the etcd store, the   *)
(* sync task, the configuration graph with its worker, shutdown, and the   *)
(* readiness they report.  This module adds the steps that join them, the  *)
(* specification and its properties.                                       *)
(***************************************************************************)
EXTENDS EtcdSync

-----------------------------------------------------------------------------
\* put/delete after the CAS: record_pending_publication.
RecordPending(a) ==
  /\ admin[a].pc = "record"
  /\ records' = Pending(records, admin[a].revision)
  /\ admin' = [admin EXCEPT ![a] = [pc |-> "reply", revision |-> admin[a].revision]]
  /\ UNCHANGED <<history, written, guard, direct, lifecycle, latestGeneration, target,
                 committed, cancelled, activeCancellation, workerTx, workerTask,
                 publishedRevision, runtime, status, sub, wpc, signal, attempted, job,
                 doomed, stopping, joining, syncVars>>

\* The handler reads publication(revision) back and answers.
Reply(a) ==
  /\ admin[a].pc = "reply"
  /\ admin' = [admin EXCEPT ![a] = Idle]
  /\ UNCHANGED <<history, written, guard, direct, graphVars, syncVars>>

\* An outage passes config_stale_after.
OutageGrows ==
  /\ status.outage = "recent"
  /\ status' = OutageAges(status)
  /\ UNCHANGED <<syncFrame, sub, syncVars>>

Init == StoreInit /\ GraphInit /\ SyncInit

Next ==
  \/ \E a \in Admins : AdminStep(a) /\ UNCHANGED <<graphVars, syncVars>>
  \/ \E a \in Admins : RecordPending(a) \/ Reply(a)
  \/ EnvironmentStep /\ UNCHANGED <<graphVars, syncVars>>
  \/ Submit /\ UNCHANGED <<storeVars, syncVars>>
  \/ \E w \in Workers : WorkerStep(w) /\ UNCHANGED <<storeVars, syncVars>>
  \/ (RequestShutdown \/ Shutdown) /\ UNCHANGED <<storeVars, syncVars>>
  \/ SyncStep
  \/ SyncFault
  \/ SyncStops
  \/ OutageGrows

Spec == Init /\ [][Next]_vars

(***************************************************************************)
(* Fairness.  The sync task, the submission it makes, the worker and the   *)
(* shutdown service are tokio tasks that are polled whenever they can go   *)
(* on: weak fairness of each.  Strong fairness of Fence: a worker waiting  *)
(* for write_lock gets it, since the sync task sleeps between attempts.    *)
(* Strong fairness of SyncStops: run_sync_loop looks for the shutdown      *)
(* signal first (biased select!) on every iteration.  DNS preparation that *)
(* is retried for ever succeeds in the end: strong fairness of PrepareOk,  *)
(* an assumption about the network, as is the bound on faults.  Nothing is *)
(* assumed of Admin clients, of other writers or of the clock.             *)
(***************************************************************************)
Fairness ==
  /\ WF_vars(SyncStep)
  /\ SF_vars(SyncStops)
  /\ WF_vars(Submit /\ UNCHANGED <<storeVars, syncVars>>)
  /\ \A w \in Workers :
       /\ WF_vars(WorkerStep(w) /\ UNCHANGED <<storeVars, syncVars>>)
       /\ SF_vars(Fence(w) /\ UNCHANGED <<storeVars, syncVars>>)
       /\ SF_vars(PrepareOk(w) /\ UNCHANGED <<storeVars, syncVars>>)
  /\ WF_vars(Shutdown /\ UNCHANGED <<storeVars, syncVars>>)

FairSpec == Spec /\ Fairness

-----------------------------------------------------------------------------
(***************************************************************************)
(* Properties                                                              *)
(***************************************************************************)
\* Every variable has the shape its field in the code has.
TypeOK == StoreTypeOK /\ GraphTypeOK /\ SyncTypeOK

\* The data plane runs exactly what etcd held at the revision it reports:
\* whatever list, watch batches, coalescing, supersession and retries led
\* there, no change is lost, invented or applied out of order.
PublishedIsEtcdState ==
  /\ runtime.revision \in 0 .. Revision
  /\ runtime.stored = At(runtime.revision)

\* Under write_lock the fence lets only the latest submission through: a
\* candidate that was overtaken while it was prepared or compiled is never
\* published, not even for a moment.
PublishesLatestTarget ==
  [][runtime' # runtime =>
       runtime' = [revision |-> target.revision, stored |-> target.stored]]_vars

\* "submissions replace its pending target": the one-slot signal channel
\* loses no submission.  Once submit has returned, its graph is published,
\* or some worker has a signal, or is about to read the target, or is
\* serving that very generation.
NoLostWakeup ==
  lifecycle = "Running" /\ sub.pc \notin SubmitSteps /\ target.generation # 0 =>
    \/ runtime.revision = target.revision /\ runtime.stored = target.stored
    \/ \E w \in Workers :
         \/ signal[w] /\ wpc[w] # "done"
         \/ wpc[w] \in {"snap", "take"}
         \/ /\ wpc[w] \in Preparing \cup {"failed", "backoff", "reject", "rejecting", "rejected"}
            /\ job[w].generation = target.generation

\* What the registry tells an Admin client is true: a rejected revision does
\* not compile, a published one does and the data plane has reached it.
RecordsTruthful ==
  \A r \in DOMAIN records :
    /\ records[r] = "Rejected" => ~Compiles(BodiesOf(At(r)))
    /\ records[r] = "Published" =>
         Compiles(BodiesOf(At(r))) /\ r <= publishedRevision /\ r <= runtime.revision

\* What the sync task accepts and the worker can compile.
Publishable(graph) == Mappable(graph) /\ Accepts(graph) /\ Compiles(BodiesOf(graph))

\* The control plane implements a replica of etcd's log: whatever the
\* interleaving, the gateway moves forward through the revisions only, each
\* publication is one atomic move to exactly what etcd held, and what was
\* undecodable, dangling or uncompilable is skipped and never run.
Replica == INSTANCE ConfigReplica
  WITH log <- history, copy <- runtime, Empty <- EmptyGraph, Usable <- Publishable
ImplementsReplica == Replica!ReplicaSpec

\* When the store settles on a good configuration, the gateway ends up running
\* it, whatever invalid, uncompilable or overtaken graphs came before.
Converges == <>[](lifecycle = "Running" /\ Publishable(Current) => runtime.stored = Current)

\* ... and it ends up ready, also after outages that ended with no change to
\* publish: the reconnect fence is always lifted.
ReadinessReturns ==
  <>[](lifecycle = "Running" /\ Publishable(Current) => ComputeReady(status))

\* A shutdown that is requested always returns, although a submission that
\* races with it may have installed a token it did not cancel.
ShutdownCompletes == <>[](stopping \in {"none", "done"})

-----------------------------------------------------------------------------
(***************************************************************************)
(* What comments, assertions and tests of the code say that does not hold. *)
(***************************************************************************)
\* Lifecycle::Stopped (state.rs): "the worker is never resurrected".
NeverResurrected ==
  [][lifecycle = "Stopped" => \A w \in Workers : wpc[w] = "none" => wpc'[w] = "none"]_vars

\* record_sync_success (status.rs): "Keep readiness closed until that listed
\* graph has actually compiled and published."  The revision listed by the
\* reconnect is the observed one, or later ones have been submitted since.
\* (With no foreign writes, which move the observed revision on their own.)
ReconnectFence ==
  [][status.awaiting /\ ~status'.awaiting => status'.published >= status.observed]_vars

\* classify_rejection (sync.rs): on invalid data "readiness stays green on the
\* last-known-good graph".
DataErrorKeepsReadiness ==
  status.initialized /\ status.connected /\ status.errorKind = "CandidateInvalid"
    => ComputeReady(status)

=============================================================================
