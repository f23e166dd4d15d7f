-------------------------- MODULE ConfigurationGraph --------------------------
(***************************************************************************)
(* The configuration graph authority (graph_mutation/state.rs and the      *)
(* ingestion side of authority.rs): submit, the preparation worker and     *)
(* shutdown, at the granularity of their lock acquisitions and awaits.     *)
(*                                                                         *)
(* submit runs in the caller (the etcd sync task), inside write_lock; its  *)
(* program counter is sub.pc.  The worker is spawned by the first submit;  *)
(* Workers has more elements than the one the code means to have, so that  *)
(* a second spawn can be seen.  A cancellation token is named by the       *)
(* generation it was made for.                                             *)
(***************************************************************************)
EXTENDS GraphStore, PublicationRegistry, StatusStore

CONSTANTS
  Workers,
  NoWorker,
  Decodes(_),         \* decode_graph(DecryptForRuntime) on a graph's bodies
  Compiles(_),        \* build_prepared and RuntimeSnapshot::compile
  Shutdowns           \* may the process be asked to stop?

ASSUME WorkerAssumption ==
  /\ NoWorker \notin Workers
  /\ Workers # {}
  /\ Shutdowns \in BOOLEAN

VARIABLES
  lifecycle,          \* "Running" or "Stopped"
  latestGeneration,
  target,             \* the latest submission; generation 0 is None
  committed,          \* stored graph of the last publication; revision 0 is None
  cancelled,          \* the cancelled tokens
  activeCancellation, \* the token of the latest submission; 0 is None
  workerTx,           \* whose channel worker_tx sends to
  workerTask,         \* whose JoinHandle worker_task is
  records,            \* PublicationRegistry.records
  publishedRevision,  \* PublicationRegistry.published_revision; 0 is None
  runtime,            \* the published snapshot: its revision, its source graph
  status,             \* StatusStore
  sub,                \* the submission in progress
  wpc,                \* the workers' program counters
  signal,             \* is there a signal in a worker's channel (capacity 1)?
  attempted,          \* the generation a worker's attempt serves; 0 is None
  job,                \* the target prepare_latest cloned
  doomed,             \* the revision reject_publication looked up
  stopping,           \* the program counter of shutdown
  joining             \* the task it took and waits for

graphVars ==
  <<lifecycle, latestGeneration, target, committed, cancelled, activeCancellation,
    workerTx, workerTask, records, publishedRevision, runtime, status, sub, wpc,
    signal, attempted, job, doomed, stopping, joining>>

\* What the steps of each of the three actors never change.
submitFrame == <<lifecycle, stopping, joining, attempted, job, doomed, publishedRevision,
                 runtime, committed, status>>
workerFrame == <<lifecycle, stopping, joining, latestGeneration, target, cancelled,
                 activeCancellation, workerTx, workerTask, sub>>
shutdownFrame == <<latestGeneration, target, committed, records, publishedRevision,
                   runtime, status, sub, signal, attempted, job, doomed>>

-----------------------------------------------------------------------------
Nothing == [revision |-> 0, stored |-> EmptyGraph]
NoTarget == [generation |-> 0, revision |-> 0, stored |-> EmptyGraph]
NoSubmission == [pc |-> "idle", revision |-> 0, stored |-> EmptyGraph, worker |-> NoWorker]

SubmitSteps == {"check", "start", "handle", "number", "register", "token", "target", "signal"}
Publishing == {"status", "commit"}
Preparing == {"prepare", "compile", "fence"} \cup Publishing

\* write_lock: a submission or a publishing worker holds it.
WriteLockFree == sub.pc \notin SubmitSteps /\ \A w \in Workers : wpc[w] \notin Publishing

\* The `preparation` mutex, held for the whole of prepare_latest.
PreparationFree == \A w \in Workers : wpc[w] \notin Preparing

\* rx.recv() ends the worker once no sender is left and the channel is empty.
ChannelClosed(w) == workerTx # w

\* The gate of replace_all and apply_watch: decode, then validate.
Accepts(graph) == Decodes(BodiesOf(graph)) /\ Valid(BodiesOf(graph))

GraphInit ==
  /\ lifecycle = "Running"
  /\ latestGeneration = 0
  /\ target = NoTarget
  /\ committed = Nothing
  /\ cancelled = {}
  /\ activeCancellation = 0
  /\ workerTx = NoWorker
  /\ workerTask = NoWorker
  /\ records = EmptyRegistry
  /\ publishedRevision = 0
  /\ runtime = Nothing
  /\ status = InitStatus
  /\ sub = NoSubmission
  /\ wpc = [w \in Workers |-> "none"]
  /\ signal = [w \in Workers |-> FALSE]
  /\ attempted = [w \in Workers |-> 0]
  /\ job = [w \in Workers |-> NoTarget]
  /\ doomed = [w \in Workers |-> 0]
  /\ stopping = "none"
  /\ joining = NoWorker

-----------------------------------------------------------------------------
(***************************************************************************)
(* submit(stored, logical).  Its callers set sub to [pc |-> "check", ...]  *)
(* while acquiring write_lock; it ends with sub.pc = "ok" or "stopped".    *)
(***************************************************************************)
SubmitGoes(pc) == sub' = [sub EXCEPT !.pc = pc]

\* ensure_worker_started: the lifecycle check.
SubmitCheck ==
  /\ sub.pc = "check"
  /\ SubmitGoes(IF lifecycle = "Running" THEN "start" ELSE "stopped")
  /\ UNCHANGED <<submitFrame, latestGeneration, records, cancelled, activeCancellation,
                 target, signal, workerTx, workerTask, wpc>>

\* ensure_worker_started: a worker is there, or one is spawned.
SubmitStart ==
  /\ sub.pc = "start"
  /\ \/ /\ workerTx # NoWorker
        /\ SubmitGoes("number")
        /\ UNCHANGED <<workerTx, wpc>>
     \/ /\ workerTx = NoWorker
        /\ \E w \in Workers :
             /\ wpc[w] = "none"
             /\ workerTx' = w
             /\ wpc' = [wpc EXCEPT ![w] = "recv"]
             /\ sub' = [sub EXCEPT !.pc = "handle", !.worker = w]
  /\ UNCHANGED <<submitFrame, latestGeneration, records, cancelled, activeCancellation,
                 target, signal, workerTask>>

\* ... and then its JoinHandle is stored.
SubmitHandle ==
  /\ sub.pc = "handle"
  /\ SubmitGoes("number")
  /\ workerTask' = sub.worker
  /\ UNCHANGED <<submitFrame, latestGeneration, records, cancelled, activeCancellation,
                 target, signal, workerTx, wpc>>

SubmitNumber ==
  /\ sub.pc = "number"
  /\ SubmitGoes("register")
  /\ latestGeneration' = latestGeneration + 1
  /\ UNCHANGED <<submitFrame, records, cancelled, activeCancellation, target, signal,
                 workerTx, workerTask, wpc>>

SubmitRegister ==
  /\ sub.pc = "register"
  /\ SubmitGoes("token")
  /\ records' = SupersedePendingExcept(Pending(records, sub.revision), sub.revision)
  /\ UNCHANGED <<submitFrame, latestGeneration, cancelled, activeCancellation, target,
                 signal, workerTx, workerTask, wpc>>

\* Mutant of CancelledBySubmit: the displaced token is not cancelled.
NotCancelled(token) == {}

\* previous.cancel(), if there was an active token.
CancelledBySubmit(token) == {token} \ {0}

\* The new token replaces the active one, which is cancelled.
SubmitToken ==
  /\ sub.pc = "token"
  /\ SubmitGoes("target")
  /\ cancelled' = cancelled \cup CancelledBySubmit(activeCancellation)
  /\ activeCancellation' = latestGeneration
  /\ UNCHANGED <<submitFrame, latestGeneration, records, target, signal, workerTx,
                 workerTask, wpc>>

SubmitTarget ==
  /\ sub.pc = "target"
  /\ SubmitGoes("signal")
  /\ target' = [generation |-> latestGeneration, revision |-> sub.revision,
                stored |-> sub.stored]
  /\ UNCHANGED <<submitFrame, latestGeneration, records, cancelled, activeCancellation,
                 signal, workerTx, workerTask, wpc>>

\* Mutant of SubmitSignal: only a worker that waits is signalled.
SignalIfWaiting ==
  /\ sub.pc = "signal"
  /\ SubmitGoes("ok")
  /\ signal' = [w \in Workers |-> signal[w] \/ (w = workerTx /\ wpc[w] = "recv")]
  /\ UNCHANGED <<submitFrame, latestGeneration, records, cancelled, activeCancellation,
                 target, workerTx, workerTask, wpc>>

\* worker_tx.clone() and try_send: a full channel already holds a signal; a
\* closed one (its worker is gone) or none is WorkerStopped.
SubmitSignal ==
  /\ sub.pc = "signal"
  /\ LET reached == workerTx # NoWorker /\ wpc[workerTx] # "done"
     IN  /\ SubmitGoes(IF reached THEN "ok" ELSE "stopped")
         /\ signal' = IF reached THEN [signal EXCEPT ![workerTx] = TRUE] ELSE signal
  /\ UNCHANGED <<submitFrame, latestGeneration, records, cancelled, activeCancellation,
                 target, workerTx, workerTask, wpc>>

Submit ==
  \/ SubmitCheck
  \/ SubmitStart
  \/ SubmitHandle
  \/ SubmitNumber
  \/ SubmitRegister
  \/ SubmitToken
  \/ SubmitTarget
  \/ SubmitSignal

-----------------------------------------------------------------------------
(***************************************************************************)
(* The worker.  prepare_latest is Take .. Commit; it returns Settled by    *)
(* going back to "recv".                                                   *)
(***************************************************************************)
Goes(w, pc) == wpc' = [wpc EXCEPT ![w] = pc]

\* rx.recv(): a signal, or the end.
Receive(w) ==
  /\ wpc[w] = "recv"
  /\ \/ signal[w] /\ signal' = [signal EXCEPT ![w] = FALSE] /\ Goes(w, "snap")
     \/ ~signal[w] /\ ChannelClosed(w) /\ Goes(w, "done") /\ UNCHANGED signal
  /\ UNCHANGED <<workerFrame, attempted, job, doomed, records, publishedRevision,
                 runtime, committed, status>>

\* let attempted = graph.current_target()
Snap(w) ==
  /\ wpc[w] = "snap"
  /\ attempted' = [attempted EXCEPT ![w] = target.generation]
  /\ Goes(w, "take")
  /\ UNCHANGED <<workerFrame, job, doomed, signal, records, publishedRevision, runtime,
                 committed, status>>

\* Acquire `preparation` and clone the target.
Take(w) ==
  /\ wpc[w] = "take"
  /\ PreparationFree
  /\ job' = [job EXCEPT ![w] = target]
  /\ Goes(w, IF target.generation = 0 THEN "recv" ELSE "prepare")
  /\ UNCHANGED <<workerFrame, attempted, doomed, signal, records, publishedRevision,
                 runtime, committed, status>>

\* cancellation.cancelled() wins either select! of prepare_latest.
Settle(w) ==
  /\ wpc[w] \in {"prepare", "compile"}
  /\ job[w].generation \in cancelled
  /\ Goes(w, "recv")
  /\ UNCHANGED <<workerFrame, attempted, job, doomed, signal, records,
                 publishedRevision, runtime, committed, status>>

\* prepare_candidate: DNS resolution succeeds.
PrepareOk(w) ==
  /\ wpc[w] = "prepare"
  /\ Goes(w, "compile")
  /\ UNCHANGED <<workerFrame, attempted, job, doomed, signal, records,
                 publishedRevision, runtime, committed, status>>

\* It fails: Transient.  The status is updated before the decision to back off.
PrepareFails(w) ==
  /\ wpc[w] = "prepare"
  /\ status' = RecordPreparationError(status)
  /\ Goes(w, "failed")
  /\ UNCHANGED <<workerFrame, attempted, job, doomed, signal, records,
                 publishedRevision, runtime, committed>>

\* is_current_generation(attempted): at once with the newer target, or wait.
AfterTransient(w) ==
  /\ wpc[w] = "failed"
  /\ Goes(w, IF attempted[w] # latestGeneration THEN "snap" ELSE "backoff")
  /\ UNCHANGED <<workerFrame, attempted, job, doomed, signal, records,
                 publishedRevision, runtime, committed, status>>

\* The backoff is over, or the attempted generation is cancelled during it.
Backoff(w) ==
  /\ wpc[w] = "backoff"
  /\ \/ Goes(w, "snap")
     \/ attempted[w] \in cancelled /\ Goes(w, "recv")
  /\ UNCHANGED <<workerFrame, attempted, job, doomed, signal, records,
                 publishedRevision, runtime, committed, status>>

\* build_prepared and compile, on the blocking pool: done, or Permanent.
Compile(w) ==
  /\ wpc[w] = "compile"
  /\ Goes(w, IF Compiles(BodiesOf(job[w].stored)) THEN "fence" ELSE "reject")
  /\ UNCHANGED <<workerFrame, attempted, job, doomed, signal, records,
                 publishedRevision, runtime, committed, status>>

\* Mutant of RejectsRevision: the generation filter is forgotten.
RejectsAnyTarget(generation) == TRUE

\* reject_publication: the target's revision, if it is still that generation's.
RejectsRevision(generation) == target.generation = generation

Reject(w) ==
  /\ wpc[w] = "reject"
  /\ IF RejectsRevision(attempted[w])
       THEN /\ doomed' = [doomed EXCEPT ![w] = target.revision]
            /\ Goes(w, "rejecting")
            /\ UNCHANGED status
       ELSE /\ status' = RecordPreparationError(status)
            /\ Goes(w, "rejected")
            /\ UNCHANGED doomed
  /\ UNCHANGED <<workerFrame, attempted, job, signal, records, publishedRevision,
                 runtime, committed>>

RejectRevision(w) ==
  /\ wpc[w] = "rejecting"
  /\ records' = Rejected(records, doomed[w])
  /\ status' = RecordPreparationError(status)
  /\ Goes(w, "rejected")
  /\ UNCHANGED <<workerFrame, attempted, job, doomed, signal, publishedRevision,
                 runtime, committed>>

\* A permanent failure waits for its generation to be superseded.
AwaitSuperseded(w) ==
  /\ wpc[w] = "rejected"
  /\ attempted[w] \in cancelled
  /\ Goes(w, "recv")
  /\ UNCHANGED <<workerFrame, attempted, job, doomed, signal, records,
                 publishedRevision, runtime, committed, status>>

\* Mutants of Fenced: the generation is not looked at; a revision that is
\* already published is not published again.
FencedByRevision(w) == job[w].revision < runtime.revision
FencedIfPublished(w) ==
  \/ job[w].generation \in cancelled
  \/ latestGeneration # job[w].generation
  \/ job[w].revision <= runtime.revision

\* The fence: a newer submission, or an older revision than the published one.
Fenced(w) ==
  \/ job[w].generation \in cancelled
  \/ latestGeneration # job[w].generation
  \/ job[w].revision < runtime.revision

\* Under write_lock: discard, or runtime.publish up to the snapshot swap.
Fence(w) ==
  /\ wpc[w] = "fence"
  /\ WriteLockFree
  /\ IF Fenced(w)
       THEN Goes(w, "recv") /\ UNCHANGED runtime
       ELSE /\ runtime' = [revision |-> job[w].revision, stored |-> job[w].stored]
            /\ Goes(w, "status")
  /\ UNCHANGED <<workerFrame, attempted, job, doomed, signal, records,
                 publishedRevision, committed, status>>

\* runtime.publish: status.set_published_revision.
PublishStatus(w) ==
  /\ wpc[w] = "status"
  /\ status' = SetPublishedRevision(status, job[w].revision)
  /\ Goes(w, "commit")
  /\ UNCHANGED <<workerFrame, attempted, job, doomed, signal, records,
                 publishedRevision, runtime, committed>>

\* The committed graph and the registry, then write_lock is released.
Commit(w) ==
  /\ wpc[w] = "commit"
  /\ committed' = [revision |-> job[w].revision, stored |-> job[w].stored]
  /\ records' = Published(records, job[w].revision)
  /\ publishedRevision' = job[w].revision
  /\ Goes(w, "recv")
  /\ UNCHANGED <<workerFrame, attempted, job, doomed, signal, runtime, status>>

WorkerStep(w) ==
  \/ Receive(w)
  \/ Snap(w)
  \/ Take(w)
  \/ Settle(w)
  \/ PrepareOk(w)
  \/ PrepareFails(w)
  \/ AfterTransient(w)
  \/ Backoff(w)
  \/ Compile(w)
  \/ Reject(w)
  \/ RejectRevision(w)
  \/ AwaitSuperseded(w)
  \/ Fence(w)
  \/ PublishStatus(w)
  \/ Commit(w)

-----------------------------------------------------------------------------
(***************************************************************************)
(* shutdown, run by GraphShutdownService when the process is told to stop. *)
(* It does not take write_lock.                                            *)
(***************************************************************************)
\* ShutdownWatch turns true; the sync task sees it too.
RequestShutdown ==
  /\ Shutdowns
  /\ stopping = "none"
  /\ stopping' = "requested"
  /\ UNCHANGED <<shutdownFrame, joining, lifecycle, cancelled, activeCancellation, workerTx,
                 workerTask, wpc>>

Stop ==
  /\ stopping = "requested"
  /\ lifecycle' = "Stopped"
  /\ stopping' = "cancel"
  /\ UNCHANGED <<shutdownFrame, joining, cancelled, activeCancellation, workerTx,
                 workerTask, wpc>>

CancelActive ==
  /\ stopping = "cancel"
  /\ cancelled' = cancelled \cup ({activeCancellation} \ {0})
  /\ activeCancellation' = 0
  /\ stopping' = "close"
  /\ UNCHANGED <<shutdownFrame, joining, lifecycle, workerTx, workerTask, wpc>>

CloseChannel ==
  /\ stopping = "close"
  /\ workerTx' = NoWorker
  /\ stopping' = "take"
  /\ UNCHANGED <<shutdownFrame, joining, lifecycle, cancelled, activeCancellation,
                 workerTask, wpc>>

\* worker_task.take()
TakeTask ==
  /\ stopping = "take"
  /\ joining' = workerTask
  /\ workerTask' = NoWorker
  /\ stopping' = IF workerTask = NoWorker THEN "done" ELSE "join"
  /\ UNCHANGED <<shutdownFrame, lifecycle, cancelled, activeCancellation, workerTx, wpc>>

\* The await points at which abort() can end the task.
AwaitPoints == {"recv", "take", "prepare", "compile", "backoff", "rejected"}

\* Mutant of Join: without the deadline.
JoinWithoutAbort ==
  /\ stopping = "join"
  /\ wpc[joining] = "done"
  /\ stopping' = "done"
  /\ UNCHANGED <<shutdownFrame, lifecycle, cancelled, activeCancellation, workerTx,
                 workerTask, wpc, joining>>

\* The task ended, or five seconds passed and it is aborted.
Join ==
  /\ stopping = "join"
  /\ \/ wpc[joining] = "done" /\ UNCHANGED wpc
     \/ wpc[joining] \in AwaitPoints /\ wpc' = [wpc EXCEPT ![joining] = "done"]
  /\ stopping' = "done"
  /\ UNCHANGED <<shutdownFrame, lifecycle, cancelled, activeCancellation, workerTx,
                 workerTask, joining>>

Shutdown ==
  \/ Stop
  \/ CancelActive
  \/ CloseChannel
  \/ TakeTask
  \/ Join

-----------------------------------------------------------------------------
(***************************************************************************)
(* The types of the variables, by the actor that changes them most.        *)
(***************************************************************************)
Snapshots == [revision : Nat, stored : Graphs]
Targets == [generation : Nat, revision : Nat, stored : Graphs]
Submissions == [pc : SubmitSteps \cup {"idle", "ok", "stopped"}, revision : Nat,
                stored : Graphs, worker : Workers \cup {NoWorker}]
WorkerPCs == {"none", "recv", "snap", "take", "failed", "backoff", "reject",
              "rejecting", "rejected", "done"} \cup Preparing

SubmitTypeOK ==
  /\ latestGeneration \in Nat
  /\ target \in Targets
  /\ cancelled \in SUBSET Nat
  /\ activeCancellation \in Nat
  /\ workerTx \in Workers \cup {NoWorker}
  /\ workerTask \in Workers \cup {NoWorker}
  /\ sub \in Submissions
  /\ signal \in [Workers -> BOOLEAN]

WorkerTypeOK ==
  /\ committed \in Snapshots
  /\ publishedRevision \in Nat
  /\ runtime \in Snapshots
  /\ wpc \in [Workers -> WorkerPCs]
  /\ attempted \in [Workers -> Nat]
  /\ job \in [Workers -> Targets]
  /\ doomed \in [Workers -> Nat]

ShutdownTypeOK ==
  /\ lifecycle \in {"Running", "Stopped"}
  /\ stopping \in {"none", "requested", "cancel", "close", "take", "join", "done"}
  /\ joining \in Workers \cup {NoWorker}
  /\ stopping = "join" => joining \in Workers

GraphTypeOK ==
  /\ SubmitTypeOK
  /\ WorkerTypeOK
  /\ ShutdownTypeOK
  /\ IsRegistry(records)
  /\ status \in Status(Nat)

=============================================================================
