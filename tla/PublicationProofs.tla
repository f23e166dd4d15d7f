-------------------------- MODULE PublicationProofs --------------------------
(***************************************************************************)
(* Theorems about what ControlPlane publishes and reports, for any         *)
(* resources, writers, faults, relists, retries and number of workers: the *)
(* data plane is a replica of etcd's log (ConfigReplica), the registry     *)
(* tells Admin clients the truth, and the one-slot signal channel between  *)
(* submit and the worker loses no submission.                              *)
(***************************************************************************)
EXTENDS ControlPlaneProofs

(***************************************************************************)
(* What a step of each actor can and cannot do.                            *)
(***************************************************************************)
\* The sync task (sync.rs) changes its own state, the status and the
\* submission only.
LEMMA SyncEffect ==
  ASSUME SyncStep \/ SyncFault \/ SyncStops \/ OutageGrows
  PROVE  UNCHANGED syncFrame
  BY DEF SyncStep, ListOk, ListUnmappable, ReplaceAll, Replaced, SubmissionStopped,
         OpenWatch, WatchProgress, WatchUnmappable, ApplyWatch, Applied, SyncFault,
         ListFails, WatchFails, WatchEnds, SyncStops, OutageGrows

\* submit (state.rs) replaces the target in one place, after it took the next
\* generation, and spawns a worker only when there is no channel to one.
LEMMA SubmitEffect ==
  ASSUME PlaneInv, Generations, Submit
  PROVE  /\ UNCHANGED submitFrame
         /\ sub.pc \in SubmitSteps /\ sub.pc # "idle"
         /\ sub'.revision = sub.revision /\ sub'.stored = sub.stored
         /\ \/ target' = target /\ sub'.pc # "signal" /\ sub.pc # "target"
            \/ /\ sub.pc = "target" /\ sub'.pc = "signal"
               /\ latestGeneration' = latestGeneration
               /\ latestGeneration = target.generation + 1
               /\ target'.generation = latestGeneration
               /\ target'.revision = sub.revision /\ target'.stored = sub.stored
         /\ sub'.pc = "ok" => sub.pc = "signal"
         /\ \A w \in Workers :
              wpc'[w] = wpc[w] \/ (wpc[w] = "none" /\ wpc'[w] = "recv")
<1>1. sub \in Submissions /\ wpc \in [Workers -> WorkerPCs]
  BY DEF PlaneInv, TypeOK, GraphTypeOK, SubmitTypeOK, WorkerTypeOK
<1>2. UNCHANGED submitFrame
  BY DEF Submit, SubmitCheck, SubmitStart, SubmitHandle, SubmitNumber, SubmitRegister,
         SubmitToken, SubmitTarget, SubmitSignal
<1>3. sub.pc \in SubmitSteps /\ sub.pc # "idle"
  BY DEF Submit, SubmitCheck, SubmitStart, SubmitHandle, SubmitNumber, SubmitRegister,
         SubmitToken, SubmitTarget, SubmitSignal, SubmitSteps
<1>4. sub'.revision = sub.revision /\ sub'.stored = sub.stored
  BY <1>1 DEF Submit, SubmitCheck, SubmitStart, SubmitHandle, SubmitNumber, SubmitRegister,
         SubmitToken, SubmitTarget, SubmitSignal, SubmitGoes, Submissions
<1>5. \A w \in Workers : wpc'[w] = wpc[w] \/ (wpc[w] = "none" /\ wpc'[w] = "recv")
  BY <1>1 DEF Submit, SubmitCheck, SubmitStart, SubmitHandle, SubmitNumber, SubmitRegister,
         SubmitToken, SubmitTarget, SubmitSignal
<1>6. CASE SubmitTarget
  <2>1. sub.pc = "target" /\ sub'.pc = "signal"
    BY <1>1, <1>6 DEF SubmitTarget, SubmitGoes, Submissions
  <2>2. /\ latestGeneration' = latestGeneration
        /\ target'.generation = latestGeneration
        /\ target'.revision = sub.revision /\ target'.stored = sub.stored
    BY <1>6 DEF SubmitTarget
  <2>3. latestGeneration = target.generation + 1
    BY <2>1 DEF Generations, Numbering
  <2> QED
    BY <1>2, <1>3, <1>4, <1>5, <2>1, <2>2, <2>3
<1>7. CASE SubmitCheck \/ SubmitStart \/ SubmitHandle \/ SubmitNumber \/ SubmitRegister
           \/ SubmitToken \/ SubmitSignal
  <2>1. target' = target /\ sub'.pc # "signal" /\ sub.pc # "target"
        /\ (sub'.pc = "ok" => sub.pc = "signal")
    BY <1>1, <1>7 DEF SubmitCheck, SubmitStart, SubmitHandle, SubmitNumber,
         SubmitRegister, SubmitToken, SubmitSignal, SubmitGoes, Submissions
  <2> QED
    BY <1>2, <1>3, <1>4, <1>5, <2>1
<1> QED
  BY <1>6, <1>7 DEF Submit

\* A worker changes its own state only, and what it publishes.
LEMMA WorkerEffect ==
  ASSUME PlaneInv, NEW w \in Workers, WorkerStep(w)
  PROVE  /\ UNCHANGED workerFrame
         /\ \A v \in Workers \ {w} :
              /\ wpc'[v] = wpc[v] /\ job'[v] = job[v] /\ attempted'[v] = attempted[v]
              /\ doomed'[v] = doomed[v] /\ signal'[v] = signal[v]
<1>1. /\ wpc \in [Workers -> WorkerPCs] /\ job \in [Workers -> Targets]
      /\ attempted \in [Workers -> Nat] /\ doomed \in [Workers -> Nat]
      /\ signal \in [Workers -> BOOLEAN]
  BY DEF PlaneInv, TypeOK, GraphTypeOK, WorkerTypeOK, SubmitTypeOK
<1>2. UNCHANGED workerFrame
  BY DEF WorkerStep, Receive, Snap, Take, Settle, PrepareOk, PrepareFails, AfterTransient,
         Backoff, Compile, Reject, RejectRevision, AwaitSuperseded, Fence, PublishStatus,
         Commit
<1>3. \A v \in Workers \ {w} : wpc'[v] = wpc[v] /\ job'[v] = job[v]
  BY <1>1 DEF WorkerStep, Receive, Snap, Take, Settle, PrepareOk, PrepareFails,
         AfterTransient, Backoff, Compile, Reject, RejectRevision, AwaitSuperseded, Fence,
         PublishStatus, Commit, Goes
<1>4. \A v \in Workers \ {w} : /\ attempted'[v] = attempted[v] /\ doomed'[v] = doomed[v]
                               /\ signal'[v] = signal[v]
  BY <1>1 DEF WorkerStep, Receive, Snap, Take, Settle, PrepareOk, PrepareFails,
         AfterTransient, Backoff, Compile, Reject, RejectRevision, AwaitSuperseded, Fence,
         PublishStatus, Commit
<1> QED
  BY <1>2, <1>3, <1>4

\* Shutdown (authority.rs) ends workers and touches no graph.
LEMMA ShutdownEffect ==
  ASSUME PlaneInv, RequestShutdown \/ Shutdown
  PROVE  /\ UNCHANGED shutdownFrame
         /\ \A w \in Workers : wpc'[w] \in {wpc[w], "done"}
<1>1. wpc \in [Workers -> WorkerPCs]
  BY DEF PlaneInv, TypeOK, GraphTypeOK, WorkerTypeOK
<1> QED
  BY <1>1 DEF RequestShutdown, Shutdown, Stop, CancelActive, CloseChannel, TakeTask, Join

-----------------------------------------------------------------------------
(***************************************************************************)
(* The inductive invariant.  A graph is screened by the sync task when it  *)
(* maps, decodes and validates; what is submitted, targeted and taken by a *)
(* worker is screened, and what waits at the fence also compiles.  A watch *)
(* batch is checked for malformed keys on its own, so that the layered     *)
(* graph maps rests on the screening of the target it is layered on.       *)
(***************************************************************************)
Screened(graph) == Mappable(graph) /\ Accepts(graph)

Screening ==
  /\ sub.pc # "idle" => Screened(sub.stored)
  /\ target.generation # 0 => Screened(target.stored)
  /\ sync \in {"open", "watching"} => Screened(target.stored)
  /\ \A w \in Workers :
       /\ job[w].generation # 0 => Screened(job[w].stored)
       /\ wpc[w] \in {"prepare", "compile", "fence"} => job[w].generation # 0
       /\ wpc[w] = "fence" => Compiles(BodiesOf(job[w].stored))

\* Nothing is in flight when the gateway starts.
LEMMA ScreeningInit == Init => Screening
  BY DEF Init, GraphInit, SyncInit, Screening, NoSubmission, NoTarget

\* submit hands over the screened graph as it is.
LEMMA ScreeningSubmit ==
  ASSUME PlaneInv, Generations, Screening, Submit, UNCHANGED <<storeVars, syncVars>>
  PROVE  Screening'
<1>1. UNCHANGED <<job, sync>> /\ Screened(sub.stored)
  BY SubmitEffect DEF submitFrame, syncVars, Screening
<1> QED
  BY <1>1, SubmitEffect DEF Screening

\* The worker takes the screened target, and goes to the fence only with a
\* graph that compiled.
LEMMA ScreeningWorker ==
  ASSUME PlaneInv, Screening, NEW w \in Workers, WorkerStep(w),
         UNCHANGED <<storeVars, syncVars>>
  PROVE  Screening'
<1>1. wpc \in [Workers -> WorkerPCs] /\ job \in [Workers -> Targets]
  BY DEF PlaneInv, TypeOK, GraphTypeOK, WorkerTypeOK
<1>2. /\ UNCHANGED <<sub, target, sync>>
      /\ \A v \in Workers \ {w} : wpc'[v] = wpc[v] /\ job'[v] = job[v]
  BY WorkerEffect DEF workerFrame, syncVars
<1>3. /\ job'[w].generation # 0 => Screened(job'[w].stored)
      /\ wpc'[w] \in {"prepare", "compile", "fence"} => job'[w].generation # 0
      /\ wpc'[w] = "fence" => Compiles(BodiesOf(job'[w].stored))
  <2>1. CASE Take(w)
    BY <1>1, <2>1 DEF Take, Goes, Screening
  <2>2. CASE PrepareOk(w)
    BY <1>1, <2>2 DEF PrepareOk, Goes, Screening
  <2>3. CASE Compile(w)
    BY <1>1, <2>3 DEF Compile, Goes, Screening
  <2>4. CASE \/ Receive(w) \/ Snap(w) \/ Settle(w) \/ PrepareFails(w) \/ AfterTransient(w)
             \/ Backoff(w) \/ Reject(w) \/ RejectRevision(w) \/ AwaitSuperseded(w)
             \/ Fence(w) \/ PublishStatus(w) \/ Commit(w)
    <3>1. job' = job /\ wpc'[w] \notin {"prepare", "compile", "fence"}
      BY <1>1, <2>4 DEF Receive, Snap, Settle, PrepareFails, AfterTransient, Backoff, Reject,
             RejectRevision, AwaitSuperseded, Fence, PublishStatus, Commit, Goes
    <3> QED
      BY <3>1 DEF Screening
  <2> QED
    BY <2>1, <2>2, <2>3, <2>4 DEF WorkerStep
<1> QED
  BY <1>2, <1>3 DEF Screening

\* What the sync task submits is screened: a list as a whole, a watch batch
\* by its keys and then as a whole.
LEMMA ScreeningSync ==
  ASSUME PlaneInv, Screening, SyncStep \/ SyncFault \/ SyncStops \/ OutageGrows
  PROVE  Screening'
<1>1. UNCHANGED <<target, job, wpc>>
  BY SyncEffect DEF syncFrame
<1>2. SUFFICES /\ sub'.pc # "idle" => Screened(sub'.stored)
               /\ sync' \in {"open", "watching"} => Screened(target.stored)
  BY <1>1 DEF Screening
<1>3. NoSubmission.pc = "idle" /\ \A r, g : Submission(r, g).stored = g
  BY DEF NoSubmission, Submission
<1>4. CASE ReplaceAll
  BY <1>3, <1>4 DEF ReplaceAll, Screening, Screened
<1>5. CASE Replaced \/ Applied
  <2>1. sub.pc = "ok" /\ sub' = NoSubmission
    BY <1>5 DEF Replaced, Applied
  <2>2. target.stored = sub.stored /\ Screened(sub.stored)
    BY <2>1 DEF PlaneInv, InStep, Screening
  <2> QED
    BY <1>3, <2>1, <2>2
<1>6. CASE SubmissionStopped
  BY <1>3, <1>6 DEF SubmissionStopped
<1>7. CASE ApplyWatch
  <2>1. sync = "watching" /\ Screened(target.stored)
    BY <1>7 DEF ApplyWatch, Screening
  <2>2. PICK to \in cursor + 1 .. Revision :
          /\ EventKeys(cursor, to) \cap MalformedKeys = {}
          /\ \/ /\ Accepts(Layered(WatchBase, cursor, to))
                /\ sub' = Submission(BatchRevision(cursor, to), Layered(WatchBase, cursor, to))
                /\ sync' = "applying"
             \/ sync' = "list" /\ sub' = sub
    BY <1>7 DEF ApplyWatch, WatchVerdict
  <2>3. Mappable(Layered(WatchBase, cursor, to))
    BY <2>1, <2>2, StoreAssumption DEF Mappable, Exists, Layered, WatchBase, Screened
  <2> QED
    BY <1>3, <2>2, <2>3 DEF Screened, Screening
<1>8. CASE sub' = sub /\ (sync' \in {"open", "watching"} => sync \in {"open", "watching"})
  BY <1>8 DEF Screening
<1> QED
  BY <1>4, <1>5, <1>6, <1>7, <1>8
     DEF SyncStep, ListOk, ListUnmappable, OpenWatch, WatchProgress, WatchUnmappable,
         SyncFault, ListFails, WatchFails, WatchEnds, SyncStops, OutageGrows, syncVars

\* Every step of the control plane keeps the screening.
LEMMA ScreeningInductive ==
  PlaneInv /\ Generations /\ Screening /\ [Next]_vars => Screening'
<1> SUFFICES ASSUME PlaneInv, Generations, Screening, [Next]_vars PROVE Screening'
  OBVIOUS
<1>1. CASE UNCHANGED <<sub, target, job, sync, wpc>>
  BY <1>1 DEF Screening
<1>2. CASE (RequestShutdown \/ Shutdown) /\ UNCHANGED <<storeVars, syncVars>>
  <2>1. UNCHANGED <<sub, target, job, sync>>
    BY <1>2, ShutdownEffect DEF shutdownFrame, syncVars
  <2> QED
    BY <1>2, <2>1, ShutdownEffect DEF Screening
<1> QED
  BY <1>1, <1>2, ScreeningSubmit, ScreeningWorker, ScreeningSync
     DEF Next, RecordPending, Reply, vars, graphVars, syncVars

-----------------------------------------------------------------------------
(***************************************************************************)
(* The refinement, step by step.                                           *)
(***************************************************************************)
\* A step of the store either leaves etcd's log as it is or adds one graph.
LEMMA StoreExtendsLog ==
  ASSUME PlaneInv, (\E a \in Admins : AdminStep(a)) \/ EnvironmentStep
  PROVE  \/ history' = history
         \/ /\ Len(history') = Len(history) + 1
            /\ SubSeq(history', 1, Len(history)) = history
<1>1. history \in Seq(Graphs) /\ Current \in Graphs
  BY CurrentInGraphs DEF PlaneInv, TypeOK, StoreTypeOK
<1>2. ASSUME NEW graph, history' = Append(history, graph)
      PROVE  /\ Len(history') = Len(history) + 1
             /\ SubSeq(history', 1, Len(history)) = history
  BY <1>1, <1>2
<1>3. history' = history \/ \E graph : history' = Append(history, graph)
  BY DEF AdminStep, Snapshot, PlanPut, PlanDelete, CommitOk, CommitFails, EnvironmentStep,
         ForeignWrite, DirectWrite, Write
<1> QED
  BY <1>2, <1>3

\* Only the fence changes what the data plane runs.
LEMMA OnlyFencePublishes ==
  ASSUME PlaneInv, Generations, Next, runtime' # runtime
  PROVE  \E w \in Workers : Fence(w) /\ ~Fenced(w) /\ UNCHANGED storeVars
<1>1. ASSUME UNCHANGED graphVars PROVE FALSE
  BY <1>1 DEF graphVars
<1>2. ASSUME \E a \in Admins : RecordPending(a) \/ Reply(a) PROVE FALSE
  BY <1>2 DEF RecordPending, Reply, graphVars
<1>3. ASSUME RequestShutdown \/ Shutdown PROVE FALSE
  BY <1>3, ShutdownEffect DEF shutdownFrame
<1>4. ASSUME Submit PROVE FALSE
  BY <1>4, SubmitEffect DEF submitFrame
<1>5. ASSUME SyncStep \/ SyncFault \/ SyncStops \/ OutageGrows PROVE FALSE
  BY <1>5, SyncEffect DEF syncFrame
<1>6. PICK w \in Workers : WorkerStep(w) /\ UNCHANGED storeVars
  BY <1>1, <1>2, <1>3, <1>4, <1>5 DEF Next
<1>7. Fence(w) /\ ~Fenced(w)
  BY <1>6 DEF WorkerStep, Receive, Snap, Take, Settle, PrepareOk, PrepareFails,
         AfterTransient, Backoff, Compile, Reject, RejectRevision, AwaitSuperseded, Fence,
         PublishStatus, Commit
<1> QED
  BY <1>6, <1>7

\* A publication goes forward in the log, to a usable graph.
LEMMA PublicationCatchesUp ==
  ASSUME PlaneInv, Screening, NEW w \in Workers, Fence(w), ~Fenced(w), UNCHANGED storeVars,
         runtime' # runtime
  PROVE  Replica!CatchUp
<1> DEFINE r == job[w].revision
<1>1. /\ job[w] \in Targets /\ runtime \in Snapshots /\ Revision \in Nat
      /\ Len(history) = Revision + 1
  BY CurrentInGraphs DEF PlaneInv, TypeOK, GraphTypeOK, WorkerTypeOK, StoreTypeOK, Revision
<1>2. /\ r \in 0 .. Revision /\ job[w].stored = At(r)
      /\ runtime.revision \in 0 .. Revision /\ runtime.stored = At(runtime.revision)
  BY DEF PlaneInv, InFlight, Held
<1>3. /\ runtime' = [revision |-> r, stored |-> job[w].stored]
      /\ ~(r < runtime.revision)
      /\ wpc[w] = "fence"
  BY DEF Fence, Fenced
<1>4. r # runtime.revision
  <2> SUFFICES ASSUME r = runtime.revision PROVE runtime' = runtime
    OBVIOUS
  <2>1. runtime' = [revision |-> runtime.revision, stored |-> runtime.stored]
    BY <1>2, <1>3
  <2> QED
    BY <1>1, <2>1 DEF Snapshots
<1>5. r \in runtime.revision + 1 .. Len(history) - 1
  BY <1>1, <1>2, <1>3, <1>4
<1>6. Publishable(job[w].stored)
  BY <1>3 DEF Screening, Screened, Publishable
<1>7. job[w].stored = history[r + 1] /\ history' = history
  BY <1>2 DEF At, storeVars
<1> QED
  BY <1>3, <1>5, <1>6, <1>7 DEF Replica!CatchUp

\* The control plane (graph_mutation/state.rs, authority.rs, etcd/sync.rs)
\* implements a replica of etcd's log: each publication moves forward in one
\* step to exactly what etcd held at a later revision, and never to a graph
\* that was undecodable, dangling or uncompilable.
THEOREM ReplicaImplemented == Spec => ImplementsReplica
<1>1. Init => Replica!ReplicaInit
  BY DEF Init, StoreInit, GraphInit, Nothing, Replica!ReplicaInit
<1>2. PlaneInv /\ Generations /\ Screening /\ [Next]_vars
        => [Replica!Extend \/ Replica!CatchUp]_(Replica!replicaVars)
  <2> SUFFICES ASSUME PlaneInv, Generations, Screening, Next,
                      ~UNCHANGED <<history, runtime>>
               PROVE  Replica!Extend \/ Replica!CatchUp
    BY DEF Replica!replicaVars, vars, storeVars, graphVars
  <2>1. CASE runtime' # runtime
    BY <2>1, OnlyFencePublishes, PublicationCatchesUp
  <2>2. CASE history' # history /\ runtime' = runtime
    <3>1. (\E a \in Admins : AdminStep(a)) \/ EnvironmentStep
      <4>1. ASSUME UNCHANGED storeVars PROVE FALSE
        BY <2>2, <4>1 DEF storeVars
      <4>2. ASSUME \E a \in Admins : RecordPending(a) \/ Reply(a) PROVE FALSE
        BY <2>2, <4>2 DEF RecordPending, Reply
      <4>3. ASSUME SyncStep \/ SyncFault \/ SyncStops \/ OutageGrows PROVE FALSE
        BY <4>1, <4>3, SyncEffect DEF syncFrame
      <4> QED
        BY <4>1, <4>2, <4>3 DEF Next
    <3> QED
      BY <2>2, <3>1, StoreExtendsLog DEF Replica!Extend
  <2> QED
    BY <2>1, <2>2
<1> QED
  BY <1>1, <1>2, PlaneInit, PlaneInductive, GenerationsInit, GenerationsInductive,
     ScreeningInit, ScreeningInductive, PTL
     DEF Spec, ImplementsReplica, Replica!ReplicaSpec

-----------------------------------------------------------------------------
(***************************************************************************)
(* The registry.  A worker looks at the target before it takes it, so the  *)
(* generation it attempts may be older than the one it serves, never newer *)
(* (Attempts): a target that still has the attempted generation is the one *)
(* that failed to compile.  And write_lock, held from the snapshot swap to *)
(* the registry update, makes the revision that is reported the one that   *)
(* runs (PublicationLock).                                                 *)
(***************************************************************************)
Busy == Preparing \cup {"take", "failed", "backoff", "reject", "rejecting", "rejected"}

Attempts ==
  \A w \in Workers :
    /\ attempted[w] <= target.generation
    /\ wpc[w] \in Busy \ {"take"} => attempted[w] <= job[w].generation

PublicationLock ==
  /\ \A v, w \in Workers : wpc[v] \in Publishing /\ wpc[w] \in Publishing => v = w
  /\ \A w \in Workers :
       wpc[w] \in Publishing => /\ runtime.revision = job[w].revision
                                /\ runtime.stored = job[w].stored
  /\ publishedRevision <= runtime.revision

\* What a worker found out about its job, and what the registry says of it.
Verdicts ==
  /\ \A w \in Workers :
       /\ wpc[w] \in {"fence"} \cup Publishing => Compiles(BodiesOf(job[w].stored))
       /\ wpc[w] = "reject" => ~Compiles(BodiesOf(job[w].stored))
       /\ wpc[w] = "rejecting" => /\ doomed[w] \in 0 .. Revision
                                  /\ ~Compiles(BodiesOf(At(doomed[w])))
  /\ \A r \in DOMAIN records : records[r] = "Rejected" => r \in 0 .. Revision
  /\ RecordsTruthful

\* No attempt is ahead of the job it led to.
LEMMA AttemptsInductive ==
  PlaneInv /\ Generations /\ Attempts /\ [Next]_vars => Attempts'
<1> SUFFICES ASSUME PlaneInv, Generations, Attempts, [Next]_vars PROVE Attempts'
  OBVIOUS
<1>1. /\ wpc \in [Workers -> WorkerPCs] /\ job \in [Workers -> Targets]
      /\ attempted \in [Workers -> Nat] /\ target \in Targets
      /\ target.generation \in Nat
  BY DEF PlaneInv, TypeOK, GraphTypeOK, WorkerTypeOK, SubmitTypeOK, Targets
<1>2. CASE UNCHANGED <<target, job, attempted, wpc>>
  BY <1>2 DEF Attempts
<1>3. CASE Submit
  <2>1. UNCHANGED <<attempted, job>>
    BY <1>3, SubmitEffect DEF submitFrame
  <2>2. target'.generation = target.generation \/ target'.generation = target.generation + 1
    BY <1>3, SubmitEffect
  <2>3. \A w \in Workers : wpc'[w] \in Busy => wpc[w] \in Busy /\ wpc'[w] = wpc[w]
    BY <1>3, SubmitEffect DEF Busy, Preparing, Publishing
  <2> QED
    BY <1>1, <2>1, <2>2, <2>3 DEF Attempts
<1>4. CASE \E w \in Workers : WorkerStep(w)
  <2>1. PICK w \in Workers : WorkerStep(w)
    BY <1>4
  <2>2. /\ target' = target
        /\ \A v \in Workers \ {w} : /\ wpc'[v] = wpc[v] /\ job'[v] = job[v]
                                    /\ attempted'[v] = attempted[v]
    BY <2>1, WorkerEffect DEF workerFrame
  <2>3. /\ attempted'[w] <= target.generation
        /\ wpc'[w] \in Busy \ {"take"} => attempted'[w] <= job'[w].generation
    <3>1. CASE Snap(w)
      BY <1>1, <3>1 DEF Snap, Goes
    <3>2. CASE Take(w)
      BY <1>1, <3>2 DEF Take, Attempts
    <3>3. CASE Receive(w)
      BY <1>1, <3>3 DEF Receive, Goes, Attempts, Busy, Preparing, Publishing
    <3>4. CASE ~Snap(w) /\ ~Take(w) /\ ~Receive(w)
      <4>1. UNCHANGED <<attempted, job>> /\ wpc[w] \in Busy \ {"take"}
        BY <2>1, <3>4 DEF WorkerStep, Settle, PrepareOk, PrepareFails, AfterTransient,
               Backoff, Compile, Reject, RejectRevision, AwaitSuperseded, Fence,
               PublishStatus, Commit, Busy, Preparing, Publishing
      <4> QED
        BY <4>1 DEF Attempts
    <3> QED
      BY <3>1, <3>2, <3>3, <3>4
  <2> QED
    BY <2>2, <2>3 DEF Attempts
<1>5. CASE RequestShutdown \/ Shutdown
  <2>1. UNCHANGED <<target, job, attempted>>
    BY <1>5, ShutdownEffect DEF shutdownFrame
  <2>2. \A w \in Workers : wpc'[w] \in Busy => wpc'[w] = wpc[w]
    BY <1>5, ShutdownEffect DEF Busy, Preparing, Publishing
  <2> QED
    BY <2>1, <2>2 DEF Attempts
<1> QED
  BY <1>2, <1>3, <1>4, <1>5, SyncEffect
     DEF Next, RecordPending, Reply, vars, graphVars, syncVars, syncFrame

\* write_lock: one worker publishes at a time, and until it has told the
\* registry the data plane runs its job.
LEMMA LockInductive ==
  PlaneInv /\ Generations /\ PublicationLock /\ [Next]_vars => PublicationLock'
<1> SUFFICES ASSUME PlaneInv, Generations, PublicationLock, [Next]_vars PROVE PublicationLock'
  OBVIOUS
<1>1. /\ wpc \in [Workers -> WorkerPCs] /\ job \in [Workers -> Targets]
      /\ publishedRevision \in Nat /\ runtime.revision \in Nat
      /\ \A w \in Workers : job[w].revision \in Nat
  BY DEF PlaneInv, TypeOK, GraphTypeOK, WorkerTypeOK, Targets, Snapshots
<1>2. ASSUME UNCHANGED <<runtime, job, publishedRevision>>,
             \A w \in Workers : wpc'[w] \in Publishing => wpc[w] \in Publishing
      PROVE  PublicationLock'
  BY <1>2 DEF PublicationLock
<1>3. CASE UNCHANGED <<runtime, job, publishedRevision, wpc>>
  BY <1>2, <1>3
<1>4. CASE Submit
  <2>1. UNCHANGED <<runtime, job, publishedRevision>>
    BY <1>4, SubmitEffect DEF submitFrame
  <2>2. \A w \in Workers : wpc'[w] \in Publishing => wpc[w] \in Publishing
    BY <1>4, SubmitEffect DEF Publishing
  <2> QED
    BY <1>2, <2>1, <2>2
<1>5. CASE RequestShutdown \/ Shutdown
  <2>1. UNCHANGED <<runtime, job, publishedRevision>>
    BY <1>5, ShutdownEffect DEF shutdownFrame
  <2>2. \A w \in Workers : wpc'[w] \in Publishing => wpc[w] \in Publishing
    BY <1>5, ShutdownEffect DEF Publishing
  <2> QED
    BY <1>2, <2>1, <2>2
<1>6. CASE \E w \in Workers : WorkerStep(w)
  <2>1. PICK w \in Workers : WorkerStep(w)
    BY <1>6
  <2>2. \A v \in Workers \ {w} : wpc'[v] = wpc[v] /\ job'[v] = job[v]
    BY <2>1, WorkerEffect
  <2>3. CASE Fence(w)
    <3>1. \A v \in Workers : wpc[v] \notin Publishing
      BY <2>3 DEF Fence, WriteLockFree
    <3>2. UNCHANGED <<job, publishedRevision>>
      BY <2>3 DEF Fence
    <3>3. \/ runtime' = runtime
          \/ /\ runtime'.revision = job[w].revision /\ runtime'.stored = job[w].stored
             /\ ~(job[w].revision < runtime.revision)
      BY <2>3 DEF Fence, Fenced
    <3>4. wpc'[w] \in Publishing => runtime'.revision = job[w].revision
                                     /\ runtime'.stored = job[w].stored
      BY <1>1, <2>3 DEF Fence, Goes, Publishing
    <3> QED
      BY <1>1, <2>2, <3>1, <3>2, <3>3, <3>4 DEF PublicationLock
  <2>4. CASE Commit(w)
    <3>1. /\ UNCHANGED <<runtime, job>> /\ publishedRevision' = job[w].revision
          /\ wpc[w] \in Publishing /\ wpc'[w] \notin Publishing
      BY <1>1, <2>4 DEF Commit, Goes, Publishing
    <3> QED
      BY <1>1, <2>2, <3>1 DEF PublicationLock
  <2>5. CASE Take(w)
    <3>1. UNCHANGED <<runtime, publishedRevision>> /\ wpc'[w] \notin Publishing
      BY <1>1, <2>5 DEF Take, Goes, Publishing
    <3> QED
      BY <2>2, <3>1 DEF PublicationLock
  <2>6. CASE ~Fence(w) /\ ~Commit(w) /\ ~Take(w)
    <3>1. UNCHANGED <<runtime, job, publishedRevision>>
      BY <2>1, <2>6 DEF WorkerStep, Receive, Snap, Settle, PrepareOk, PrepareFails,
             AfterTransient, Backoff, Compile, Reject, RejectRevision, AwaitSuperseded,
             PublishStatus
    <3>2. wpc'[w] \in Publishing => wpc[w] \in Publishing
      BY <1>1, <2>1, <2>6 DEF WorkerStep, Receive, Snap, Settle, PrepareOk, PrepareFails,
             AfterTransient, Backoff, Compile, Reject, RejectRevision, AwaitSuperseded,
             PublishStatus, Goes, Publishing
    <3> QED
      BY <1>2, <2>2, <3>1, <3>2
  <2> QED
    BY <2>3, <2>4, <2>5, <2>6
<1> QED
  BY <1>3, <1>4, <1>5, <1>6, SyncEffect
     DEF Next, RecordPending, Reply, vars, graphVars, syncVars, syncFrame

\* The operators of the registry (PublicationRegistry in state.rs): trimming,
\* registering and superseding settle nothing as rejected or published, and
\* each verdict is given to the one revision it is about.
LEMMA RegistryVerdicts ==
  ASSUME NEW recs, IsRegistry(recs), NEW revision \in Nat,
         NEW verdict \in {"Rejected", "Published"}
  PROVE  /\ \A r \in DOMAIN Pending(recs, revision) :
              Pending(recs, revision)[r] = verdict => r \in DOMAIN recs /\ recs[r] = verdict
         /\ \A r \in DOMAIN SupersedePendingExcept(recs, revision) :
              SupersedePendingExcept(recs, revision)[r] = verdict
                => r \in DOMAIN recs /\ recs[r] = verdict
         /\ \A r \in DOMAIN Rejected(recs, revision) :
              Rejected(recs, revision)[r] = verdict
                => \/ r \in DOMAIN recs /\ recs[r] = verdict
                   \/ r = revision /\ verdict = "Rejected"
         /\ \A r \in DOMAIN Published(recs, revision) :
              Published(recs, revision)[r] = verdict
                => \/ r \in DOMAIN recs /\ recs[r] = verdict
                   \/ r = revision /\ verdict = "Published"
<1>1. ASSUME NEW f, NEW r \in DOMAIN Trim(f) PROVE r \in DOMAIN f /\ Trim(f)[r] = f[r]
  BY <1>1 DEF Trim
<1>2. \A r \in DOMAIN Pending(recs, revision) :
        Pending(recs, revision)[r] = verdict => r \in DOMAIN recs /\ recs[r] = verdict
  <2> DEFINE f == [r \in DOMAIN recs \cup {revision} |->
                     IF r \in DOMAIN recs THEN recs[r] ELSE "Pending"]
  <2>1. \A r \in DOMAIN f : f[r] = verdict => r \in DOMAIN recs /\ recs[r] = verdict
    OBVIOUS
  <2>2. Pending(recs, revision) = IF revision > 0 THEN Trim(f) ELSE recs
    BY DEF Pending
  <2> HIDE DEF f
  <2> QED
    BY <1>1, <2>1, <2>2
<1>3. \A r \in DOMAIN SupersedePendingExcept(recs, revision) :
        SupersedePendingExcept(recs, revision)[r] = verdict
          => r \in DOMAIN recs /\ recs[r] = verdict
  BY DEF SupersedePendingExcept
<1>4. \A r \in DOMAIN Rejected(recs, revision) :
        Rejected(recs, revision)[r] = verdict
          => \/ r \in DOMAIN recs /\ recs[r] = verdict
             \/ r = revision /\ verdict = "Rejected"
  BY DEF Rejected
<1>5. \A r \in DOMAIN Published(recs, revision) :
        Published(recs, revision)[r] = verdict
          => \/ r \in DOMAIN recs /\ recs[r] = verdict
             \/ r = revision /\ verdict = "Published"
  <2> DEFINE known == Pending(recs, revision)
             f == [r \in DOMAIN known |-> IF r = revision THEN "Published" ELSE known[r]]
  <2>1. Published(recs, revision) = Trim(f)
    BY DEF Published
  <2>2. \A r \in DOMAIN f :
          f[r] = verdict => \/ r \in DOMAIN known /\ known[r] = verdict
                            \/ r = revision /\ verdict = "Published"
    OBVIOUS
  <2> HIDE DEF f
  <2> QED
    BY <1>1, <1>2, <2>1, <2>2
<1> QED
  BY <1>2, <1>3, <1>4, <1>5

\* etcd never rewrites a revision.
LEMMA PastKept ==
  ASSUME PlaneInv, [Next]_vars
  PROVE  \A r \in 0 .. Revision : r \in 0 .. Revision' /\ At(r)' = At(r)
<1>1. /\ history \in Seq(Graphs) /\ Len(history) = Revision + 1 /\ Revision \in Nat
      /\ history' \in Seq(Graphs) /\ Len(history') = Revision' + 1 /\ Revision' \in Nat
  <2>1. PlaneInv'
    BY PlaneInductive
  <2> QED
    BY <2>1 DEF PlaneInv, TypeOK, StoreTypeOK, Revision
<1>2. \/ history' = history
      \/ /\ Len(history') = Len(history) + 1
         /\ SubSeq(history', 1, Len(history)) = history
  <2>1. ASSUME UNCHANGED storeVars \/ \E a \in Admins : RecordPending(a) \/ Reply(a)
        PROVE  history' = history
    BY <2>1 DEF storeVars, RecordPending, Reply
  <2>2. ASSUME SyncStep \/ SyncFault \/ SyncStops \/ OutageGrows
        PROVE  UNCHANGED storeVars
    BY <2>2, SyncEffect DEF syncFrame
  <2>3. CASE UNCHANGED vars
    BY <2>1, <2>3 DEF vars
  <2> QED
    BY <2>1, <2>2, <2>3, StoreExtendsLog DEF Next
<1>3. ASSUME Len(history') = Len(history) + 1, SubSeq(history', 1, Len(history)) = history
      PROVE  \A i \in 1 .. Len(history) : history'[i] = history[i]
  <2> TAKE i \in 1 .. Len(history)
  <2>1. SubSeq(history', 1, Len(history))[i] = history'[i]
    BY <1>1, <1>3
  <2> QED
    BY <1>3, <2>1
<1>4. Revision <= Revision' /\ \A i \in 1 .. Len(history) : history'[i] = history[i]
  <2>1. CASE history' = history
    <3>1. Len(history') = Len(history)
      BY <2>1
    <3>2. Revision' = Revision
      BY <1>1, <3>1
    <3> QED
      BY <1>1, <2>1, <3>2
  <2>2. CASE history' # history
    <3>1. Len(history') = Len(history) + 1 /\ \A i \in 1 .. Len(history) : history'[i] = history[i]
      BY <1>2, <1>3, <2>2
    <3>2. Revision' = Revision + 1
      BY <1>1, <3>1
    <3> QED
      BY <1>1, <3>1, <3>2
  <2> QED
    BY <2>1, <2>2
<1>5. \A r \in 0 .. Revision : r + 1 \in 1 .. Len(history) /\ r \in 0 .. Revision'
  BY <1>1, <1>4
<1> QED
  BY <1>4, <1>5 DEF At

\* What a worker knows of its job and of the revision it dooms.
WorkerVerdict(w) ==
  /\ wpc[w] \in {"fence"} \cup Publishing => Compiles(BodiesOf(job[w].stored))
  /\ wpc[w] = "reject" => ~Compiles(BodiesOf(job[w].stored))
  /\ wpc[w] = "rejecting" => /\ doomed[w] \in 0 .. Revision
                             /\ ~Compiles(BodiesOf(At(doomed[w])))

\* A worker that does not move keeps what it knows.
LEMMA IdleWorkerVerdict ==
  ASSUME PlaneInv, [Next]_vars, NEW w \in Workers, WorkerVerdict(w),
         \/ wpc'[w] = wpc[w] /\ job'[w] = job[w] /\ doomed'[w] = doomed[w]
         \/ wpc'[w] \in {"none", "recv", "done"}
  PROVE  WorkerVerdict(w)'
<1>1. CASE wpc'[w] \in {"none", "recv", "done"}
  BY <1>1 DEF WorkerVerdict, Publishing
<1>2. CASE wpc'[w] = wpc[w] /\ job'[w] = job[w] /\ doomed'[w] = doomed[w]
  <2>1. PICK d : d = doomed[w] /\ d = doomed'[w]
    BY <1>2
  <2>2. wpc[w] = "rejecting" => d \in 0 .. Revision' /\ At(d)' = At(d)
    BY <2>1, PastKept DEF WorkerVerdict
  <2>3. At(doomed[w]) = At(d) /\ At(doomed[w])' = At(d)'
    BY <2>1 DEF At
  <2>4. BodiesOf(At(doomed[w]))' = BodiesOf(At(doomed[w])) \/ wpc[w] # "rejecting"
    BY <2>2, <2>3 DEF BodiesOf
  <2>5. BodiesOf(job[w].stored)' = BodiesOf(job[w].stored)
    BY <1>2 DEF BodiesOf
  <2> QED
    BY <1>2, <2>1, <2>2, <2>4, <2>5 DEF WorkerVerdict
<1> QED
  BY <1>1, <1>2

\* Records stay true while verdicts are only forgotten and the data plane
\* only moves forward.
LEMMA RecordsStayTrue ==
  ASSUME PlaneInv, Verdicts, [Next]_vars, IsRegistry(records'),
         \A r \in DOMAIN records' :
           \/ records'[r] \notin {"Rejected", "Published"}
           \/ r \in DOMAIN records /\ records[r] = records'[r]
           \/ /\ records'[r] = "Rejected" /\ r \in 0 .. Revision
              /\ ~Compiles(BodiesOf(At(r)))
           \/ /\ records'[r] = "Published" /\ r \in 0 .. Revision
              /\ Compiles(BodiesOf(At(r)))
              /\ r <= publishedRevision' /\ r <= runtime'.revision,
         publishedRevision' \in Nat, publishedRevision <= publishedRevision',
         runtime'.revision \in Nat, runtime.revision <= runtime'.revision,
         \A w \in Workers : WorkerVerdict(w)'
  PROVE  Verdicts'
<1>1. /\ publishedRevision \in Nat /\ Revision \in Nat /\ runtime.revision \in 0 .. Revision
      /\ DOMAIN records \subseteq Nat
  BY CurrentInGraphs DEF PlaneInv, TypeOK, GraphTypeOK, WorkerTypeOK, Snapshots, IsRegistry,
                         InFlight, Held
<1>2. ASSUME NEW r \in 0 .. Revision
      PROVE  r \in 0 .. Revision' /\ BodiesOf(At(r))' = BodiesOf(At(r))
  BY PastKept DEF BodiesOf
<1>3. ASSUME NEW r \in DOMAIN records'
      PROVE  /\ records'[r] = "Rejected" =>
                  r \in 0 .. Revision' /\ ~Compiles(BodiesOf(At(r))')
             /\ records'[r] = "Published" =>
                  Compiles(BodiesOf(At(r))') /\ r <= publishedRevision' /\ r <= runtime'.revision
  <2>1. CASE r \in DOMAIN records /\ records[r] = records'[r]
    <3>1. records[r] \in {"Rejected", "Published"} => r \in 0 .. Revision
      BY <1>1, <2>1 DEF Verdicts, RecordsTruthful
    <3> QED
      BY <1>1, <1>2, <2>1, <3>1 DEF Verdicts, RecordsTruthful
  <2>2. CASE /\ records'[r] = "Rejected" /\ r \in 0 .. Revision
             /\ ~Compiles(BodiesOf(At(r)))
    BY <1>2, <2>2
  <2>3. CASE /\ records'[r] = "Published" /\ r \in 0 .. Revision
             /\ Compiles(BodiesOf(At(r)))
             /\ r <= publishedRevision' /\ r <= runtime'.revision
    BY <1>2, <2>3
  <2> QED
    BY <1>3, <2>1, <2>2, <2>3
<1> QED
  BY <1>3 DEF Verdicts, RecordsTruthful, WorkerVerdict

\* A worker's own step keeps what it knows: compile decides, and what is
\* doomed is the job itself.
LEMMA MovingWorkerVerdict ==
  ASSUME PlaneInv, Generations, Attempts, NEW w \in Workers, WorkerVerdict(w), WorkerStep(w),
         UNCHANGED storeVars
  PROVE  WorkerVerdict(w)'
<1>1. /\ wpc \in [Workers -> WorkerPCs] /\ job \in [Workers -> Targets]
      /\ doomed \in [Workers -> Nat] /\ attempted[w] \in Nat /\ target.generation \in Nat
      /\ job[w].generation \in Nat
  BY DEF PlaneInv, TypeOK, GraphTypeOK, WorkerTypeOK, SubmitTypeOK, Targets
<1>2. Revision' = Revision /\ \A r : At(r)' = At(r)
  BY SameStore DEF storeVars
<1>3. CASE Compile(w)
  BY <1>1, <1>3 DEF Compile, Goes, WorkerVerdict, Publishing, BodiesOf
<1>4. CASE Reject(w)
  <2>1. CASE target.generation = attempted[w]
    <3>1. job[w] = target
      BY <1>1, <1>4, <2>1 DEF Reject, Attempts, Generations, Busy
    <3>2. target.revision \in 0 .. Revision /\ ~Compiles(BodiesOf(At(target.revision)))
      BY <1>4, <3>1 DEF Reject, WorkerVerdict, PlaneInv, InFlight, Held
    <3>3. wpc'[w] = "rejecting" /\ doomed'[w] = target.revision
      BY <1>1, <1>4, <2>1 DEF Reject, RejectsRevision, Goes
    <3>4. At(doomed[w])' = At(target.revision)
      BY <1>2, <3>3 DEF At
    <3> QED
      BY <1>2, <3>2, <3>3, <3>4 DEF WorkerVerdict, Publishing, BodiesOf
  <2>2. CASE target.generation # attempted[w]
    BY <1>1, <1>4, <2>2 DEF Reject, RejectsRevision, Goes, WorkerVerdict, Publishing
  <2> QED
    BY <2>1, <2>2
<1>5. CASE Fence(w) \/ PublishStatus(w)
  <2>1. wpc[w] \in {"fence"} \cup Publishing /\ job'[w] = job[w]
        /\ wpc'[w] \in {"recv"} \cup Publishing
    BY <1>1, <1>5 DEF Fence, PublishStatus, Goes, Publishing
  <2> QED
    BY <2>1 DEF WorkerVerdict, Publishing, BodiesOf
<1>6. CASE \/ Receive(w) \/ Snap(w) \/ Take(w) \/ Settle(w) \/ PrepareOk(w)
           \/ PrepareFails(w) \/ AfterTransient(w) \/ Backoff(w) \/ RejectRevision(w)
           \/ AwaitSuperseded(w) \/ Commit(w)
  <2>1. wpc'[w] \notin {"fence", "reject", "rejecting"} \cup Publishing
    BY <1>1, <1>6 DEF Receive, Snap, Take, Settle, PrepareOk, PrepareFails, AfterTransient,
           Backoff, RejectRevision, AwaitSuperseded, Commit, Goes, Publishing
  <2> QED
    BY <2>1 DEF WorkerVerdict
<1> QED
  BY <1>3, <1>4, <1>5, <1>6 DEF WorkerStep

\* What submit does to the registry settles nothing.
LEMMA VerdictsSubmit ==
  ASSUME PlaneInv, Generations, Verdicts, Submit, UNCHANGED <<storeVars, syncVars>>, Next
  PROVE  Verdicts'
<1>1. /\ UNCHANGED <<job, doomed, publishedRevision, runtime>>
      /\ \A w \in Workers : wpc'[w] \in {wpc[w], "recv"}
  BY SubmitEffect DEF submitFrame
<1>2. IsRegistry(records) /\ publishedRevision \in Nat /\ runtime.revision \in Nat
      /\ sub.revision \in Nat /\ IsRegistry(records')
  <2>1. GraphTypeOK'
    BY SubmitType DEF PlaneInv, TypeOK
  <2> QED
    BY <2>1 DEF PlaneInv, TypeOK, GraphTypeOK, WorkerTypeOK, SubmitTypeOK, Snapshots,
                Submissions
<1>3. \A w \in Workers : WorkerVerdict(w)'
  BY <1>1, IdleWorkerVerdict DEF Verdicts, WorkerVerdict
<1>4. \A r \in DOMAIN records' :
        \/ records'[r] \notin {"Rejected", "Published"}
        \/ r \in DOMAIN records /\ records[r] = records'[r]
  <2>1. CASE records' = records
    BY <2>1
  <2>2. CASE records' = SupersedePendingExcept(Pending(records, sub.revision), sub.revision)
    <3> DEFINE known == Pending(records, sub.revision)
    <3>1. IsRegistry(known)
      BY <1>2, RegistryType
    <3>2. \A verdict \in {"Rejected", "Published"} : \A r \in DOMAIN records' :
            records'[r] = verdict => r \in DOMAIN known /\ known[r] = verdict
      <4> HIDE DEF known
      <4>1. records' = SupersedePendingExcept(known, sub.revision)
        BY <2>2 DEF known
      <4> QED
        BY <1>2, <3>1, <4>1, RegistryVerdicts
    <3>3. \A verdict \in {"Rejected", "Published"} : \A r \in DOMAIN known :
            known[r] = verdict => r \in DOMAIN records /\ records[r] = verdict
      BY <1>2, RegistryVerdicts
    <3> HIDE DEF known
    <3> QED
      BY <3>2, <3>3
  <2> QED
    BY <2>1, <2>2 DEF Submit, SubmitCheck, SubmitStart, SubmitHandle, SubmitNumber,
           SubmitRegister, SubmitToken, SubmitTarget, SubmitSignal
<1> QED
  BY <1>1, <1>2, <1>3, <1>4, RecordsStayTrue

\* Nor does the record an Admin request adds after its commit.
LEMMA VerdictsAnswer ==
  ASSUME PlaneInv, Verdicts, NEW a \in Admins, RecordPending(a) \/ Reply(a), Next
  PROVE  Verdicts'
<1>1. UNCHANGED <<wpc, job, doomed, publishedRevision, runtime>>
  BY DEF RecordPending, Reply, graphVars
<1>2. IsRegistry(records) /\ publishedRevision \in Nat /\ runtime.revision \in Nat
  BY DEF PlaneInv, TypeOK, GraphTypeOK, WorkerTypeOK, Snapshots
<1>3. \A w \in Workers : WorkerVerdict(w)'
  BY <1>1, IdleWorkerVerdict DEF Verdicts, WorkerVerdict
<1>4. /\ IsRegistry(records')
      /\ \A r \in DOMAIN records' :
           \/ records'[r] \notin {"Rejected", "Published"}
           \/ r \in DOMAIN records /\ records[r] = records'[r]
  <2>1. CASE RecordPending(a)
    <3>1. admin[a].revision \in Nat
      BY <2>1, AdminFields DEF RecordPending, PlaneInv, TypeOK, StoreTypeOK
    <3>2. records' = Pending(records, admin[a].revision)
      BY <2>1 DEF RecordPending
    <3>3. \A verdict \in {"Rejected", "Published"} : \A r \in DOMAIN records' :
            records'[r] = verdict => r \in DOMAIN records /\ records[r] = verdict
      BY <1>2, <3>1, <3>2, RegistryVerdicts
    <3>4. IsRegistry(records')
      BY <1>2, <3>1, <3>2, RegistryType
    <3> QED
      BY <3>3, <3>4
  <2>2. CASE Reply(a)
    BY <1>2, <2>2 DEF Reply, graphVars
  <2> QED
    BY <2>1, <2>2
<1> QED
  BY <1>1, <1>2, <1>3, <1>4, RecordsStayTrue

\* A rejection is of a graph that does not compile, a publication is of one
\* that does and that the data plane has just moved to.
LEMMA VerdictsWorker ==
  ASSUME PlaneInv, Generations, Attempts, PublicationLock, Verdicts,
         NEW w \in Workers, WorkerStep(w), UNCHANGED <<storeVars, syncVars>>, Next
  PROVE  Verdicts'
<1>1. /\ IsRegistry(records) /\ publishedRevision \in Nat /\ runtime.revision \in Nat
      /\ doomed[w] \in Nat /\ job[w].revision \in Nat
      /\ IsRegistry(records') /\ publishedRevision' \in Nat /\ runtime'.revision \in Nat
  <2>1. GraphTypeOK'
    BY WorkerStepType DEF PlaneInv, TypeOK
  <2> QED
    BY <2>1 DEF PlaneInv, TypeOK, GraphTypeOK, WorkerTypeOK, Snapshots, Targets
<1>2. \A v \in Workers : WorkerVerdict(v)'
  <2>1. \A v \in Workers : WorkerVerdict(v)
    BY DEF Verdicts, WorkerVerdict
  <2> QED
    BY <2>1, WorkerEffect, IdleWorkerVerdict, MovingWorkerVerdict
<1>3. publishedRevision <= publishedRevision' /\ runtime.revision <= runtime'.revision
  <2>1. CASE Fence(w)
    BY <1>1, <2>1 DEF Fence, Fenced
  <2>2. CASE Commit(w)
    BY <1>1, <2>2 DEF Commit, PublicationLock, Publishing
  <2>3. CASE ~Fence(w) /\ ~Commit(w)
    <3>1. UNCHANGED <<publishedRevision, runtime>>
      BY <2>3 DEF WorkerStep, Receive, Snap, Take, Settle, PrepareOk, PrepareFails,
             AfterTransient, Backoff, Compile, Reject, RejectRevision, AwaitSuperseded,
             PublishStatus
    <3> QED
      BY <1>1, <3>1
  <2> QED
    BY <2>1, <2>2, <2>3
<1>4. CASE RejectRevision(w)
  <2>1. records' = Rejected(records, doomed[w]) /\ wpc[w] = "rejecting"
    BY <1>4 DEF RejectRevision
  <2>2. doomed[w] \in 0 .. Revision /\ ~Compiles(BodiesOf(At(doomed[w])))
    BY <2>1 DEF Verdicts
  <2>3. \A verdict \in {"Rejected", "Published"} : \A r \in DOMAIN records' :
          records'[r] = verdict => \/ r \in DOMAIN records /\ records[r] = verdict
                                   \/ r = doomed[w] /\ verdict = "Rejected"
    BY <1>1, <2>1, RegistryVerdicts
  <2> QED
    BY <1>1, <1>2, <1>3, <2>2, <2>3, RecordsStayTrue
<1>5. CASE Commit(w)
  <2>1. /\ records' = Published(records, job[w].revision) /\ wpc[w] \in Publishing
        /\ publishedRevision' = job[w].revision /\ runtime' = runtime
    BY <1>5 DEF Commit, Publishing
  <2>2. /\ runtime.revision = job[w].revision /\ job[w].revision \in 0 .. Revision
        /\ Compiles(BodiesOf(At(job[w].revision)))
    BY <2>1 DEF Verdicts, PublicationLock, PlaneInv, InFlight, Held
  <2>3. \A verdict \in {"Rejected", "Published"} : \A r \in DOMAIN records' :
          records'[r] = verdict => \/ r \in DOMAIN records /\ records[r] = verdict
                                   \/ r = job[w].revision /\ verdict = "Published"
    BY <1>1, <2>1, RegistryVerdicts
  <2>4. job[w].revision <= publishedRevision' /\ job[w].revision <= runtime'.revision
    BY <1>1, <2>1, <2>2
  <2> QED
    BY <1>1, <1>2, <1>3, <2>2, <2>3, <2>4, RecordsStayTrue
<1>6. CASE ~RejectRevision(w) /\ ~Commit(w)
  <2>1. records' = records
    BY <1>6 DEF WorkerStep, Receive, Snap, Take, Settle, PrepareOk, PrepareFails,
           AfterTransient, Backoff, Compile, Reject, AwaitSuperseded, Fence, PublishStatus
  <2> QED
    BY <1>1, <1>2, <1>3, <2>1, RecordsStayTrue
<1> QED
  BY <1>4, <1>5, <1>6

\* Every step of the control plane keeps the verdicts true.
LEMMA VerdictsInductive ==
  PlaneInv /\ Generations /\ Attempts /\ PublicationLock /\ Verdicts /\ [Next]_vars
    => Verdicts'
<1> SUFFICES ASSUME PlaneInv, Generations, Attempts, PublicationLock, Verdicts, [Next]_vars
             PROVE  Verdicts'
  OBVIOUS
<1>1. IsRegistry(records) /\ publishedRevision \in Nat /\ runtime.revision \in Nat
  BY DEF PlaneInv, TypeOK, GraphTypeOK, WorkerTypeOK, Snapshots
<1>2. ASSUME UNCHANGED <<records, publishedRevision, runtime, job, doomed>>,
             \A w \in Workers : wpc'[w] \in {wpc[w], "done"}
      PROVE  Verdicts'
  <2>1. \A w \in Workers : WorkerVerdict(w)'
    BY <1>2, IdleWorkerVerdict DEF Verdicts, WorkerVerdict
  <2> QED
    BY <1>1, <1>2, <2>1, RecordsStayTrue
<1>3. CASE UNCHANGED <<records, publishedRevision, runtime, job, doomed, wpc>>
  BY <1>2, <1>3
<1>4. CASE RequestShutdown \/ Shutdown
  BY <1>2, <1>4, ShutdownEffect DEF shutdownFrame
<1> QED
  BY <1>3, <1>4, VerdictsSubmit, VerdictsWorker, VerdictsAnswer, SyncEffect
     DEF Next, vars, graphVars, syncVars, syncFrame

\* What record_pending_publication and the worker leave in the registry, and
\* an Admin client is told, is true: a rejected revision does not compile, a
\* published one does and the data plane has reached it, whatever superseded,
\* trimmed or overtook it.
THEOREM RegistryTellsTheTruth == Spec => []RecordsTruthful
<1>1. Init => Attempts /\ PublicationLock /\ Verdicts
  BY DEF Init, GraphInit, Attempts, PublicationLock, Verdicts, RecordsTruthful, NoTarget,
         Nothing, Busy, Preparing, Publishing, EmptyRegistry
<1>2. Verdicts => RecordsTruthful
  BY DEF Verdicts
<1> QED
  BY <1>1, <1>2, PlaneInit, PlaneInductive, GenerationsInit, GenerationsInductive,
     AttemptsInductive, LockInductive, VerdictsInductive, PTL DEF Spec

-----------------------------------------------------------------------------
(***************************************************************************)
(* Submissions go forward.  A relist reads the current revision and a      *)
(* watch starts where the list ended, so no submission is older than the   *)
(* target it replaces: the revision check of the fence never discards the  *)
(* latest target.                                                          *)
(***************************************************************************)
Forward ==
  /\ runtime.revision <= target.revision
  /\ sub.pc \in SubmitSteps => target.revision <= sub.revision
  /\ sub.pc \in {"signal", "ok"} => target.revision = sub.revision
  /\ sync = "listed" => target.revision <= listed.revision
  /\ sync = "replacing" => sub.revision = listed.revision
  /\ sync = "applying" => sub.revision <= cursor
  /\ sync \in {"open", "watching"} => target.revision <= cursor

\* The sync task submits in the order of the revisions.
LEMMA ForwardSync ==
  ASSUME PlaneInv, Forward, SyncStep \/ SyncFault \/ SyncStops \/ OutageGrows
  PROVE  Forward'
<1>1. UNCHANGED <<runtime, target>>
  BY SyncEffect DEF syncFrame
<1>2. /\ target.revision \in 0 .. Revision /\ cursor \in Nat /\ Revision \in Nat
      /\ listed.revision \in 0 .. Revision /\ sub.revision \in 0 .. Revision
  BY CurrentInGraphs DEF PlaneInv, TypeOK, InFlight, Held, SyncTypeOK
<1>3. sync \notin {"replacing", "applying"} => sub.pc = "idle"
  BY DEF PlaneInv, InStep
<1>4. /\ NoSubmission.pc = "idle"
      /\ \A r, g : Submission(r, g).revision = r /\ Submission(r, g).pc = "check"
  BY DEF NoSubmission, Submission
<1> USE DEF Forward, SubmitSteps
<1>5. CASE ListOk
  <2>1. sub' = sub /\ sync' = "listed" /\ sync = "list" /\ listed'.revision = Revision
    BY <1>5 DEF ListOk
  <2> QED
    BY <1>1, <1>2, <1>3, <2>1
<1>6. CASE ReplaceAll
  <2>1. sync = "listed" /\ UNCHANGED <<listed, cursor>>
    BY <1>6 DEF ReplaceAll
  <2>2. CASE sync' = "replacing" /\ sub' = Submission(listed.revision, listed.stored)
    BY <1>1, <1>2, <1>4, <2>1, <2>2
  <2>3. CASE sync' = "list" /\ sub' = sub
    BY <1>1, <1>3, <2>1, <2>3
  <2> QED
    BY <1>6, <2>2, <2>3 DEF ReplaceAll
<1>7. CASE Replaced
  <2>1. /\ sync = "replacing" /\ sub.pc = "ok" /\ cursor' = listed.revision
        /\ sub' = NoSubmission /\ sync' = "open"
    BY <1>7 DEF Replaced
  <2> QED
    BY <1>1, <1>2, <1>4, <2>1
<1>8. CASE Applied
  <2>1. /\ sync = "applying" /\ sub.pc = "ok" /\ cursor' = cursor
        /\ sub' = NoSubmission /\ sync' = "watching"
    BY <1>8 DEF Applied
  <2> QED
    BY <1>1, <1>2, <1>4, <2>1
<1>9. CASE WatchProgress
  <2>1. PICK to \in cursor + 1 .. Revision : cursor' = to
    BY <1>9 DEF WatchProgress
  <2>2. sync = "watching" /\ UNCHANGED <<sub, sync, listed>>
    BY <1>9 DEF WatchProgress
  <2> QED
    BY <1>1, <1>2, <1>3, <2>1, <2>2
<1>10. CASE ApplyWatch
  <2>1. sync = "watching" /\ listed' = listed
    BY <1>10 DEF ApplyWatch
  <2>2. PICK to \in cursor + 1 .. Revision :
          /\ EventKeys(cursor, to) # {}
          /\ \/ /\ sub' = Submission(BatchRevision(cursor, to), Layered(WatchBase, cursor, to))
                /\ cursor' = to /\ sync' = "applying"
             \/ sync' = "list" /\ sub' = sub
    BY <1>10 DEF ApplyWatch
  <2>3. BatchRevision(cursor, to) \in cursor + 1 .. to
    BY <1>2, <2>2, BatchIsExact DEF PlaneInv, TypeOK
  <2>4. CASE sync' = "list"
    BY <1>1, <1>3, <2>1, <2>2, <2>4
  <2>5. CASE sync' = "applying"
    <3>1. sub'.revision = BatchRevision(cursor, to) /\ sub'.pc = "check" /\ cursor' = to
      BY <1>4, <2>2, <2>5
    <3> QED
      BY <1>1, <1>2, <2>1, <2>3, <2>5, <3>1
  <2> QED
    BY <2>2, <2>4, <2>5
<1>11. CASE SubmissionStopped
  BY <1>1, <1>4, <1>11 DEF SubmissionStopped
<1>12. CASE OpenWatch
  BY <1>1, <1>3, <1>12 DEF OpenWatch
<1>13. CASE ListUnmappable \/ WatchUnmappable \/ SyncFault \/ SyncStops
  <2>1. sub' = sub /\ sync \notin {"replacing", "applying"} /\ sync' \in {"list", "stopped"}
    BY <1>13 DEF ListUnmappable, WatchUnmappable, SyncFault, ListFails, WatchFails, WatchEnds,
                 SyncStops
  <2> QED
    BY <1>1, <1>3, <2>1
<1>14. CASE OutageGrows
  BY <1>1, <1>14 DEF OutageGrows, syncVars
<1> QED
  BY <1>5, <1>6, <1>7, <1>8, <1>9, <1>10, <1>11, <1>12, <1>13, <1>14 DEF SyncStep

\* Every step of the control plane keeps the order of the revisions.
LEMMA ForwardInductive ==
  PlaneInv /\ Generations /\ Forward /\ [Next]_vars => Forward'
<1> SUFFICES ASSUME PlaneInv, Generations, Forward, [Next]_vars PROVE Forward'
  OBVIOUS
<1>1. /\ runtime.revision \in Nat /\ target.revision \in Nat /\ sub.revision \in Nat
      /\ sync \notin {"replacing", "applying"} => sub.pc = "idle"
  BY DEF PlaneInv, TypeOK, GraphTypeOK, WorkerTypeOK, SubmitTypeOK, Snapshots, Targets,
         Submissions, InStep
<1>2. CASE UNCHANGED <<runtime, target, sub, sync, listed, cursor>>
  BY <1>2 DEF Forward
<1>3. CASE Submit /\ UNCHANGED <<storeVars, syncVars>>
  <2>1. UNCHANGED <<runtime, sync, listed, cursor>>
    BY <1>3, SubmitEffect DEF submitFrame, syncVars
  <2>2. sync \in {"replacing", "applying"}
    BY <1>1, <1>3, SubmitEffect
  <2> QED
    BY <1>1, <1>3, <2>1, <2>2, SubmitEffect DEF Forward, SubmitSteps
<1>4. CASE \E w \in Workers : WorkerStep(w) /\ UNCHANGED <<storeVars, syncVars>>
  <2>1. PICK w \in Workers : WorkerStep(w) /\ UNCHANGED <<storeVars, syncVars>>
    BY <1>4
  <2>2. UNCHANGED <<target, sub, sync, listed, cursor>>
    BY <2>1, WorkerEffect DEF workerFrame, syncVars
  <2>3. runtime' = runtime \/ runtime'.revision = target.revision
    <3>1. CASE Fence(w) /\ ~Fenced(w)
      <4>1. job[w].generation = target.generation
        BY <3>1 DEF Fence, Fenced, WriteLockFree, SubmitSteps, Generations, Numbering
      <4> QED
        BY <3>1, <4>1 DEF Fence, Generations
    <3>2. CASE ~(Fence(w) /\ ~Fenced(w))
      BY <2>1, <3>2 DEF WorkerStep, Receive, Snap, Take, Settle, PrepareOk, PrepareFails,
             AfterTransient, Backoff, Compile, Reject, RejectRevision, AwaitSuperseded, Fence,
             PublishStatus, Commit
    <3> QED
      BY <3>1, <3>2
  <2> QED
    BY <1>1, <2>2, <2>3 DEF Forward
<1>5. CASE (RequestShutdown \/ Shutdown) /\ UNCHANGED <<storeVars, syncVars>>
  BY <1>2, <1>5, ShutdownEffect DEF shutdownFrame, syncVars
<1> QED
  BY <1>2, <1>3, <1>4, <1>5, ForwardSync
     DEF Next, RecordPending, Reply, vars, graphVars, syncVars

-----------------------------------------------------------------------------
(***************************************************************************)
(* Wake-ups.  Until shutdown there is one worker, and worker_tx leads to   *)
(* it (OneWorker); the cancelled tokens are those of older generations     *)
(* (Tokens).  A worker that attempts an older generation than the target's *)
(* read it before that target was submitted, so the signal of that         *)
(* submission is still in its channel; a worker that waits with an empty   *)
(* channel has published the target (Wakeups).                             *)
(***************************************************************************)
Running == lifecycle = "Running"

Serves(w) ==
  /\ wpc[w] \in Busy /\ attempted[w] # target.generation /\ sub.pc # "signal" => signal[w]
  /\ wpc[w] = "recv" /\ target.generation # 0 /\ sub.pc \notin {"target", "signal"}
       => \/ signal[w]
          \/ runtime.revision = target.revision /\ runtime.stored = target.stored

Wakeups == Running => \A w \in Workers : Serves(w)

OneWorker ==
  Running =>
    /\ stopping \in {"none", "requested"}
    /\ \A w \in Workers : wpc[w] # "none" => w = workerTx /\ wpc[w] # "done"
    /\ workerTx # NoWorker => wpc[workerTx] # "none"
    /\ sub.pc \in SubmitSteps \ {"check", "start"} => workerTx # NoWorker
    /\ target.generation # 0 => workerTx # NoWorker

Tokens ==
  Running =>
    /\ activeCancellation = IF sub.pc = "target" THEN latestGeneration ELSE target.generation
    /\ \A token \in cancelled : token < activeCancellation

\* Shutdown does nothing but ask until it has stopped the lifecycle.
LEMMA RunningShutdown ==
  ASSUME OneWorker, RequestShutdown \/ Shutdown, Running'
  PROVE  /\ Running /\ stopping' \in {"none", "requested"}
         /\ UNCHANGED <<cancelled, activeCancellation, workerTx, wpc>>
  BY DEF OneWorker, Running, RequestShutdown, Shutdown, Stop, CancelActive, CloseChannel,
         TakeTask, Join

\* The sync task starts a submission when none is going on, and forgets one
\* that has ended.
LEMMA SyncSubmission ==
  ASSUME PlaneInv, SyncStep \/ SyncFault \/ SyncStops \/ OutageGrows
  PROVE  \/ sub' = sub
         \/ sub.pc \in {"idle", "ok", "stopped"} /\ sub'.pc \in {"idle", "check"}
<1>1. sync \notin {"replacing", "applying"} => sub.pc = "idle"
  BY DEF PlaneInv, InStep
<1>2. NoSubmission.pc = "idle" /\ \A r, g : Submission(r, g).pc = "check"
  BY DEF NoSubmission, Submission
<1>3. CASE ReplaceAll
  BY <1>1, <1>2, <1>3 DEF ReplaceAll
<1>4. CASE ApplyWatch
  BY <1>1, <1>2, <1>4 DEF ApplyWatch
<1>5. CASE Replaced \/ SubmissionStopped \/ Applied
  BY <1>2, <1>5 DEF Replaced, SubmissionStopped, Applied
<1> QED
  BY <1>3, <1>4, <1>5
     DEF SyncStep, ListOk, ListUnmappable, OpenWatch, WatchProgress, WatchUnmappable,
         SyncFault, ListFails, WatchFails, WatchEnds, SyncStops, OutageGrows

\* ensure_worker_started spawns one worker, and only shutdown forgets it.
LEMMA OneWorkerInductive ==
  PlaneInv /\ Generations /\ OneWorker /\ [Next]_vars => OneWorker'
<1> SUFFICES ASSUME PlaneInv, Generations, OneWorker, [Next]_vars, Running'
             PROVE  OneWorker'
  BY DEF OneWorker
<1>1. /\ wpc \in [Workers -> WorkerPCs] /\ workerTx \in Workers \cup {NoWorker}
      /\ sub \in Submissions /\ NoWorker \notin Workers
  BY WorkerAssumption DEF PlaneInv, TypeOK, GraphTypeOK, WorkerTypeOK, SubmitTypeOK
<1>2. CASE UNCHANGED <<lifecycle, stopping, wpc, workerTx, sub, target>>
  BY <1>2 DEF OneWorker, Running
<1>3. CASE Submit
  <2>1. UNCHANGED <<lifecycle, stopping>> /\ Running
    BY <1>3, SubmitEffect DEF submitFrame, Running
  <2>2. CASE SubmitCheck
    <3>1. UNCHANGED <<wpc, workerTx, target>> /\ sub'.pc = "start"
      BY <1>1, <2>1, <2>2 DEF SubmitCheck, SubmitGoes, Submissions, Running
    <3> QED
      BY <2>1, <3>1 DEF OneWorker, Running
  <2>3. CASE SubmitStart
    <3>1. CASE workerTx # NoWorker
      BY <2>1, <2>3, <3>1 DEF SubmitStart, OneWorker, Running
    <3>2. CASE workerTx = NoWorker
      <4>1. PICK w \in Workers : workerTx' = w /\ wpc' = [wpc EXCEPT ![w] = "recv"]
        BY <2>3, <3>2 DEF SubmitStart
      <4>2. \A v \in Workers : wpc[v] = "none"
        BY <1>1, <2>1, <3>2 DEF OneWorker
      <4>3. workerTx' # NoWorker /\ wpc'[workerTx'] # "none"
            /\ \A v \in Workers : wpc'[v] # "none" => v = workerTx' /\ wpc'[v] # "done"
        BY <1>1, <4>1, <4>2
      <4> QED
        BY <2>1, <4>3 DEF OneWorker, Running
    <3> QED
      BY <3>1, <3>2
  <2>4. CASE SubmitHandle \/ SubmitNumber \/ SubmitRegister \/ SubmitToken \/ SubmitTarget
             \/ SubmitSignal
    <3>1. UNCHANGED <<wpc, workerTx>> /\ sub.pc \in SubmitSteps \ {"check", "start"}
      BY <2>4 DEF SubmitHandle, SubmitNumber, SubmitRegister, SubmitToken, SubmitTarget,
             SubmitSignal, SubmitSteps
    <3> QED
      BY <2>1, <3>1 DEF OneWorker, Running
  <2> QED
    BY <1>3, <2>2, <2>3, <2>4 DEF Submit
<1>4. CASE \E w \in Workers : WorkerStep(w)
  <2>1. PICK w \in Workers : WorkerStep(w)
    BY <1>4
  <2>2. UNCHANGED <<lifecycle, stopping, workerTx, sub, target>> /\ Running
        /\ \A v \in Workers \ {w} : wpc'[v] = wpc[v]
    BY <2>1, WorkerEffect DEF workerFrame, Running
  <2>3. wpc[w] # "none" /\ w = workerTx
    <3>1. wpc[w] # "none"
      BY <2>1 DEF WorkerStep, Receive, Snap, Take, Settle, PrepareOk, PrepareFails,
             AfterTransient, Backoff, Compile, Reject, RejectRevision, AwaitSuperseded, Fence,
             PublishStatus, Commit
    <3> QED
      BY <2>2, <3>1 DEF OneWorker
  <2>4. wpc'[w] \notin {"none", "done"}
    BY <1>1, <2>1, <2>3 DEF WorkerStep, Receive, Snap, Take, Settle, PrepareOk, PrepareFails,
           AfterTransient, Backoff, Compile, Reject, RejectRevision, AwaitSuperseded, Fence,
           PublishStatus, Commit, Goes, ChannelClosed
  <2> QED
    BY <1>1, <2>2, <2>3, <2>4 DEF OneWorker, Running
<1>5. CASE RequestShutdown \/ Shutdown
  <2>1. UNCHANGED <<sub, target>>
    BY <1>5, ShutdownEffect DEF shutdownFrame
  <2> QED
    BY <1>5, <2>1, RunningShutdown DEF OneWorker
<1>6. CASE SyncStep \/ SyncFault \/ SyncStops \/ OutageGrows
  <2>1. UNCHANGED <<lifecycle, stopping, wpc, workerTx, target>>
    BY <1>6, SyncEffect DEF syncFrame
  <2>2. sub' = sub \/ sub'.pc \in {"idle", "check"}
    BY <1>6, SyncSubmission
  <2> QED
    BY <2>1, <2>2 DEF OneWorker, Running, SubmitSteps
<1> QED
  BY <1>2, <1>3, <1>4, <1>5, <1>6 DEF Next, RecordPending, Reply, vars, graphVars

\* submit cancels the token it displaces, so a running gateway never cancels
\* the generation of its target.
LEMMA TokensInductive ==
  PlaneInv /\ Generations /\ OneWorker /\ Tokens /\ [Next]_vars => Tokens'
<1> SUFFICES ASSUME PlaneInv, Generations, OneWorker, Tokens, [Next]_vars, Running'
             PROVE  Tokens'
  BY DEF Tokens
<1>1. /\ target.generation \in Nat /\ latestGeneration \in Nat /\ sub \in Submissions
      /\ cancelled \in SUBSET Nat /\ activeCancellation \in Nat
  BY DEF PlaneInv, TypeOK, GraphTypeOK, SubmitTypeOK, Targets
<1>2. ASSUME UNCHANGED <<lifecycle, latestGeneration, target, cancelled, activeCancellation>>,
             sub'.pc = "target" <=> sub.pc = "target"
      PROVE  Tokens'
  BY <1>2 DEF Tokens, Running
<1>3. CASE UNCHANGED <<lifecycle, latestGeneration, target, cancelled, activeCancellation, sub>>
  BY <1>2, <1>3
<1>4. CASE Submit
  <2>1. lifecycle' = lifecycle /\ Running
    BY <1>4, SubmitEffect DEF submitFrame, Running
  <2>2. CASE SubmitToken
    <3>1. /\ sub.pc = "token" /\ sub'.pc = "target" /\ latestGeneration' = latestGeneration
          /\ cancelled' = cancelled \cup ({activeCancellation} \ {0})
          /\ activeCancellation' = latestGeneration
      BY <1>1, <2>2 DEF SubmitToken, SubmitGoes, Submissions, CancelledBySubmit
    <3>2. activeCancellation = target.generation /\ latestGeneration = target.generation + 1
      BY <2>1, <3>1 DEF Tokens, Generations, Numbering
    <3>3. \A token \in cancelled' : token < activeCancellation'
      BY <1>1, <2>1, <3>1, <3>2 DEF Tokens
    <3> QED
      BY <3>1, <3>3 DEF Tokens
  <2>3. CASE SubmitTarget
    <3>1. /\ sub.pc = "target" /\ sub'.pc = "signal"
          /\ target'.generation = latestGeneration
          /\ UNCHANGED <<cancelled, activeCancellation>>
      BY <1>1, <2>3 DEF SubmitTarget, SubmitGoes, Submissions
    <3> QED
      BY <2>1, <3>1 DEF Tokens
  <2>4. CASE SubmitNumber
    <3>1. /\ sub.pc = "number" /\ sub'.pc = "register"
          /\ UNCHANGED <<cancelled, activeCancellation, target>>
      BY <1>1, <2>4 DEF SubmitNumber, SubmitGoes, Submissions
    <3> QED
      BY <2>1, <3>1 DEF Tokens
  <2>5. CASE SubmitCheck \/ SubmitStart \/ SubmitHandle \/ SubmitRegister \/ SubmitSignal
    <3>1. UNCHANGED <<latestGeneration, target, cancelled, activeCancellation>>
          /\ sub.pc # "target" /\ sub'.pc # "target"
      BY <1>1, <2>5 DEF SubmitCheck, SubmitStart, SubmitHandle, SubmitRegister, SubmitSignal,
                        SubmitGoes, Submissions
    <3> QED
      BY <1>2, <2>1, <3>1
  <2> QED
    BY <1>4, <2>2, <2>3, <2>4, <2>5 DEF Submit
<1>5. CASE \E w \in Workers : WorkerStep(w)
  BY <1>3, <1>5, WorkerEffect DEF workerFrame
<1>6. CASE RequestShutdown \/ Shutdown
  <2>1. UNCHANGED <<latestGeneration, target, sub>>
    BY <1>6, ShutdownEffect DEF shutdownFrame
  <2> QED
    BY <1>6, <2>1, RunningShutdown DEF Tokens
<1>7. CASE SyncStep \/ SyncFault \/ SyncStops \/ OutageGrows
  <2>1. UNCHANGED <<lifecycle, latestGeneration, target, cancelled, activeCancellation>>
    BY <1>7, SyncEffect DEF syncFrame
  <2> QED
    BY <1>2, <1>7, <2>1, SyncSubmission
<1> QED
  BY <1>3, <1>4, <1>5, <1>6, <1>7 DEF Next, RecordPending, Reply, vars, graphVars

\* The signal of a submission goes to the running worker.
LEMMA WakeupsSubmit ==
  ASSUME PlaneInv, Generations, OneWorker, Wakeups, Submit, Running'
  PROVE  \A w \in Workers : Serves(w)'
<1>1. /\ sub \in Submissions /\ wpc \in [Workers -> WorkerPCs]
      /\ signal \in [Workers -> BOOLEAN] /\ workerTx \in Workers \cup {NoWorker}
      /\ NoWorker \notin Workers
  BY WorkerAssumption DEF PlaneInv, TypeOK, GraphTypeOK, WorkerTypeOK, SubmitTypeOK
<1>2. UNCHANGED <<lifecycle, attempted, runtime>> /\ Running
  BY SubmitEffect DEF submitFrame, Running
<1>3. CASE SubmitSignal
  <2>1. workerTx # NoWorker /\ wpc[workerTx] # "none" /\ sub.pc = "signal"
    BY <1>2, <1>3 DEF SubmitSignal, OneWorker, SubmitSteps
  <2>2. workerTx \in Workers /\ wpc[workerTx] # "done" /\ wpc' = wpc
    BY <1>1, <1>2, <1>3, <2>1 DEF OneWorker, SubmitSignal
  <2>3. signal'[workerTx]
    BY <1>1, <1>3, <2>1, <2>2 DEF SubmitSignal
  <2>4. \A w \in Workers : wpc[w] # "none" => w = workerTx
    BY <1>2 DEF OneWorker
  <2> QED
    BY <2>2, <2>3, <2>4 DEF Serves, Busy, Preparing, Publishing
<1>4. CASE SubmitTarget
  BY <1>4, SubmitEffect DEF Serves, SubmitTarget
<1>5. CASE SubmitStart
  <2>1. UNCHANGED <<target, signal>> /\ sub.pc = "start" /\ sub'.pc \notin {"target", "signal"}
    BY <1>1, <1>5 DEF SubmitStart, SubmitGoes, Submissions
  <2>2. CASE wpc' = wpc
    BY <1>2, <2>1, <2>2 DEF Wakeups, Serves
  <2>3. CASE wpc' # wpc
    <3>1. target.generation = 0
      BY <1>2, <1>5, <2>3 DEF SubmitStart, OneWorker
    <3>2. \A w \in Workers : wpc'[w] \in Busy => wpc[w] \in Busy
      BY SubmitEffect DEF Busy, Preparing, Publishing
    <3> QED
      BY <1>2, <2>1, <3>1, <3>2 DEF Wakeups, Serves
  <2> QED
    BY <2>2, <2>3
<1>6. CASE SubmitCheck \/ SubmitHandle \/ SubmitNumber \/ SubmitRegister \/ SubmitToken
  <2>1. UNCHANGED <<target, signal, wpc>> /\ sub.pc \notin {"target", "signal"}
    BY <1>6 DEF SubmitCheck, SubmitHandle, SubmitNumber, SubmitRegister, SubmitToken
  <2> QED
    BY <1>2, <2>1 DEF Wakeups, Serves
<1> QED
  BY <1>3, <1>4, <1>5, <1>6 DEF Submit

\* A worker goes back to waiting with the target published, or with a signal
\* in its channel: the cancellation of its generation, a fence it does not
\* pass and a publication that is overtaken all mean a later submission.
LEMMA WakeupsWorker ==
  ASSUME PlaneInv, Generations, Attempts, PublicationLock, Forward, OneWorker, Tokens, Wakeups,
         NEW w \in Workers, WorkerStep(w), Running'
  PROVE  \A v \in Workers : Serves(v)'
<1>1. /\ wpc \in [Workers -> WorkerPCs] /\ attempted \in [Workers -> Nat]
      /\ signal \in [Workers -> BOOLEAN] /\ target.generation \in Nat
      /\ job[w].generation \in Nat /\ runtime.revision \in Nat /\ target.revision \in Nat
      /\ cancelled \in SUBSET Nat
  BY DEF PlaneInv, TypeOK, GraphTypeOK, WorkerTypeOK, SubmitTypeOK, Targets, Snapshots
<1>2. /\ UNCHANGED <<lifecycle, target, sub>> /\ Running
      /\ \A v \in Workers \ {w} : wpc'[v] = wpc[v]
  BY WorkerEffect DEF workerFrame, Running
<1>3. \A v \in Workers \ {w} : wpc'[v] = "none"
  <2>1. wpc[w] # "none"
    BY DEF WorkerStep, Receive, Snap, Take, Settle, PrepareOk, PrepareFails,
           AfterTransient, Backoff, Compile, Reject, RejectRevision, AwaitSuperseded, Fence,
           PublishStatus, Commit
  <2> QED
    BY <1>2, <2>1 DEF OneWorker
<1>4. SUFFICES Serves(w)'
  <2>1. \A v \in Workers \ {w} : Serves(v)'
    BY <1>3 DEF Serves, Busy, Preparing, Publishing
  <2> QED
    BY <2>1
<1>5. sub.pc # "target" => \A token \in cancelled : token < target.generation
  BY <1>2 DEF Tokens
<1>6. ASSUME UNCHANGED <<attempted, signal>>, wpc'[w] = "recv", wpc[w] \in Busy \ {"take"},
             sub.pc \notin {"target", "signal"} =>
               \/ attempted[w] # target.generation
               \/ job[w].generation # target.generation
               \/ runtime'.revision = target.revision /\ runtime'.stored = target.stored
      PROVE  Serves(w)'
  <2>1. attempted[w] <= job[w].generation /\ job[w].generation <= target.generation
    BY <1>6 DEF Attempts, Generations
  <2>2. sub.pc # "signal" /\ attempted[w] # target.generation => signal[w]
    BY <1>2, <1>6 DEF Wakeups, Serves
  <2>3. sub.pc \notin {"target", "signal"} =>
          \/ signal[w]
          \/ runtime'.revision = target.revision /\ runtime'.stored = target.stored
    BY <1>1, <1>6, <2>1, <2>2
  <2> QED
    BY <1>2, <1>6, <2>3 DEF Serves, Busy, Preparing, Publishing
<1>7. ASSUME UNCHANGED <<attempted, signal>>, wpc[w] \in Busy, wpc'[w] \in Busy \cup {"snap"}
      PROVE  Serves(w)'
  BY <1>2, <1>7 DEF Wakeups, Serves, Busy, Preparing, Publishing
<1> USE DEF Busy, Preparing, Publishing
<1>8. CASE Receive(w)
  BY <1>1, <1>8 DEF Receive, Goes, Serves
<1>9. CASE Snap(w)
  BY <1>1, <1>2, <1>9 DEF Snap, Goes, Serves
<1>10. CASE Take(w)
  <2>1. UNCHANGED <<attempted, signal>> /\ wpc[w] = "take"
    BY <1>10 DEF Take
  <2>2. CASE target.generation = 0
    BY <1>1, <1>2, <1>10, <2>1, <2>2 DEF Take, Goes, Serves
  <2>3. CASE target.generation # 0
    BY <1>1, <1>7, <1>10, <2>1, <2>3 DEF Take, Goes
  <2> QED
    BY <2>2, <2>3
<1>11. CASE Settle(w)
  <2>1. /\ UNCHANGED <<attempted, signal>> /\ wpc'[w] = "recv" /\ wpc[w] \in Busy \ {"take"}
        /\ job[w].generation \in cancelled
    BY <1>1, <1>11 DEF Settle, Goes
  <2>2. sub.pc # "target" => job[w].generation # target.generation
    BY <1>1, <1>5, <2>1
  <2> QED
    BY <1>6, <2>1, <2>2
<1>12. CASE Backoff(w) \/ AwaitSuperseded(w)
  <2>1. /\ UNCHANGED <<attempted, signal>> /\ wpc[w] \in Busy \ {"take"}
        /\ \/ wpc'[w] = "snap"
           \/ wpc'[w] = "recv" /\ attempted[w] \in cancelled
    BY <1>1, <1>12 DEF Backoff, AwaitSuperseded, Goes
  <2>2. attempted[w] \in cancelled /\ sub.pc # "target" => attempted[w] # target.generation
    BY <1>1, <1>5
  <2> QED
    BY <1>6, <1>7, <2>1, <2>2
<1>13. CASE Fence(w)
  <2>1. UNCHANGED <<attempted, signal>> /\ wpc[w] = "fence" /\ WriteLockFree
    BY <1>13 DEF Fence
  <2>2. CASE ~Fenced(w)
    BY <1>1, <1>7, <1>13, <2>1, <2>2 DEF Fence, Goes
  <2>3. CASE Fenced(w)
    <3>1. wpc'[w] = "recv"
      BY <1>1, <1>13, <2>3 DEF Fence, Goes
    <3>2. latestGeneration = target.generation /\ sub.pc # "target"
      BY <2>1 DEF WriteLockFree, SubmitSteps, Generations, Numbering
    <3>3. job[w].generation # target.generation
      <4> SUFFICES ASSUME job[w].generation = target.generation PROVE FALSE
        OBVIOUS
      <4>1. job[w] = target /\ job[w].generation \notin cancelled
        BY <1>1, <1>5, <3>2 DEF Generations
      <4>2. job[w].revision < runtime.revision
        BY <2>3, <3>2, <4>1 DEF Fenced
      <4> QED
        BY <1>1, <4>1, <4>2 DEF Forward
    <3> QED
      BY <1>6, <2>1, <3>1, <3>3
  <2> QED
    BY <2>2, <2>3
<1>14. CASE Commit(w)
  <2>1. /\ UNCHANGED <<attempted, signal, runtime>> /\ wpc'[w] = "recv"
        /\ wpc[w] \in Publishing
    BY <1>1, <1>14 DEF Commit, Goes
  <2>2. \/ job[w].generation # target.generation
        \/ runtime'.revision = target.revision /\ runtime'.stored = target.stored
    BY <2>1 DEF PublicationLock, Generations
  <2> QED
    BY <1>6, <2>1, <2>2
<1>15. CASE PrepareOk(w) \/ PrepareFails(w) \/ AfterTransient(w) \/ Compile(w) \/ Reject(w)
            \/ RejectRevision(w) \/ PublishStatus(w)
  <2>1. UNCHANGED <<attempted, signal>> /\ wpc[w] \in Busy /\ wpc'[w] \in Busy \cup {"snap"}
    BY <1>1, <1>15 DEF PrepareOk, PrepareFails, AfterTransient, Compile, Reject,
           RejectRevision, PublishStatus, Goes
  <2> QED
    BY <1>7, <2>1
<1> QED
  BY <1>8, <1>9, <1>10, <1>11, <1>12, <1>13, <1>14, <1>15 DEF WorkerStep

\* Every step of the control plane keeps the wake-ups.
LEMMA WakeupsInductive ==
  PlaneInv /\ Generations /\ Attempts /\ PublicationLock /\ Forward /\ OneWorker /\ Tokens
    /\ Wakeups /\ [Next]_vars => Wakeups'
<1> SUFFICES ASSUME PlaneInv, Generations, Attempts, PublicationLock, Forward, OneWorker,
                    Tokens, Wakeups, [Next]_vars, Running'
             PROVE  \A w \in Workers : Serves(w)'
  BY DEF Wakeups
<1>1. ASSUME UNCHANGED <<lifecycle, wpc, attempted, target, signal, runtime>>,
             sub'.pc = sub.pc \/ sub.pc \notin {"target", "signal"}
      PROVE  \A w \in Workers : Serves(w)'
  BY <1>1 DEF Wakeups, Serves, Running
<1>2. CASE UNCHANGED <<lifecycle, wpc, attempted, target, signal, runtime, sub>>
  BY <1>1, <1>2
<1>3. CASE RequestShutdown \/ Shutdown
  <2>1. UNCHANGED <<attempted, target, signal, runtime, sub>>
    BY <1>3, ShutdownEffect DEF shutdownFrame
  <2>2. Running /\ wpc' = wpc
    BY <1>3, RunningShutdown
  <2> QED
    BY <2>1, <2>2 DEF Wakeups, Serves
<1>4. CASE SyncStep \/ SyncFault \/ SyncStops \/ OutageGrows
  <2>1. UNCHANGED <<lifecycle, wpc, attempted, target, signal, runtime>>
    BY <1>4, SyncEffect DEF syncFrame
  <2> QED
    BY <1>1, <1>4, <2>1, SyncSubmission
<1> QED
  BY <1>2, <1>3, <1>4, WakeupsSubmit, WakeupsWorker
     DEF Next, RecordPending, Reply, vars, graphVars

\* The one-slot channel between submit and the worker (state.rs: "submissions
\* replace its pending target") loses no submission, for any number of
\* submissions, retries and cancellations: once submit has returned, its graph
\* is published or a worker has yet to serve it.
THEOREM NoSubmissionIsLost == Spec => []NoLostWakeup
<1>1. Init => /\ Attempts /\ PublicationLock /\ Forward /\ OneWorker /\ Tokens /\ Wakeups
  BY DEF Init, GraphInit, SyncInit, Attempts, PublicationLock, Forward, OneWorker, Tokens,
         Wakeups, Serves, Running, NoTarget, Nothing, NoSubmission, Busy, Preparing,
         Publishing, SubmitSteps
<1>2. PlaneInv /\ Generations /\ Attempts /\ OneWorker /\ Wakeups => NoLostWakeup
  <2> SUFFICES ASSUME PlaneInv, Generations, Attempts, OneWorker, Wakeups,
                      Running, sub.pc \notin SubmitSteps, target.generation # 0,
                      ~(runtime.revision = target.revision /\ runtime.stored = target.stored)
               PROVE  \E w \in Workers :
                        \/ signal[w] /\ wpc[w] # "done"
                        \/ wpc[w] \in {"snap", "take"}
                        \/ /\ wpc[w] \in Preparing \cup {"failed", "backoff", "reject",
                                                        "rejecting", "rejected"}
                           /\ job[w].generation = target.generation
    BY DEF NoLostWakeup, Running
  <2> DEFINE w == workerTx
  <2>1. w \in Workers /\ wpc[w] \in WorkerPCs \ {"none", "done"}
    BY DEF PlaneInv, TypeOK, GraphTypeOK, SubmitTypeOK, WorkerTypeOK, OneWorker
  <2>2. Serves(w) /\ sub.pc \notin {"target", "signal"}
    BY <2>1 DEF Wakeups, SubmitSteps
  <2>3. attempted[w] \in Nat /\ job[w].generation \in Nat /\ target.generation \in Nat
    BY <2>1 DEF PlaneInv, TypeOK, GraphTypeOK, SubmitTypeOK, WorkerTypeOK, Targets
  <2>4. CASE wpc[w] \in Busy \ {"take"}
    <3>1. attempted[w] <= job[w].generation /\ job[w].generation <= target.generation
      BY <2>1, <2>4 DEF Attempts, Generations
    <3>2. signal[w] \/ attempted[w] = target.generation
      BY <2>2, <2>4 DEF Serves
    <3>3. signal[w] \/ job[w].generation = target.generation
      BY <2>3, <3>1, <3>2
    <3> QED
      BY <2>1, <2>4, <3>3 DEF Busy
  <2>5. CASE wpc[w] = "recv"
    BY <2>1, <2>2, <2>5 DEF Serves
  <2>6. CASE wpc[w] \in {"snap", "take"}
    BY <2>1, <2>6
  <2> QED
    BY <2>1, <2>4, <2>5, <2>6 DEF WorkerPCs, Busy
<1> QED
  BY <1>1, <1>2, PlaneInit, PlaneInductive, GenerationsInit, GenerationsInductive,
     AttemptsInductive, LockInductive, ForwardInductive, OneWorkerInductive,
     TokensInductive, WakeupsInductive, PTL DEF Spec

=============================================================================
