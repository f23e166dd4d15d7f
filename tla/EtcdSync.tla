------------------------------- MODULE EtcdSync -------------------------------
(***************************************************************************)
(* The etcd list/watch task (config/etcd/sync.rs) composed with the        *)
(* configuration graph, the store and the Admin requests: the control      *)
(* plane of one gateway.                                                   *)
(*                                                                         *)
(* list() reads the whole graph and submits it; watch() then submits the   *)
(* changes after it, batch by batch; every failure goes back to list().    *)
(* The stream position is etcd's; EtcdConfigSync.revision only says where  *)
(* the next watch starts, and list() sets it before every watch.           *)
(***************************************************************************)
EXTENDS ConfigurationGraph, FiniteSetsExt

CONSTANT MaxFaults      \* bound: transport failures and closed streams

ASSUME FaultAssumption == MaxFaults \in Nat

VARIABLES
  sync,       \* program counter of the task
  listed,     \* the list response
  cursor,     \* stream position: the last revision delivered
  faults

syncVars == <<sync, listed, cursor, faults>>
vars == <<storeVars, graphVars, syncVars>>

\* Everything but the sync task's own state, the status and the submission.
syncFrame ==
  <<storeVars, lifecycle, latestGeneration, target, committed, cancelled,
    activeCancellation, workerTx, workerTask, records, publishedRevision, runtime, wpc,
    signal, attempted, job, doomed, stopping, joining>>

-----------------------------------------------------------------------------
\* The two arms of run_sync_loop's error handling; both lead to list().
TransportFailed(s) == MarkEtcdConnected(RecordSyncError(s), FALSE)
DataRejected(s) == RecordPreparationError(s)

\* A fault of the network or of etcd, as often as the bound allows.
Fault == faults < MaxFaults /\ faults' = faults + 1

\* get() fails.
ListFails ==
  /\ sync = "list"
  /\ Fault
  /\ status' = TransportFailed(status)
  /\ UNCHANGED <<syncFrame, sub, sync, listed, cursor>>

\* get() answers: transport recovery is recorded before anything is submitted.
ListOk ==
  /\ sync = "list"
  /\ listed' = [revision |-> Revision, stored |-> Current]
  /\ status' = RecordSyncSuccess(status, Revision)
  /\ sync' = "listed"
  /\ UNCHANGED <<syncFrame, sub, cursor, faults>>

\* graph_snapshot_from_list cannot map a key: classified as a transport error.
ListUnmappable ==
  /\ sync = "listed"
  /\ ~Mappable(listed.stored)
  /\ status' = TransportFailed(status)
  /\ sync' = "list"
  /\ UNCHANGED <<syncFrame, sub, listed, cursor, faults>>

Submission(revision, stored) ==
  [pc |-> "check", revision |-> revision, stored |-> stored, worker |-> NoWorker]

\* replace_all: under write_lock, reject the graph or submit it.
ReplaceAll ==
  /\ sync = "listed"
  /\ Mappable(listed.stored)
  /\ WriteLockFree
  /\ \/ /\ ~Accepts(listed.stored)
        /\ status' = DataRejected(status)
        /\ sync' = "list"
        /\ UNCHANGED sub
     \/ /\ Accepts(listed.stored)
        /\ sub' = Submission(listed.revision, listed.stored)
        /\ sync' = "replacing"
        /\ UNCHANGED status
  /\ UNCHANGED <<syncFrame, listed, cursor, faults>>

\* The rest of list(): the watch will start after the listed revision.
Replaced ==
  /\ sync = "replacing"
  /\ sub.pc = "ok"
  /\ cursor' = listed.revision
  /\ status' = SetRevision(status, listed.revision)
  /\ sub' = NoSubmission
  /\ sync' = "open"
  /\ UNCHANGED <<syncFrame, listed, faults>>

\* submit answered WorkerStopped: not a data error, so a transport one.
SubmissionStopped ==
  /\ sync \in {"replacing", "applying"}
  /\ sub.pc = "stopped"
  /\ status' = TransportFailed(status)
  /\ sub' = NoSubmission
  /\ sync' = "list"
  /\ UNCHANGED <<syncFrame, listed, cursor, faults>>

-----------------------------------------------------------------------------
OpenWatch ==
  /\ sync = "open"
  /\ status' = MarkEtcdConnected(status, TRUE)
  /\ sync' = "watching"
  /\ UNCHANGED <<syncFrame, sub, listed, cursor, faults>>

\* The watch cannot be opened, or its stream or progress request fails.
WatchFails ==
  /\ sync \in {"open", "watching"}
  /\ Fault
  /\ status' = TransportFailed(status)
  /\ sync' = "list"
  /\ UNCHANGED <<syncFrame, sub, listed, cursor>>

\* The stream ends or is cancelled (e.g. compaction): relist, no error.
WatchEnds ==
  /\ sync = "watching"
  /\ Fault
  /\ sync' = "list"
  /\ UNCHANGED <<syncFrame, sub, status, listed, cursor>>

\* Mutant of FinalEvent: the first event of a key wins.
FirstEvent(k, from, to) == At(Min({r \in from + 1 .. to : written[r] = k}))[k]

\* The events of one watch response, (from, to]: their keys, and the last
\* one of each (graph_changes_from_events keeps the latest per key).
EventKeys(from, to) == {written[r] : r \in from + 1 .. to} \ {NoKey}
FinalEvent(k, from, to) == At(Max({r \in from + 1 .. to : written[r] = k}))[k]
BatchRevision(from, to) == Max({r \in from + 1 .. to : written[r] # NoKey})

\* A response the prefix has no event in, which etcd sends as a progress
\* notification: an empty batch, which apply_watch ignores.
WatchProgress ==
  /\ sync = "watching"
  /\ \E to \in cursor + 1 .. Revision :
       /\ EventKeys(cursor, to) = {}
       /\ cursor' = to
       /\ status' = RecordSyncSuccess(status, to)
  /\ UNCHANGED <<syncFrame, sub, sync, listed, faults>>

\* A malformed key rejects the whole response.
WatchUnmappable ==
  /\ sync = "watching"
  /\ \E to \in cursor + 1 .. Revision : EventKeys(cursor, to) \cap MalformedKeys # {}
  /\ status' = TransportFailed(status)
  /\ sync' = "list"
  /\ UNCHANGED <<syncFrame, sub, listed, cursor, faults>>

\* The graph the changes are layered on: the latest target, which a list has
\* always set before there is a watch.
WatchBase == target.stored

\* apply_watch_batch
Layered(base, from, to) ==
  [k \in Keys |-> IF k \in EventKeys(from, to) THEN FinalEvent(k, from, to) ELSE base[k]]

\* Mutant of WatchVerdict: the layered graph is not validated.
WatchUnvalidated(revision, stored) ==
  IF revision < runtime.revision THEN "stale" ELSE "submit"

\* What apply_watch makes of a batch: StaleRevision counts as a transport
\* error; an invalid graph is rejected; the rest is submitted.
WatchVerdict(revision, stored) ==
  IF revision < runtime.revision THEN "stale"
  ELSE IF Accepts(stored) THEN "submit" ELSE "invalid"

\* apply_watch, under write_lock.
ApplyWatch ==
  /\ sync = "watching"
  /\ WriteLockFree
  /\ \E to \in cursor + 1 .. Revision :
       /\ EventKeys(cursor, to) # {}
       /\ EventKeys(cursor, to) \cap MalformedKeys = {}
       /\ LET revision == BatchRevision(cursor, to)
              stored   == Layered(WatchBase, cursor, to)
              verdict  == WatchVerdict(revision, stored)
          IN  IF verdict = "submit"
                THEN /\ sub' = Submission(revision, stored)
                     /\ cursor' = to
                     /\ sync' = "applying"
                     /\ UNCHANGED status
                ELSE /\ status' = IF verdict = "invalid" THEN DataRejected(status)
                                  ELSE TransportFailed(status)
                     /\ sync' = "list"
                     /\ UNCHANGED <<sub, cursor>>
  /\ UNCHANGED <<syncFrame, listed, faults>>

\* Back in watch(): progress is recorded after the submission.
Applied ==
  /\ sync = "applying"
  /\ sub.pc = "ok"
  /\ status' = RecordSyncSuccess(status, cursor)
  /\ sub' = NoSubmission
  /\ sync' = "watching"
  /\ UNCHANGED <<syncFrame, listed, cursor, faults>>

-----------------------------------------------------------------------------
\* run_sync_loop returns when the shutdown signal is seen at an await.
SyncStops ==
  /\ stopping # "none"
  /\ sync \in {"list", "open", "watching"}
  /\ sync' = "stopped"
  /\ UNCHANGED <<syncFrame, sub, status, listed, cursor, faults>>

SyncStep ==
  \/ ListOk
  \/ ListUnmappable
  \/ ReplaceAll
  \/ Replaced
  \/ SubmissionStopped
  \/ OpenWatch
  \/ WatchProgress
  \/ WatchUnmappable
  \/ ApplyWatch
  \/ Applied

SyncFault == ListFails \/ WatchFails \/ WatchEnds

SyncInit ==
  /\ sync = "list"
  /\ listed = Nothing
  /\ cursor = 0
  /\ faults = 0

SyncTypeOK ==
  /\ sync \in {"list", "listed", "replacing", "open", "watching", "applying", "stopped"}
  /\ listed \in Snapshots
  /\ cursor \in Nat
  /\ faults \in Nat

=============================================================================
