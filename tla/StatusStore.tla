----------------------------- MODULE StatusStore -----------------------------
(***************************************************************************)
(* Readiness and sync status (core/status.rs) as operators on one record;  *)
(* every method of StatusStore is one critical section of its mutex, so    *)
(* each operator below is one atomic update.                               *)
(*                                                                         *)
(* Instants are abstracted to what readiness tells apart: `outage` is "no" *)
(* when disconnected_since is None, "recent" when it is Some but not older *)
(* than config_stale_after, and "long" after that.  The source is etcd:    *)
(* begin_etcd_sync runs before the first list.  last_success and the error *)
(* text are diagnostics and left out.                                      *)
(***************************************************************************)
EXTENDS Naturals

CONSTANT FailReadinessWhenStale   \* status.fail_readiness_when_stale

ASSUME PolicyAssumption == FailReadinessWhenStale \in BOOLEAN

ErrorKind == {"None", "EtcdUnavailable", "CandidateInvalid"}

Status(revisions) ==
  [initialized : BOOLEAN,
   connected   : BOOLEAN,
   outage      : {"no", "recent", "long"},
   awaiting    : BOOLEAN,          \* awaiting_publish_after_reconnect
   errorKind   : ErrorKind,
   observed    : revisions,        \* `revision`; 0 is None
   published   : revisions]        \* published_revision; 0 is None

InitStatus ==
  [initialized |-> FALSE, connected |-> FALSE, outage |-> "no", awaiting |-> FALSE,
   errorKind |-> "None", observed |-> 0, published |-> 0]

\* disconnected_since is restarted by the first report of an outage only.
Disconnected(s) ==
  [s EXCEPT !.connected = FALSE,
            !.outage = IF s.connected \/ s.outage = "no" THEN "recent" ELSE s.outage]

MarkEtcdConnected(s, connected) ==
  IF connected THEN [s EXCEPT !.connected = TRUE, !.outage = "no"] ELSE Disconnected(s)

SetRevision(s, revision) == [s EXCEPT !.observed = revision]

\* A publication is what initializes, clears errors and opens the fence.
SetPublishedRevision(s, revision) ==
  [s EXCEPT !.published = revision, !.initialized = TRUE,
            !.errorKind = "None", !.awaiting = FALSE]

\* Transport recovery: fences readiness if this ends an outage of a gateway
\* that was already initialized.
RecordSyncSuccess(s, revision) ==
  [s EXCEPT !.observed = revision,
            !.errorKind = IF s.errorKind = "EtcdUnavailable" THEN "None" ELSE s.errorKind,
            !.awaiting = s.awaiting \/ (~s.connected /\ s.initialized),
            !.connected = TRUE,
            !.outage = "no"]

RecordSyncError(s) == [Disconnected(s) EXCEPT !.errorKind = "EtcdUnavailable"]

RecordPreparationError(s) == [s EXCEPT !.errorKind = "CandidateInvalid"]

\* The clock passing config_stale_after while disconnected.
OutageAges(s) == [s EXCEPT !.outage = IF s.outage = "recent" THEN "long" ELSE s.outage]

IsStale(s) == ~s.connected /\ s.outage = "long"

ComputeReady(s) ==
  /\ s.initialized
  /\ ~s.awaiting
  /\ ~(FailReadinessWhenStale /\ IsStale(s))

=============================================================================
