------------------------------ MODULE GraphStore ------------------------------
(***************************************************************************)
(* The configuration store seam (graph_mutation/store.rs, etcd/store.rs)   *)
(* and the Admin mutations that go through it (graph_mutation/authority.rs *)
(* put/delete, decode.rs plan_put_mutation/plan_delete_mutation).          *)
(*                                                                         *)
(* etcd is external and modelled by what the code uses of it: a multi-     *)
(* version map whose every write gets the next revision.  history[r + 1]   *)
(* is the stored graph at revision r and written[r] the resource key the   *)
(* write r changed (NoKey: a write outside the resource keys, which moves  *)
(* the revision only).  A resource is [body, secret, mod]; mod = 0 is      *)
(* "does not exist", as in etcd's comparisons.                             *)
(***************************************************************************)
EXTENDS Naturals, Sequences, FiniteSets

CONSTANTS
  Keys,               \* keys under the canonical prefix, the guard excepted
  MalformedKeys,      \* those that are not <kind>/<id>
  NoKey,
  Bodies,             \* what validation and compilation see of a resource
  Secrets,            \* values of its secret fields
  NoBody, NoSecret,   \* of a resource that does not exist
  Sentinel,           \* "***": the redaction mask a client may send back
  Valid(_),           \* validate_config_set on a graph's bodies
  Admins,             \* concurrent Admin API requests
  MaxRevision,        \* bound: the last store revision
  ForeignWrites,      \* may writes outside the prefix happen?
  DirectWrites        \* the deployments looked at: with a writer that ignores
                      \* the guard (TRUE), without one (FALSE)

ASSUME StoreAssumption ==
  /\ MalformedKeys \subseteq Keys
  /\ NoKey \notin Keys
  /\ NoBody \notin Bodies
  /\ NoSecret \notin Secrets \cup {Sentinel}
  /\ Sentinel \notin Secrets
  /\ MaxRevision \in Nat
  /\ ForeignWrites \in BOOLEAN
  /\ DirectWrites \in SUBSET BOOLEAN

\* validate_config_set accepts an empty configuration.
ASSUME EmptyValid == Valid([k \in Keys |-> NoBody])

VARIABLES
  history,    \* Seq of stored graphs, one per revision from 0
  written,    \* Seq(Keys \cup {NoKey})
  guard,      \* mod revision of .pingsix_graph_revision; 0: not created yet
  admin,      \* the local state of every Admin request
  direct      \* is there a writer that ignores the guard?  Never changes.

storeVars == <<history, written, guard, admin, direct>>

-----------------------------------------------------------------------------
Revision == Len(written)                \* the cluster revision
At(r) == history[r + 1]
Current == At(Revision)

Resource == [body : Bodies \cup {NoBody}, secret : Secrets \cup {NoSecret, Sentinel},
             mod : Nat]
Absent == [body |-> NoBody, secret |-> NoSecret, mod |-> 0]
Graphs == [Keys -> Resource]
EmptyGraph == [k \in Keys |-> Absent]

BodiesOf(graph) == [k \in Keys |-> graph[k].body]
Exists(graph, k) == graph[k].mod # 0

\* graph_snapshot_from_list maps every key or fails.
Mappable(graph) == \A k \in MalformedKeys : ~Exists(graph, k)

Idle == [pc |-> "idle"]

\* etcd appends the graph of the new revision.
Write(k, resource) ==
  /\ history' = Append(history, [Current EXCEPT ![k] = resource])
  /\ written' = Append(written, k)

-----------------------------------------------------------------------------
(***************************************************************************)
(* Admin PUT and DELETE: read a snapshot, derive the stored value and the  *)
(* CAS expectations from that one snapshot, commit.                        *)
(***************************************************************************)
\* store.snapshot(): the graph and the guard of one read, or an error.
Snapshot(a) ==
  /\ admin[a].pc = "idle"
  /\ Mappable(Current)
  /\ admin' = [admin EXCEPT ![a] = [pc |-> "planning", graph |-> Current, guard |-> guard]]
  /\ UNCHANGED <<history, written, guard, direct>>

\* restore_redacted_secrets: a masked secret is taken from the snapshot, if
\* the resource is there; if not, the mask itself is what gets stored.
RestoredSecret(graph, k, secret) ==
  IF secret = Sentinel /\ Exists(graph, k) THEN graph[k].secret ELSE secret

\* GraphCommit.  `masked` remembers, for the properties, whether the client
\* sent the mask.
CommitPlan(graph, guardMod, k, body, secret, masked) ==
  [pc |-> "commit", key |-> k, body |-> body, secret |-> secret, masked |-> masked,
   expectedTarget |-> graph[k].mod, expectedGuard |-> guardMod]

\* The bodies of the graph a mutation would make.
Candidate(graph, k, body) == [BodiesOf(graph) EXCEPT ![k] = body]

\* put up to the CAS: restoration, validation of the candidate graph.
PlanPut(a) ==
  /\ admin[a].pc = "planning"
  /\ \E k \in Keys \ MalformedKeys, body \in Bodies, secret \in Secrets \cup {Sentinel} :
       LET graph    == admin[a].graph
           restored == RestoredSecret(graph, k, secret)
       IN  admin' = [admin EXCEPT ![a] =
             IF Valid(Candidate(graph, k, body))
               THEN CommitPlan(graph, admin[a].guard, k, body, restored, secret = Sentinel)
               ELSE Idle]                                   \* InvalidCandidate
  /\ UNCHANGED <<history, written, guard, direct>>

\* delete up to the CAS: the resource must exist and nothing may refer to it.
PlanDelete(a) ==
  /\ admin[a].pc = "planning"
  /\ \E k \in Keys \ MalformedKeys :
       LET graph == admin[a].graph
       IN  admin' = [admin EXCEPT ![a] =
             IF Exists(graph, k) /\ Valid(Candidate(graph, k, NoBody))
               THEN CommitPlan(graph, admin[a].guard, k, NoBody, NoSecret, FALSE)
               ELSE Idle]                       \* NotFound, ReferentialConflict
  /\ UNCHANGED <<history, written, guard, direct>>

\* Mutants of CasHolds: one of the two comparisons of graph_txn is forgotten.
CasWithoutGuard(plan) == Current[plan.key].mod = plan.expectedTarget
CasWithoutTarget(plan) == guard = plan.expectedGuard

\* The two comparisons of graph_txn.
CasHolds(plan) ==
  /\ Current[plan.key].mod = plan.expectedTarget
  /\ guard = plan.expectedGuard

\* compare_and_swap when the comparisons hold: the mutation and the guard are
\* written at one revision.  The reply may be lost, and then put/delete fails
\* with the write done ("idle"); otherwise the request goes on to record it.
CommitOk(a) ==
  LET plan == admin[a]
      mod  == Revision + 1
  IN  /\ plan.pc = "commit"
      /\ Revision < MaxRevision
      /\ CasHolds(plan)
      /\ Write(plan.key, IF plan.body = NoBody THEN Absent
                         ELSE [body |-> plan.body, secret |-> plan.secret, mod |-> mod])
      /\ guard' = mod
      /\ \E reply \in {[pc |-> "record", revision |-> mod], Idle} :
           admin' = [admin EXCEPT ![a] = reply]
      /\ UNCHANGED direct

\* compare_and_swap when they do not (Conflict), or the store was not reached.
CommitFails(a) ==
  /\ admin[a].pc = "commit"
  /\ admin' = [admin EXCEPT ![a] = Idle]
  /\ UNCHANGED <<history, written, guard, direct>>

AdminStep(a) ==
  \/ Snapshot(a)
  \/ PlanPut(a)
  \/ PlanDelete(a)
  \/ CommitOk(a)
  \/ CommitFails(a)

\* The request is over; in ControlPlane it records its revision first.
Finish(a) ==
  /\ admin[a].pc = "record"
  /\ admin' = [admin EXCEPT ![a] = Idle]
  /\ UNCHANGED <<history, written, guard, direct>>

-----------------------------------------------------------------------------
\* A write outside the prefix (another tenant of the cluster).
ForeignWrite ==
  /\ ForeignWrites
  /\ Revision < MaxRevision
  /\ history' = Append(history, Current)
  /\ written' = Append(written, NoKey)
  /\ UNCHANGED <<guard, admin, direct>>

\* A writer that does not use the guard protocol (etcdctl, another
\* controller) puts a resource, valid or not, or deletes one.
DirectWrite ==
  /\ direct
  /\ Revision < MaxRevision
  /\ \E k \in Keys :
       \/ \E body \in Bodies, secret \in Secrets :
            Write(k, [body |-> body, secret |-> secret, mod |-> Revision + 1])
       \/ Exists(Current, k) /\ Write(k, Absent)
  /\ UNCHANGED <<guard, admin, direct>>

EnvironmentStep == ForeignWrite \/ DirectWrite

\* An empty cluster is at revision 1.
StoreInit ==
  /\ history = <<EmptyGraph, EmptyGraph>>
  /\ written = <<NoKey>>
  /\ guard = 0
  /\ admin = [a \in Admins |-> Idle]
  /\ direct \in DirectWrites

StoreNext ==
  \/ \E a \in Admins : AdminStep(a) \/ Finish(a)
  \/ EnvironmentStep

StoreSpec == StoreInit /\ [][StoreNext]_storeVars

-----------------------------------------------------------------------------
(***************************************************************************)
(* Properties                                                              *)
(***************************************************************************)
AdminState ==
  {Idle}
  \cup [pc : {"planning"}, graph : Graphs, guard : Nat]
  \cup [pc : {"commit"}, key : Keys, body : Bodies \cup {NoBody},
        secret : Secrets \cup {NoSecret, Sentinel}, masked : BOOLEAN,
        expectedTarget : Nat, expectedGuard : Nat]
  \cup [pc : {"record", "reply"}, revision : Nat]

\* The store has one graph per revision; an Admin request is idle, holds a
\* snapshot, holds a commit, or holds the revision it committed and reports.
StoreTypeOK ==
  /\ written \in Seq(Keys \cup {NoKey})
  /\ history \in Seq(Graphs)
  /\ Len(history) = Len(written) + 1
  /\ guard \in Nat
  /\ admin \in [Admins -> AdminState]
  /\ direct \in BOOLEAN

\* Whole-graph validation is never bypassed: with every resource write going
\* through the guarded CAS, each graph the store ever held passes validation,
\* although each request validated only its own, possibly stale, snapshot
\* (e.g. one deletes an upstream while another adds a route to it).
StoredGraphsValid ==
  ~direct => \A r \in 0..Revision : Valid(BodiesOf(At(r)))

\* Step a is the commit of request a.
CommitsNow(a) == admin[a].pc = "commit" /\ written' # written /\ admin'[a] # admin[a]

\* A PUT that sent the mask back (GET, edit, PUT) leaves the stored secret as
\* it is at the moment of the commit, even when the secret was rotated, by
\* whatever writer, after the PUT read it.
RedactedPutKeepsSecret ==
  [][\A a \in Admins :
       LET plan == admin[a]
       IN  CommitsNow(a) /\ plan.masked /\ Exists(Current, plan.key)
             => Current'[plan.key].secret = Current[plan.key].secret]_storeVars

=============================================================================
