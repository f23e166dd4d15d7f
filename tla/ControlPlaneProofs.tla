-------------------------- MODULE ControlPlaneProofs --------------------------
(***************************************************************************)
(* Theorems about GraphStore and ControlPlane, for any keys, resources,    *)
(* revisions, faults, Admin requests, registry capacity and number of      *)
(* workers: the types, the two properties of the guarded compare-and-swap, *)
(* and that the data plane only ever runs a graph etcd held.               *)
(***************************************************************************)
EXTENDS ControlPlane, WellFoundedInduction, TLAPS


-----------------------------------------------------------------------------
(***************************************************************************)
(* Types                                                                   *)
(***************************************************************************)
\* What an Admin request holds is determined by its program counter.
LEMMA AdminFields ==
  ASSUME NEW s \in AdminState
  PROVE  /\ s.pc = "planning" => s.graph \in Graphs /\ s.guard \in Nat
         /\ s.pc = "commit" => /\ s.key \in Keys
                               /\ s.body \in Bodies \cup {NoBody}
                               /\ s.secret \in Secrets \cup {NoSecret, Sentinel}
                               /\ s.masked \in BOOLEAN
                               /\ s.expectedTarget \in Nat
                               /\ s.expectedGuard \in Nat
         /\ s.pc \in {"record", "reply"} => s.revision \in Nat
  BY DEF AdminState, Idle

\* The current revision has a graph.
LEMMA CurrentInGraphs ==
  ASSUME StoreTypeOK
  PROVE  Current \in Graphs /\ Revision \in Nat
  BY DEF StoreTypeOK, Current, At, Revision

\* A write keeps the two sequences in step.
LEMMA WriteType ==
  ASSUME StoreTypeOK, NEW k \in Keys, NEW resource \in Resource, Write(k, resource)
  PROVE  /\ history' \in Seq(Graphs)
         /\ written' \in Seq(Keys \cup {NoKey})
         /\ Len(history') = Len(written') + 1
<1>1. [Current EXCEPT ![k] = resource] \in Graphs
  BY CurrentInGraphs DEF Graphs
<1> QED
  BY <1>1 DEF Write, StoreTypeOK

\* An empty cluster and idle requests are well typed.
LEMMA StoreTypeInit == StoreInit => StoreTypeOK
<1> SUFFICES ASSUME StoreInit PROVE StoreTypeOK
  OBVIOUS
<1>1. EmptyGraph \in Graphs
  BY DEF EmptyGraph, Graphs, Absent, Resource
<1>2. history \in Seq(Graphs) /\ Len(history) = 2
  BY <1>1 DEF StoreInit
<1>3. written \in Seq(Keys \cup {NoKey}) /\ Len(written) = 1
  BY DEF StoreInit
<1>4. direct \in BOOLEAN
  BY StoreAssumption DEF StoreInit
<1>5. admin \in [Admins -> AdminState]
  BY DEF StoreInit, AdminState
<1> QED
  BY <1>2, <1>3, <1>4, <1>5 DEF StoreInit, StoreTypeOK

\* The steps of an Admin request keep the types.
LEMMA AdminStepType ==
  ASSUME StoreTypeOK, NEW a \in Admins, AdminStep(a)
  PROVE  StoreTypeOK'
<1> USE AdminFields, CurrentInGraphs
<1>1. admin[a] \in AdminState
  BY DEF StoreTypeOK
<1>2. CASE Snapshot(a)
  <2>1. [pc |-> "planning", graph |-> Current, guard |-> guard] \in AdminState
    BY DEF StoreTypeOK, AdminState
  <2> QED
    BY <1>2, <2>1 DEF Snapshot, StoreTypeOK
<1>3. CASE PlanPut(a)
  <2> PICK k \in Keys \ MalformedKeys, body \in Bodies, secret \in Secrets \cup {Sentinel} :
        admin' = [admin EXCEPT ![a] =
          IF Valid(Candidate(admin[a].graph, k, body))
            THEN CommitPlan(admin[a].graph, admin[a].guard, k, body,
                            RestoredSecret(admin[a].graph, k, secret), secret = Sentinel)
            ELSE Idle]
    BY <1>3 DEF PlanPut
  <2>1. admin[a].graph \in Graphs /\ admin[a].guard \in Nat
    BY <1>1, <1>3 DEF PlanPut
  <2>2. admin[a].graph[k] \in Resource
    BY <2>1 DEF Graphs
  <2>3. RestoredSecret(admin[a].graph, k, secret) \in Secrets \cup {NoSecret, Sentinel}
    BY <2>2 DEF RestoredSecret, Resource
  <2>4. CommitPlan(admin[a].graph, admin[a].guard, k, body,
                   RestoredSecret(admin[a].graph, k, secret), secret = Sentinel) \in AdminState
    BY <2>1, <2>2, <2>3 DEF CommitPlan, AdminState, Resource
  <2>5. Idle \in AdminState
    BY DEF AdminState
  <2> QED
    BY <1>3, <2>4, <2>5 DEF PlanPut, StoreTypeOK
<1>4. CASE PlanDelete(a)
  <2> PICK k \in Keys \ MalformedKeys :
        admin' = [admin EXCEPT ![a] =
          IF Exists(admin[a].graph, k) /\ Valid(Candidate(admin[a].graph, k, NoBody))
            THEN CommitPlan(admin[a].graph, admin[a].guard, k, NoBody, NoSecret, FALSE)
            ELSE Idle]
    BY <1>4 DEF PlanDelete
  <2>1. admin[a].graph \in Graphs /\ admin[a].guard \in Nat
    BY <1>1, <1>4 DEF PlanDelete
  <2>2. admin[a].graph[k] \in Resource
    BY <2>1 DEF Graphs
  <2>3. CommitPlan(admin[a].graph, admin[a].guard, k, NoBody, NoSecret, FALSE) \in AdminState
    BY <2>1, <2>2 DEF CommitPlan, AdminState, Resource
  <2>4. Idle \in AdminState
    BY DEF AdminState
  <2> QED
    BY <1>4, <2>3, <2>4 DEF PlanDelete, StoreTypeOK
<1>5. CASE CommitOk(a)
  <2> DEFINE plan == admin[a]
             resource == IF plan.body = NoBody THEN Absent
                         ELSE [body |-> plan.body, secret |-> plan.secret, mod |-> Revision + 1]
  <2>1. plan.key \in Keys /\ resource \in Resource
    BY <1>1, <1>5 DEF CommitOk, Resource, Absent
  <2>2. Write(plan.key, resource)
    BY <1>5 DEF CommitOk
  <2>3. {[pc |-> "record", revision |-> Revision + 1], Idle} \subseteq AdminState
    BY DEF AdminState
  <2>4. guard' \in Nat /\ direct' = direct /\ admin' \in [Admins -> AdminState]
    BY <1>5, <2>3 DEF CommitOk, StoreTypeOK
  <2> HIDE DEF plan, resource
  <2> QED
    BY <2>1, <2>2, <2>4, WriteType DEF StoreTypeOK
<1>6. CASE CommitFails(a)
  BY <1>6 DEF CommitFails, StoreTypeOK, AdminState
<1> QED
  BY <1>2, <1>3, <1>4, <1>5, <1>6 DEF AdminStep

\* Ending an Admin request keeps the types.
LEMMA FinishType ==
  ASSUME StoreTypeOK, NEW a \in Admins, Finish(a)
  PROVE  StoreTypeOK'
  BY DEF Finish, StoreTypeOK, AdminState

\* So do other writers.
LEMMA EnvironmentStepType ==
  ASSUME StoreTypeOK, EnvironmentStep
  PROVE  StoreTypeOK'
<1>1. CASE ForeignWrite
  BY <1>1, CurrentInGraphs DEF ForeignWrite, StoreTypeOK
<1>2. CASE DirectWrite
  <2>1. PICK k \in Keys, resource \in Resource : Write(k, resource)
    <3>1. PICK k \in Keys :
            \/ \E body \in Bodies, secret \in Secrets :
                 Write(k, [body |-> body, secret |-> secret, mod |-> Revision + 1])
            \/ Exists(Current, k) /\ Write(k, Absent)
      BY <1>2 DEF DirectWrite
    <3>2. Absent \in Resource
      BY DEF Absent, Resource
    <3>3. \A body \in Bodies, secret \in Secrets :
            [body |-> body, secret |-> secret, mod |-> Revision + 1] \in Resource
      BY CurrentInGraphs DEF Resource
    <3> QED
      BY <3>1, <3>2, <3>3
  <2> QED
    BY <1>2, <2>1, WriteType DEF DirectWrite, StoreTypeOK
<1> QED
  BY <1>1, <1>2 DEF EnvironmentStep

\* Every reachable state of the store and of the Admin requests is well typed.
THEOREM StoreTypeCorrect == StoreSpec => []StoreTypeOK
<1>1. StoreInit => StoreTypeOK
  BY StoreTypeInit
<1>2. StoreTypeOK /\ [StoreNext]_storeVars => StoreTypeOK'
  <2> SUFFICES ASSUME StoreTypeOK, [StoreNext]_storeVars PROVE StoreTypeOK'
    OBVIOUS
  <2>1. CASE UNCHANGED storeVars
    BY <2>1 DEF storeVars, StoreTypeOK
  <2> QED
    BY <2>1, AdminStepType, FinishType, EnvironmentStepType DEF StoreNext
<1> QED
  BY <1>1, <1>2, PTL DEF StoreSpec

-----------------------------------------------------------------------------
(***************************************************************************)
(* The guarded compare-and-swap.  A snapshot may be stale, and the         *)
(* invariant says what is still known of it: if the guard has not moved,   *)
(* the bodies it holds are the current ones (every commit moves the guard, *)
(* to a revision no request has seen); if a resource's mod revision has    *)
(* not moved, the resource has not changed.  A commit inherits both.       *)
(***************************************************************************)
SnapshotInv(s) ==
  /\ s.guard <= guard
  /\ ~direct /\ s.guard = guard => BodiesOf(s.graph) = BodiesOf(Current)
  /\ \A k \in Keys :
       /\ s.graph[k].mod <= Revision
       /\ Exists(Current, k) /\ s.graph[k].mod = Current[k].mod => s.graph[k] = Current[k]

CommitInv(s) ==
  /\ s.expectedGuard <= guard
  /\ ~direct /\ s.expectedGuard = guard
       => Valid(Candidate(Current, s.key, s.body))
  /\ s.expectedTarget <= Revision
  /\ s.masked => s.body # NoBody
  /\ s.masked /\ Exists(Current, s.key) /\ s.expectedTarget = Current[s.key].mod
       => s.secret = Current[s.key].secret

CasInv ==
  /\ StoreTypeOK
  /\ guard <= Revision
  /\ \A k \in Keys : Current[k].mod <= Revision
  /\ \A a \in Admins :
       /\ admin[a].pc = "planning" => SnapshotInv(admin[a])
       /\ admin[a].pc = "commit" => CommitInv(admin[a])
  /\ StoredGraphsValid

\* A write adds one revision, with one resource changed.
LEMMA WriteEffect ==
  ASSUME StoreTypeOK, NEW k \in Keys, NEW resource \in Resource, Write(k, resource)
  PROVE  /\ Revision' = Revision + 1
         /\ Current' = [Current EXCEPT ![k] = resource]
         /\ \A r \in 0 .. Revision : At(r)' = At(r)
  BY CurrentInGraphs DEF Write, StoreTypeOK, Revision, Current, At

\* A foreign write adds one revision, with nothing changed.
LEMMA ForeignWriteEffect ==
  ASSUME StoreTypeOK, ForeignWrite
  PROVE  /\ Revision' = Revision + 1
         /\ Current' = Current
         /\ \A r \in 0 .. Revision : At(r)' = At(r)
  BY CurrentInGraphs DEF ForeignWrite, StoreTypeOK, Revision, Current, At

\* The bodies of a graph after one resource of it was replaced.
LEMMA BodiesOfExcept ==
  ASSUME NEW graph \in Graphs, NEW k \in Keys, NEW resource \in Resource
  PROVE  BodiesOf([graph EXCEPT ![k] = resource])
           = Candidate(graph, k, resource.body)
  BY DEF BodiesOf, Graphs, Candidate

\* Graphs with the same bodies make the same candidates, so the validation of
\* a snapshot is that of any graph with its bodies.
LEMMA SameCandidate ==
  ASSUME NEW graph, NEW other, BodiesOf(graph) = BodiesOf(other), NEW k, NEW body
  PROVE  Candidate(graph, k, body) = Candidate(other, k, body)
  BY DEF Candidate

\* What is known of a request that does not move survives a write of another,
\* which either moves the guard or is direct.
LEMMA WriteKeepsRequests ==
  ASSUME CasInv, NEW k \in Keys, NEW resource \in Resource, Write(k, resource),
         resource.mod \in {0, Revision + 1},
         direct' = direct, guard' \in Nat, guard' >= guard, direct \/ guard' > guard,
         NEW s \in AdminState
  PROVE  /\ s.pc = "planning" /\ SnapshotInv(s) => SnapshotInv(s)'
         /\ s.pc = "commit" /\ CommitInv(s) => CommitInv(s)'
<1>1. /\ Revision' = Revision + 1
      /\ Current' = [Current EXCEPT ![k] = resource]
  BY WriteEffect DEF CasInv
<1>2. Current \in Graphs /\ Revision \in Nat /\ guard \in Nat /\ direct \in BOOLEAN
  BY CurrentInGraphs DEF CasInv, StoreTypeOK
<1>3. ASSUME s.pc = "planning", SnapshotInv(s) PROVE SnapshotInv(s)'
  <2>1. s.graph \in Graphs /\ s.guard \in Nat
    BY <1>3, AdminFields
  <2>2. s.guard <= guard' /\ (direct \/ s.guard # guard')
    BY <1>2, <1>3, <2>1 DEF SnapshotInv
  <2>3. \A j \in Keys :
          /\ s.graph[j].mod <= Revision'
          /\ Exists(Current, j)' /\ s.graph[j].mod = Current'[j].mod
               => s.graph[j] = Current'[j]
    <3> TAKE j \in Keys
    <3>1. s.graph[j].mod \in Nat /\ s.graph[j].mod <= Revision
      BY <1>3, <2>1 DEF SnapshotInv, Graphs, Resource
    <3>2. CASE j = k
      BY <1>1, <1>2, <3>1, <3>2 DEF Exists, Graphs
    <3>3. CASE j # k
      BY <1>1, <1>2, <1>3, <3>1, <3>3 DEF Exists, Graphs, SnapshotInv
    <3> QED
      BY <3>2, <3>3
  <2> QED
    BY <2>2, <2>3 DEF SnapshotInv
<1>4. ASSUME s.pc = "commit", CommitInv(s) PROVE CommitInv(s)'
  <2>1. s.key \in Keys /\ s.expectedGuard \in Nat /\ s.expectedTarget \in Nat
    BY <1>4, AdminFields
  <2>2. s.expectedGuard <= guard' /\ (direct \/ s.expectedGuard # guard')
    BY <1>2, <1>4, <2>1 DEF CommitInv
  <2>3. s.expectedTarget <= Revision /\ s.expectedTarget <= Revision'
    BY <1>1, <1>2, <1>4, <2>1 DEF CommitInv
  <2>4. s.masked /\ Exists(Current, s.key)' /\ s.expectedTarget = Current'[s.key].mod
          => s.secret = Current'[s.key].secret
    <3>1. CASE s.key = k
      BY <1>1, <1>2, <2>1, <2>3, <3>1 DEF Exists, Graphs
    <3>2. CASE s.key # k
      BY <1>1, <1>2, <1>4, <2>1, <3>2 DEF Exists, Graphs, CommitInv
    <3> QED
      BY <3>1, <3>2
  <2> QED
    BY <1>4, <2>2, <2>3, <2>4 DEF CommitInv
<1> QED
  BY <1>3, <1>4

\* The revisions stay in order.
LEMMA WriteKeepsMods ==
  ASSUME CasInv, NEW k \in Keys, NEW resource \in Resource, Write(k, resource),
         resource.mod \in {0, Revision + 1}
  PROVE  \A j \in Keys : Current'[j].mod <= Revision'
<1> TAKE j \in Keys
<1>1. /\ Revision' = Revision + 1
      /\ Current' = [Current EXCEPT ![k] = resource]
  BY WriteEffect DEF CasInv
<1>2. Current \in Graphs /\ Revision \in Nat /\ Current[j].mod <= Revision
  BY CurrentInGraphs DEF CasInv
<1>3. Current[j].mod \in Nat
  BY <1>2 DEF Graphs, Resource
<1>4. CASE j = k
  BY <1>1, <1>2, <1>4 DEF Graphs
<1>5. CASE j # k
  BY <1>1, <1>2, <1>3, <1>5 DEF Graphs
<1> QED
  BY <1>4, <1>5

\* The graph a write adds is the only one to look at.
LEMMA AppendKeepsValid ==
  ASSUME CasInv, Revision' = Revision + 1, direct' = direct,
         \A r \in 0 .. Revision : At(r)' = At(r),
         ~direct => Valid(BodiesOf(Current)')
  PROVE  StoredGraphsValid'
<1> SUFFICES ASSUME ~direct, NEW r \in 0 .. Revision + 1
             PROVE  Valid(BodiesOf(At(r))')
  BY DEF StoredGraphsValid
<1>1. Revision \in Nat
  BY CurrentInGraphs DEF CasInv
<1>2. CASE r = Revision + 1
  <2>1. Current' = At(r)'
    BY <1>2 DEF Current, At
  <2> QED
    BY <2>1 DEF BodiesOf
<1>3. CASE r \in 0 .. Revision
  <2>1. Valid(BodiesOf(At(r))) /\ At(r)' = At(r)
    BY <1>3 DEF CasInv, StoredGraphsValid
  <2> QED
    BY <2>1 DEF BodiesOf
<1> QED
  BY <1>1, <1>2, <1>3

\* A step that writes nothing and moves one request.
LEMMA LocalStep ==
  ASSUME CasInv, StoreTypeOK', NEW a \in Admins,
         UNCHANGED <<history, written, guard, direct>>,
         NEW s, admin' = [admin EXCEPT ![a] = s],
         s.pc = "planning" => SnapshotInv(s),
         s.pc = "commit" => CommitInv(s)
  PROVE  CasInv'
<1>1. Current' = Current /\ Revision' = Revision /\ guard' = guard /\ direct' = direct
  BY DEF Current, Revision, At
<1>2. StoredGraphsValid'
  BY <1>1 DEF CasInv, StoredGraphsValid, At, BodiesOf
<1>3. \A b \in Admins :
        /\ admin'[b].pc = "planning" => SnapshotInv(admin'[b])
        /\ admin'[b].pc = "commit" => CommitInv(admin'[b])
  BY DEF CasInv, StoreTypeOK
<1>4. \A b \in Admins :
        /\ admin'[b].pc = "planning" => SnapshotInv(admin[b])'
        /\ admin'[b].pc = "commit" => CommitInv(admin[b])'
  <2> TAKE b \in Admins
  <2>1. CASE admin'[b].pc = "planning"
    BY <1>1, <1>3, <2>1 DEF SnapshotInv
  <2>2. CASE admin'[b].pc = "commit"
    BY <1>1, <1>3, <2>2 DEF CommitInv
  <2> QED
    BY <2>1, <2>2
<1> QED
  BY <1>1, <1>2, <1>4 DEF CasInv

\* Every step of put and delete (authority.rs) keeps the inductive invariant.
LEMMA AdminStepCas ==
  ASSUME CasInv, NEW a \in Admins, AdminStep(a)
  PROVE  CasInv'
<1>1. StoreTypeOK /\ StoreTypeOK'
  BY AdminStepType DEF CasInv
<1>2. /\ Current \in Graphs /\ Revision \in Nat /\ guard \in Nat
      /\ admin \in [Admins -> AdminState] /\ admin[a] \in AdminState
  BY <1>1, CurrentInGraphs DEF StoreTypeOK
<1>3. CASE Snapshot(a)
  <2> DEFINE s == [pc |-> "planning", graph |-> Current, guard |-> guard]
  <2>1. SnapshotInv(s)
    BY <1>2 DEF SnapshotInv, CasInv, StoreTypeOK
  <2>2. admin' = [admin EXCEPT ![a] = s] /\ UNCHANGED <<history, written, guard, direct>>
    BY <1>3 DEF Snapshot
  <2>3. s.pc # "commit"
    OBVIOUS
  <2> HIDE DEF s
  <2> QED
    BY <1>1, <2>1, <2>2, <2>3, LocalStep
<1>4. CASE PlanPut(a)
  <2> DEFINE snap == admin[a]
             plan(k, body, secret) ==
               CommitPlan(snap.graph, snap.guard, k, body,
                          RestoredSecret(snap.graph, k, secret), secret = Sentinel)
  <2>1. PICK k \in Keys \ MalformedKeys, body \in Bodies, secret \in Secrets \cup {Sentinel} :
          admin' = [admin EXCEPT ![a] =
            IF Valid(Candidate(snap.graph, k, body)) THEN plan(k, body, secret)
            ELSE Idle]
    BY <1>4 DEF PlanPut
  <2>2. SnapshotInv(snap) /\ snap.graph \in Graphs /\ snap.guard \in Nat
    BY <1>2, <1>4, AdminFields DEF PlanPut, CasInv
  <2>3. ASSUME Valid(Candidate(snap.graph, k, body))
        PROVE  CommitInv(plan(k, body, secret))
    <3>1. snap.graph[k] \in Resource /\ Current[k] \in Resource
      BY <1>2, <2>2 DEF Graphs
    <3>2. secret = Sentinel /\ Exists(Current, k) /\ snap.graph[k].mod = Current[k].mod
            => RestoredSecret(snap.graph, k, secret) = Current[k].secret
      BY <2>2 DEF SnapshotInv, RestoredSecret, Exists
    <3>3. ~direct /\ snap.guard = guard => Valid(Candidate(Current, k, body))
      BY <2>2, <2>3, SameCandidate DEF SnapshotInv
    <3>4. snap.guard <= guard /\ snap.graph[k].mod <= Revision
      BY <2>2 DEF SnapshotInv
    <3> DEFINE p == plan(k, body, secret)
    <3>5. /\ p.key = k /\ p.body = body /\ p.masked = (secret = Sentinel)
          /\ p.secret = RestoredSecret(snap.graph, k, secret)
          /\ p.expectedTarget = snap.graph[k].mod /\ p.expectedGuard = snap.guard
      BY DEF CommitPlan
    <3> HIDE DEF p
    <3>6. CommitInv(p)
      BY <3>2, <3>3, <3>4, <3>5, StoreAssumption DEF CommitInv
    <3> QED
      BY <3>6 DEF p
  <2>4. plan(k, body, secret).pc = "commit" /\ Idle.pc = "idle"
    BY DEF CommitPlan, Idle
  <2>5. UNCHANGED <<history, written, guard, direct>>
    BY <1>4 DEF PlanPut
  <2> HIDE DEF plan, snap
  <2>6. CASE Valid(Candidate(snap.graph, k, body))
    BY <1>1, <2>1, <2>3, <2>4, <2>5, <2>6, LocalStep
  <2>7. CASE ~Valid(Candidate(snap.graph, k, body))
    BY <1>1, <2>1, <2>4, <2>5, <2>7, LocalStep
  <2> QED
    BY <2>6, <2>7
<1>5. CASE PlanDelete(a)
  <2> DEFINE snap == admin[a]
             plan(k) == CommitPlan(snap.graph, snap.guard, k, NoBody, NoSecret, FALSE)
             ok(k) == /\ Exists(snap.graph, k)
                      /\ Valid(Candidate(snap.graph, k, NoBody))
  <2>1. PICK k \in Keys \ MalformedKeys :
          admin' = [admin EXCEPT ![a] = IF ok(k) THEN plan(k) ELSE Idle]
    BY <1>5 DEF PlanDelete
  <2>2. SnapshotInv(snap) /\ snap.graph \in Graphs /\ snap.guard \in Nat
    BY <1>2, <1>5, AdminFields DEF PlanDelete, CasInv
  <2>3. ok(k) => CommitInv(plan(k))
    BY <2>2, SameCandidate DEF CommitInv, SnapshotInv, CommitPlan
  <2>4. plan(k).pc = "commit" /\ Idle.pc = "idle"
    BY DEF CommitPlan, Idle
  <2>5. UNCHANGED <<history, written, guard, direct>>
    BY <1>5 DEF PlanDelete
  <2> HIDE DEF plan, snap, ok
  <2>6. CASE ok(k)
    BY <1>1, <2>1, <2>3, <2>4, <2>5, <2>6, LocalStep
  <2>7. CASE ~ok(k)
    BY <1>1, <2>1, <2>4, <2>5, <2>7, LocalStep
  <2> QED
    BY <2>6, <2>7
<1>6. CASE CommitOk(a)
  <2> DEFINE plan == admin[a]
             resource == IF plan.body = NoBody THEN Absent
                         ELSE [body |-> plan.body, secret |-> plan.secret, mod |-> Revision + 1]
  <2>1. /\ plan.key \in Keys /\ plan.body \in Bodies \cup {NoBody}
        /\ resource \in Resource /\ resource.mod \in {0, Revision + 1}
        /\ resource.body = plan.body
    BY <1>2, <1>6, AdminFields DEF CommitOk, Resource, Absent
  <2>2. Write(plan.key, resource) /\ guard' = Revision + 1 /\ direct' = direct
    BY <1>6 DEF CommitOk
  <2>3. CommitInv(plan) /\ plan.expectedGuard = guard
    BY <1>6 DEF CommitOk, CasHolds, CasInv
  <2>4. guard' \in Nat /\ guard' >= guard /\ guard' > guard
    BY <1>2, <2>2 DEF CasInv
  <2>5. admin'[a].pc \notin {"planning", "commit"}
    BY <1>2, <1>6 DEF CommitOk, Idle
  <2>6. \A b \in Admins \ {a} : admin'[b] = admin[b]
    BY <1>2, <1>6 DEF CommitOk
  <2> HIDE DEF resource
  <2>7. /\ Revision' = Revision + 1
        /\ Current' = [Current EXCEPT ![plan.key] = resource]
        /\ \A r \in 0 .. Revision : At(r)' = At(r)
    BY <1>1, <2>1, <2>2, WriteEffect
  <2>8. ~direct => Valid(BodiesOf(Current)')
    <3>1. BodiesOf(Current)' = Candidate(Current, plan.key, plan.body)
      BY <1>2, <2>1, <2>7, BodiesOfExcept DEF BodiesOf, Candidate
    <3> QED
      BY <2>3, <3>1 DEF CommitInv
  <2>9. StoredGraphsValid'
    BY <2>2, <2>7, <2>8, AppendKeepsValid
  <2>10. \A b \in Admins :
           /\ admin'[b].pc = "planning" => SnapshotInv(admin[b])'
           /\ admin'[b].pc = "commit" => CommitInv(admin[b])'
    <3> TAKE b \in Admins
    <3>1. CASE b = a
      BY <2>5, <3>1
    <3>2. CASE b # a
      <4>1. PICK s \in AdminState : s = admin[b] /\ s = admin'[b]
        BY <1>2, <2>6, <3>2
      <4>2. /\ s.pc = "planning" => SnapshotInv(s)
            /\ s.pc = "commit" => CommitInv(s)
        BY <4>1 DEF CasInv
      <4>3. /\ s.pc = "planning" => SnapshotInv(s)'
            /\ s.pc = "commit" => CommitInv(s)'
        BY <2>1, <2>2, <2>4, <4>2, WriteKeepsRequests
      <4> QED
        BY <4>1, <4>3 DEF SnapshotInv, CommitInv
    <3> QED
      BY <3>1, <3>2
  <2>11. \A j \in Keys : Current'[j].mod <= Revision'
    BY <2>1, <2>2, WriteKeepsMods
  <2> QED
    BY <1>1, <1>2, <2>2, <2>7, <2>9, <2>10, <2>11 DEF CasInv
<1>7. CASE CommitFails(a)
  <2>1. Idle.pc = "idle"
    BY DEF Idle
  <2> QED
    BY <1>1, <1>7, <2>1, LocalStep DEF CommitFails
<1> QED
  BY <1>3, <1>4, <1>5, <1>6, <1>7 DEF AdminStep

\* Ending a request keeps it.
LEMMA FinishCas ==
  ASSUME CasInv, NEW a \in Admins, Finish(a)
  PROVE  CasInv'
<1>1. StoreTypeOK'
  BY FinishType DEF CasInv
<1>2. Idle.pc = "idle"
  BY DEF Idle
<1> QED
  BY <1>1, <1>2, LocalStep DEF Finish

\* Writes by others keep it: foreign ones touch no resource, and direct
\* ones are excluded by its hypothesis or change no guarded fact.
LEMMA EnvironmentStepCas ==
  ASSUME CasInv, EnvironmentStep
  PROVE  CasInv'
<1>1. StoreTypeOK /\ StoreTypeOK'
  BY EnvironmentStepType DEF CasInv
<1>2. /\ Current \in Graphs /\ Revision \in Nat /\ guard \in Nat
      /\ admin \in [Admins -> AdminState]
  BY <1>1, CurrentInGraphs DEF StoreTypeOK
<1>3. admin' = admin /\ guard' = guard /\ direct' = direct
  BY DEF EnvironmentStep, ForeignWrite, DirectWrite
<1>4. CASE ForeignWrite
  <2>1. /\ Revision' = Revision + 1
        /\ Current' = Current
        /\ \A r \in 0 .. Revision : At(r)' = At(r)
    BY <1>1, <1>4, ForeignWriteEffect
  <2>2. ~direct => Valid(BodiesOf(Current)')
    <3>1. ~direct => Valid(BodiesOf(Current))
      BY <1>2 DEF CasInv, StoredGraphsValid, Current
    <3> QED
      BY <2>1, <3>1 DEF BodiesOf
  <2>3. StoredGraphsValid'
    BY <1>3, <2>1, <2>2, AppendKeepsValid
  <2>4. \A j \in Keys : Current[j].mod \in Nat /\ Current'[j].mod <= Revision'
    BY <1>2, <2>1 DEF CasInv, Graphs, Resource
  <2>5. \A b \in Admins :
          /\ admin'[b].pc = "planning" => SnapshotInv(admin[b])'
          /\ admin'[b].pc = "commit" => CommitInv(admin[b])'
    <3> TAKE b \in Admins
    <3>1. admin[b] \in AdminState
      BY <1>2
    <3>2. ASSUME admin[b].pc = "planning" PROVE SnapshotInv(admin[b])'
      <4>1. SnapshotInv(admin[b]) /\ admin[b].graph \in Graphs
        BY <3>1, <3>2, AdminFields DEF CasInv
      <4>2. \A j \in Keys : admin[b].graph[j].mod <= Revision + 1
        BY <1>2, <4>1 DEF SnapshotInv, Graphs, Resource
      <4> QED
        BY <1>3, <2>1, <4>1, <4>2 DEF SnapshotInv
    <3>3. ASSUME admin[b].pc = "commit" PROVE CommitInv(admin[b])'
      <4>1. CommitInv(admin[b]) /\ admin[b].expectedTarget \in Nat
        BY <3>1, <3>3, AdminFields DEF CasInv
      <4>2. admin[b].expectedTarget <= Revision + 1
        BY <1>2, <4>1 DEF CommitInv
      <4> QED
        BY <1>3, <2>1, <4>1, <4>2 DEF CommitInv
    <3> QED
      BY <1>3, <3>2, <3>3
  <2> QED
    BY <1>1, <1>2, <1>3, <2>1, <2>3, <2>4, <2>5 DEF CasInv
<1>5. CASE DirectWrite
  <2>1. PICK k \in Keys, resource \in Resource :
          Write(k, resource) /\ resource.mod \in {0, Revision + 1}
    <3>1. PICK k \in Keys :
            \/ \E body \in Bodies, secret \in Secrets :
                 Write(k, [body |-> body, secret |-> secret, mod |-> Revision + 1])
            \/ Exists(Current, k) /\ Write(k, Absent)
      BY <1>5 DEF DirectWrite
    <3>2. Absent \in Resource /\ Absent.mod = 0
      BY DEF Absent, Resource
    <3>3. \A body \in Bodies, secret \in Secrets :
            [body |-> body, secret |-> secret, mod |-> Revision + 1] \in Resource
      BY <1>2 DEF Resource
    <3> QED
      BY <3>1, <3>2, <3>3
  <2>2. /\ Revision' = Revision + 1
        /\ \A r \in 0 .. Revision : At(r)' = At(r)
    BY <1>1, <2>1, WriteEffect
  <2>3. direct
    BY <1>5 DEF DirectWrite
  <2>4. StoredGraphsValid'
    BY <1>3, <2>3 DEF StoredGraphsValid
  <2>5. \A b \in Admins :
          /\ admin'[b].pc = "planning" => SnapshotInv(admin[b])'
          /\ admin'[b].pc = "commit" => CommitInv(admin[b])'
    <3> TAKE b \in Admins
    <3>1. PICK s \in AdminState : s = admin[b] /\ s = admin'[b]
      BY <1>2, <1>3
    <3>2. /\ s.pc = "planning" => SnapshotInv(s)
          /\ s.pc = "commit" => CommitInv(s)
      BY <3>1 DEF CasInv
    <3>3. /\ s.pc = "planning" => SnapshotInv(s)'
          /\ s.pc = "commit" => CommitInv(s)'
      BY <1>2, <1>3, <2>1, <2>3, <3>2, WriteKeepsRequests
    <3> QED
      BY <3>1, <3>3 DEF SnapshotInv, CommitInv
  <2>6. \A j \in Keys : Current'[j].mod <= Revision'
    BY <2>1, WriteKeepsMods
  <2> QED
    BY <1>1, <1>2, <1>3, <2>2, <2>4, <2>5, <2>6 DEF CasInv
<1> QED
  BY <1>4, <1>5 DEF EnvironmentStep

\* The inductive invariant holds of the empty cluster.
LEMMA CasInit == StoreInit => CasInv
<1> SUFFICES ASSUME StoreInit PROVE CasInv
  OBVIOUS
<1>1. Revision = 1 /\ At(0) = EmptyGraph /\ At(1) = EmptyGraph /\ Current = EmptyGraph
  BY DEF StoreInit, Revision, At, Current
<1>2. BodiesOf(EmptyGraph) = [k \in Keys |-> NoBody]
  BY DEF BodiesOf, EmptyGraph, Absent
<1>3. StoredGraphsValid
  <2>1. \A r \in 0 .. 1 : At(r) = EmptyGraph
    BY <1>1
  <2> QED
    BY <1>1, <1>2, <2>1, EmptyValid DEF StoredGraphsValid
<1>4. \A a \in Admins : admin[a].pc = "idle"
  BY DEF StoreInit, Idle
<1>5. \A k \in Keys : Current[k].mod <= Revision
  BY <1>1 DEF EmptyGraph, Absent
<1>6. guard <= Revision
  BY <1>1 DEF StoreInit
<1> QED
  BY <1>3, <1>4, <1>5, <1>6, StoreTypeInit DEF CasInv

\* ... and is kept by every step of the store and its clients.
LEMMA CasInductive == CasInv /\ [StoreNext]_storeVars => CasInv'
<1> SUFFICES ASSUME CasInv, [StoreNext]_storeVars PROVE CasInv'
  OBVIOUS
<1>1. CASE UNCHANGED storeVars
  BY <1>1 DEF storeVars, CasInv, StoreTypeOK, StoredGraphsValid, SnapshotInv, CommitInv,
              Current, At, Revision
<1> QED
  BY <1>1, AdminStepCas, FinishCas, EnvironmentStepCas DEF StoreNext

\* Whole-graph validation is never bypassed: while all writers use the guarded
\* compare-and-swap (authority.rs put/delete, store.rs), every graph the store
\* ever holds is valid, whatever the number of concurrent Admin requests.
THEOREM StoredGraphsAlwaysValid == StoreSpec => []StoredGraphsValid
<1>1. CasInv => StoredGraphsValid
  BY DEF CasInv
<1> QED
  BY <1>1, CasInit, CasInductive, PTL DEF StoreSpec

\* A PUT that sent the redaction mask back (secrets.rs restore) commits the
\* secret the store holds at that moment, whoever rotated it since the PUT
\* read it: the comparison of the resource's mod revision is enough.
THEOREM RedactedPutsKeepSecrets == StoreSpec => RedactedPutKeepsSecret
<1> DEFINE Kept(a) ==
      CommitsNow(a) /\ admin[a].masked /\ Exists(Current, admin[a].key)
        => Current'[admin[a].key].secret = Current[admin[a].key].secret
<1>1. CasInv /\ [StoreNext]_storeVars => [\A a \in Admins : Kept(a)]_storeVars
  <2> SUFFICES ASSUME CasInv, StoreNext, NEW a \in Admins, CommitsNow(a), admin[a].masked,
                      Exists(Current, admin[a].key)
               PROVE  Current'[admin[a].key].secret = Current[admin[a].key].secret
    BY DEF storeVars
  <2> DEFINE plan == admin[a]
             resource == IF plan.body = NoBody THEN Absent
                         ELSE [body |-> plan.body, secret |-> plan.secret, mod |-> Revision + 1]
  <2>1. StoreTypeOK /\ Current \in Graphs /\ Revision \in Nat /\ plan \in AdminState
    BY CurrentInGraphs DEF CasInv, StoreTypeOK
  <2>2. CommitOk(a)
    <3>1. PICK b \in Admins : AdminStep(b) \/ Finish(b)
      BY DEF StoreNext, EnvironmentStep, ForeignWrite, DirectWrite, CommitsNow
    <3>2. CommitOk(b)
      BY <3>1 DEF AdminStep, Snapshot, PlanPut, PlanDelete, CommitFails, Finish, CommitsNow
    <3>3. b = a
      BY <3>2 DEF CommitOk, CommitsNow, CasInv, StoreTypeOK
    <3> QED
      BY <3>2, <3>3
  <2>3. /\ CommitInv(plan) /\ plan.expectedTarget = Current[plan.key].mod
        /\ Write(plan.key, resource)
    BY <2>2 DEF CommitOk, CasHolds, CasInv
  <2>4. plan.body # NoBody /\ plan.secret = Current[plan.key].secret
    BY <2>3 DEF CommitInv
  <2>5. plan.key \in Keys /\ resource \in Resource
    BY <2>1, <2>2, AdminFields DEF CommitOk, Resource, Absent
  <2>6. resource.secret = Current[plan.key].secret
    BY <2>4
  <2> HIDE DEF plan, resource
  <2>7. Current' = [Current EXCEPT ![plan.key] = resource]
    BY <2>1, <2>3, <2>5, WriteEffect
  <2>8. Current'[plan.key].secret = Current[plan.key].secret
    BY <2>1, <2>5, <2>6, <2>7 DEF Graphs
  <2> QED
    BY <2>8 DEF plan
<1> QED
  BY <1>1, CasInit, CasInductive, PTL DEF StoreSpec, RedactedPutKeepsSecret

-----------------------------------------------------------------------------
(***************************************************************************)
(* ControlPlane.                                                           *)
(***************************************************************************)
\* A nonempty set of numbers with an upper bound has a maximum.
LEMMA MaxOfBounded ==
  ASSUME NEW b \in Nat, NEW S, S \subseteq 0 .. b, S # {}
  PROVE  Max(S) \in S /\ \A y \in S : Max(S) >= y
<1> DEFINE T == {n \in Nat : b - n \in S}
<1>1. T \subseteq Nat /\ T # {}
  <2>1. PICK y \in S : TRUE
    OBVIOUS
  <2>2. b - y \in T
    BY <2>1
  <2> QED
    BY <2>2
<1>2. PICK x \in T : \A y \in T : ~(<<y, x>> \in OpToRel(<, Nat))
  BY <1>1, WFMin, NatLessThanWellFounded
<1>3. \A y \in T : x <= y
  <2> SUFFICES ASSUME NEW y \in T, y < x PROVE FALSE
    BY <1>1
  <2>1. <<y, x>> \in OpToRel(<, Nat)
    BY <1>1, Zenon DEF OpToRel
  <2> QED
    BY <1>2, <2>1
<1>4. \A y \in S : b - x >= y
  <2> TAKE y \in S
  <2>1. b - y \in Nat /\ b - (b - y) = y
    OBVIOUS
  <2>2. b - y \in T
    BY <2>1
  <2>3. x <= b - y /\ x \in Nat
    BY <1>3, <2>2
  <2> HIDE DEF T
  <2> QED
    BY <2>1, <2>3
<1>5. b - x \in S
  OBVIOUS
<1> QED
  BY <1>4, <1>5 DEF Max

-----------------------------------------------------------------------------
(***************************************************************************)
(* Types                                                                   *)
(***************************************************************************)
\* Every operation of the publication registry yields a registry.
LEMMA RegistryType ==
  ASSUME NEW recs, IsRegistry(recs), NEW revision \in Nat
  PROVE  /\ IsRegistry(Pending(recs, revision))
         /\ IsRegistry(SupersedePendingExcept(recs, revision))
         /\ IsRegistry(Published(recs, revision))
         /\ IsRegistry(Rejected(recs, revision))
<1>1. ASSUME NEW f, IsRegistry(f) PROVE IsRegistry(Trim(f))
  BY <1>1 DEF IsRegistry, Trim
<1>2. IsRegistry(Pending(recs, revision))
  <2> DEFINE f == [r \in DOMAIN recs \cup {revision} |->
                     IF r \in DOMAIN recs THEN recs[r] ELSE "Pending"]
  <2>1. IsRegistry(f)
    BY DEF IsRegistry, PublicationState
  <2> HIDE DEF f
  <2>2. IsRegistry(Trim(f))
    BY <1>1, <2>1
  <2> QED
    BY <2>2 DEF Pending, f
<1>3. IsRegistry(SupersedePendingExcept(recs, revision))
  BY DEF IsRegistry, SupersedePendingExcept, PublicationState
<1>4. IsRegistry(Published(recs, revision))
  <2> DEFINE known == Pending(recs, revision)
             f == [r \in DOMAIN known |-> IF r = revision THEN "Published" ELSE known[r]]
  <2>1. IsRegistry(f)
    BY <1>2 DEF IsRegistry, PublicationState
  <2> HIDE DEF f
  <2>2. IsRegistry(Trim(f))
    BY <1>1, <2>1
  <2> QED
    BY <2>2 DEF Published, f
<1>5. IsRegistry(Rejected(recs, revision))
  BY DEF IsRegistry, Rejected, PublicationState
<1> QED
  BY <1>2, <1>3, <1>4, <1>5

\* Every method of StatusStore (status.rs) returns a well-typed status.
LEMMA StatusType ==
  ASSUME NEW s \in Status(Nat), NEW revision \in Nat
  PROVE  /\ MarkEtcdConnected(s, TRUE) \in Status(Nat)
         /\ SetRevision(s, revision) \in Status(Nat)
         /\ SetPublishedRevision(s, revision) \in Status(Nat)
         /\ RecordSyncSuccess(s, revision) \in Status(Nat)
         /\ RecordPreparationError(s) \in Status(Nat)
         /\ DataRejected(s) \in Status(Nat)
         /\ TransportFailed(s) \in Status(Nat)
         /\ OutageAges(s) \in Status(Nat)
<1>1. \A t \in Status(Nat) : Disconnected(t) \in Status(Nat)
  BY DEF Status, Disconnected
<1>2. \A t \in Status(Nat) : RecordSyncError(t) \in Status(Nat)
  BY <1>1 DEF Status, RecordSyncError, ErrorKind
<1>3. TransportFailed(s) \in Status(Nat)
  BY <1>1, <1>2 DEF TransportFailed, MarkEtcdConnected
<1>4. MarkEtcdConnected(s, TRUE) \in Status(Nat)
  BY DEF Status, MarkEtcdConnected
<1>5. SetRevision(s, revision) \in Status(Nat) /\ OutageAges(s) \in Status(Nat)
  BY DEF Status, SetRevision, OutageAges
<1>6. SetPublishedRevision(s, revision) \in Status(Nat)
  BY DEF Status, SetPublishedRevision, ErrorKind
<1>7. RecordPreparationError(s) \in Status(Nat) /\ DataRejected(s) \in Status(Nat)
  BY DEF Status, RecordPreparationError, DataRejected, ErrorKind
<1>8. RecordSyncSuccess(s, revision) \in Status(Nat)
  BY DEF Status, RecordSyncSuccess, ErrorKind
<1> QED
  BY <1>3, <1>4, <1>5, <1>6, <1>7, <1>8

\* The steps of submit keep the types of the graph authority.
LEMMA SubmitType ==
  ASSUME GraphTypeOK, Submit
  PROVE  GraphTypeOK'
<1> USE DEF GraphTypeOK
<1>1. WorkerTypeOK /\ SubmitTypeOK /\ sub \in Submissions
  BY DEF SubmitTypeOK
<1>2. ASSUME NEW pc \in SubmitSteps \cup {"ok", "stopped"}, SubmitGoes(pc)
      PROVE  sub' \in Submissions
  BY <1>1, <1>2 DEF SubmitGoes, Submissions
<1>3. CASE SubmitCheck
  BY <1>2, <1>3 DEF SubmitCheck, submitFrame, SubmitTypeOK, WorkerTypeOK, ShutdownTypeOK,
                    SubmitSteps
<1>4. CASE SubmitStart
  <2>1. /\ sub' \in Submissions
        /\ workerTx' \in Workers \cup {NoWorker}
        /\ wpc' \in [Workers -> WorkerPCs]
    <3>1. CASE workerTx = NoWorker
      BY <1>1, <1>4, <3>1 DEF SubmitStart, Submissions, SubmitSteps, WorkerTypeOK,
                              WorkerPCs, SubmitTypeOK
    <3>2. CASE workerTx # NoWorker
      BY <1>1, <1>2, <1>4, <3>2 DEF SubmitStart, SubmitSteps, WorkerTypeOK, SubmitTypeOK
    <3> QED
      BY <3>1, <3>2
  <2> QED
    BY <1>4, <2>1 DEF SubmitStart, submitFrame, SubmitTypeOK, WorkerTypeOK, ShutdownTypeOK
<1>5. CASE SubmitHandle
  <2>1. sub.worker \in Workers \cup {NoWorker}
    BY <1>1 DEF Submissions
  <2> QED
    BY <1>2, <1>5, <2>1 DEF SubmitHandle, submitFrame, SubmitTypeOK, WorkerTypeOK,
                            ShutdownTypeOK, SubmitSteps
<1>6. CASE SubmitNumber
  BY <1>2, <1>6 DEF SubmitNumber, submitFrame, SubmitTypeOK, WorkerTypeOK, ShutdownTypeOK,
                    SubmitSteps
<1>7. CASE SubmitRegister
  <2>1. IsRegistry(records')
    <3>1. sub.revision \in Nat
      BY <1>1 DEF Submissions
    <3> QED
      BY <1>7, <3>1, RegistryType DEF SubmitRegister
  <2> QED
    BY <1>2, <1>7, <2>1 DEF SubmitRegister, submitFrame, SubmitTypeOK, WorkerTypeOK,
                            ShutdownTypeOK, SubmitSteps
<1>8. CASE SubmitToken
  BY <1>2, <1>8 DEF SubmitToken, submitFrame, SubmitTypeOK, WorkerTypeOK, ShutdownTypeOK,
                    SubmitSteps, CancelledBySubmit
<1>9. CASE SubmitTarget
  <2>1. sub.revision \in Nat /\ sub.stored \in Graphs /\ latestGeneration \in Nat
    BY <1>1 DEF Submissions, SubmitTypeOK
  <2>2. target' \in Targets
    BY <1>9, <2>1 DEF SubmitTarget, Targets
  <2> QED
    BY <1>2, <1>9, <2>2 DEF SubmitTarget, submitFrame, SubmitTypeOK, WorkerTypeOK,
                            ShutdownTypeOK, SubmitSteps
<1>10. CASE SubmitSignal
  BY <1>2, <1>10 DEF SubmitSignal, submitFrame, SubmitTypeOK, WorkerTypeOK, ShutdownTypeOK,
                     SubmitSteps
<1> QED
  BY <1>3, <1>4, <1>5, <1>6, <1>7, <1>8, <1>9, <1>10 DEF Submit

\* So do the steps of a worker.
LEMMA WorkerStepType ==
  ASSUME GraphTypeOK, NEW w \in Workers, WorkerStep(w)
  PROVE  GraphTypeOK'
<1>1. /\ SubmitTypeOK /\ ShutdownTypeOK /\ WorkerTypeOK
      /\ IsRegistry(records) /\ status \in Status(Nat)
      /\ job[w] \in Targets /\ doomed[w] \in Nat /\ target \in Targets
  BY DEF GraphTypeOK, WorkerTypeOK, SubmitTypeOK
<1>2. job[w].revision \in Nat /\ job[w].stored \in Graphs /\ target.revision \in Nat
      /\ target.generation \in Nat
  BY <1>1 DEF Targets
<1>3. ASSUME NEW pc \in WorkerPCs, Goes(w, pc)
      PROVE  wpc' \in [Workers -> WorkerPCs]
  BY <1>1, <1>3 DEF Goes, WorkerTypeOK
<1>4. RecordPreparationError(status) \in Status(Nat)
  BY <1>1, StatusType
<1>5. ShutdownTypeOK'
  <2>1. UNCHANGED <<lifecycle, stopping, joining>>
    BY DEF WorkerStep, workerFrame, Receive, Snap, Take, Settle, PrepareOk, PrepareFails,
           AfterTransient, Backoff, Compile, Reject, RejectRevision, AwaitSuperseded, Fence,
           PublishStatus, Commit
  <2> QED
    BY <1>1, <2>1 DEF ShutdownTypeOK
<1>6. SubmitTypeOK'
  <2>1. UNCHANGED workerFrame /\ signal' \in [Workers -> BOOLEAN]
    BY <1>1 DEF WorkerStep, Receive, Snap, Take, Settle, PrepareOk, PrepareFails,
           AfterTransient, Backoff, Compile, Reject, RejectRevision, AwaitSuperseded, Fence,
           PublishStatus, Commit, SubmitTypeOK
  <2> QED
    BY <1>1, <2>1 DEF SubmitTypeOK, workerFrame
<1>7. WorkerTypeOK' /\ IsRegistry(records') /\ status' \in Status(Nat)
  <2> USE DEF WorkerTypeOK, WorkerPCs, Preparing, Publishing
  <2>1. CASE Receive(w)
    BY <1>1, <1>3, <2>1 DEF Receive
  <2>2. CASE Snap(w)
    BY <1>1, <1>2, <1>3, <2>2 DEF Snap
  <2>3. CASE Take(w)
    BY <1>1, <1>3, <2>3 DEF Take
  <2>4. CASE Settle(w)
    BY <1>1, <1>3, <2>4 DEF Settle
  <2>5. CASE PrepareOk(w)
    BY <1>1, <1>3, <2>5 DEF PrepareOk
  <2>6. CASE PrepareFails(w)
    BY <1>1, <1>3, <1>4, <2>6 DEF PrepareFails
  <2>7. CASE AfterTransient(w)
    BY <1>1, <1>3, <2>7 DEF AfterTransient
  <2>8. CASE Backoff(w)
    BY <1>1, <1>3, <2>8 DEF Backoff
  <2>9. CASE Compile(w)
    BY <1>1, <1>3, <2>9 DEF Compile
  <2>10. CASE Reject(w)
    BY <1>1, <1>2, <1>3, <1>4, <2>10 DEF Reject
  <2>11. CASE RejectRevision(w)
    BY <1>1, <1>3, <1>4, <2>11, RegistryType DEF RejectRevision
  <2>12. CASE AwaitSuperseded(w)
    BY <1>1, <1>3, <2>12 DEF AwaitSuperseded
  <2>13. CASE Fence(w)
    <3>1. [revision |-> job[w].revision, stored |-> job[w].stored] \in Snapshots
      BY <1>2 DEF Snapshots
    <3> QED
      BY <1>1, <1>3, <2>13, <3>1 DEF Fence
  <2>14. CASE PublishStatus(w)
    BY <1>1, <1>2, <1>3, <2>14, StatusType DEF PublishStatus
  <2>15. CASE Commit(w)
    <3>1. [revision |-> job[w].revision, stored |-> job[w].stored] \in Snapshots
      BY <1>2 DEF Snapshots
    <3> QED
      BY <1>1, <1>2, <1>3, <2>15, <3>1, RegistryType DEF Commit
  <2> QED
    BY <2>1, <2>2, <2>3, <2>4, <2>5, <2>6, <2>7, <2>8, <2>9, <2>10, <2>11, <2>12, <2>13,
       <2>14, <2>15 DEF WorkerStep
<1> QED
  BY <1>5, <1>6, <1>7 DEF GraphTypeOK

\* And those of shutdown.
LEMMA ShutdownType ==
  ASSUME GraphTypeOK, RequestShutdown \/ Shutdown
  PROVE  GraphTypeOK'
<1> USE DEF GraphTypeOK, ShutdownTypeOK, SubmitTypeOK, WorkerTypeOK, shutdownFrame
<1>1. CASE RequestShutdown
  BY <1>1 DEF RequestShutdown
<1>2. CASE Stop
  BY <1>2 DEF Stop
<1>3. CASE CancelActive
  BY <1>3 DEF CancelActive
<1>4. CASE CloseChannel
  BY <1>4 DEF CloseChannel
<1>5. CASE TakeTask
  BY <1>5 DEF TakeTask
<1>6. CASE Join
  BY <1>6 DEF Join, WorkerPCs
<1> QED
  BY <1>1, <1>2, <1>3, <1>4, <1>5, <1>6 DEF Shutdown

-----------------------------------------------------------------------------
(***************************************************************************)
(* Watch batches.  Between two revisions, a key that was not written has   *)
(* kept its resource; so the latest event of each key, layered on the      *)
(* graph the stream was at, gives the graph at the batch's revision.       *)
(***************************************************************************)
Framed ==
  \A from, to \in 0 .. Revision, k \in Keys :
    from <= to /\ (\A r \in from + 1 .. to : written[r] # k) => At(from)[k] = At(to)[k]

\* The last revision of a window that satisfies what one of them satisfies.
LEMMA LastInWindow ==
  ASSUME NEW from \in Nat, NEW to \in Nat, NEW S, S \subseteq from + 1 .. to, S # {}
  PROVE  /\ Max(S) \in S
         /\ Max(S) \in from + 1 .. to
         /\ \A r \in Max(S) + 1 .. to : r \notin S
<1>1. S \subseteq 0 .. to
  OBVIOUS
<1>2. Max(S) \in S /\ \A y \in S : Max(S) >= y
  BY <1>1, MaxOfBounded
<1>3. Max(S) \in from + 1 .. to
  BY <1>2
<1>4. ASSUME NEW r \in Max(S) + 1 .. to, r \in S PROVE FALSE
  <2>1. Max(S) >= r /\ Max(S) \in Nat /\ r \in Nat
    BY <1>2, <1>3, <1>4
  <2> QED
    BY <1>3, <1>4, <2>1
<1> QED
  BY <1>2, <1>3, <1>4

\* Layering a watch batch (apply_watch_batch) on the graph etcd held at the
\* stream position gives the graph etcd held at the revision of the batch.
LEMMA BatchIsExact ==
  ASSUME StoreTypeOK, Framed, NEW from \in Nat, NEW to \in from + 1 .. Revision,
         EventKeys(from, to) # {}
  PROVE  /\ BatchRevision(from, to) \in from + 1 .. to
         /\ Layered(At(from), from, to) = At(BatchRevision(from, to))
         /\ Layered(At(from), from, to) = At(to)
<1>1. Revision \in Nat /\ to \in Nat /\ to \in 0 .. Revision /\ from \in 0 .. Revision
  BY CurrentInGraphs
<1>2. \A r \in 0 .. Revision : At(r) \in Graphs
  BY <1>1 DEF StoreTypeOK, At, Revision
<1>3. \A r \in from + 1 .. to : written[r] \in Keys \cup {NoKey}
  BY <1>1 DEF StoreTypeOK, Revision
<1>4. \A k \in Keys : k \in EventKeys(from, to) <=> \E r \in from + 1 .. to : written[r] = k
  BY StoreAssumption DEF EventKeys
<1>5. \A k \in Keys : Layered(At(from), from, to)[k] = At(to)[k]
  <2> TAKE k \in Keys
  <2>1. CASE k \in EventKeys(from, to)
    <3> DEFINE S == {r \in from + 1 .. to : written[r] = k}
    <3>1. S # {} /\ S \subseteq from + 1 .. to
      BY <1>4, <2>1
    <3>2. /\ Max(S) \in from + 1 .. to
          /\ \A r \in Max(S) + 1 .. to : r \notin S
      BY <1>1, <3>1, LastInWindow
    <3>3. \A r \in Max(S) + 1 .. to : written[r] # k
      BY <1>1, <3>2
    <3>4. Max(S) \in 0 .. Revision /\ Max(S) <= to
      BY <1>1, <3>2
    <3>5. At(Max(S))[k] = At(to)[k]
      BY <1>1, <3>3, <3>4 DEF Framed
    <3>6. Layered(At(from), from, to)[k] = At(Max(S))[k]
      BY <2>1 DEF Layered, FinalEvent
    <3> QED
      BY <3>5, <3>6
  <2>2. CASE k \notin EventKeys(from, to)
    <3>1. At(from)[k] = At(to)[k]
      BY <1>1, <1>4, <2>2 DEF Framed
    <3> QED
      BY <2>2, <3>1 DEF Layered
  <2> QED
    BY <2>1, <2>2
<1>6. Layered(At(from), from, to) = At(to)
  <2>1. At(to) \in [Keys -> Resource]
    BY <1>1, <1>2 DEF Graphs
  <2>2. Layered(At(from), from, to) = [k \in Keys |-> Layered(At(from), from, to)[k]]
    BY DEF Layered
  <2> QED
    BY <1>5, <2>1, <2>2
<1>7. BatchRevision(from, to) \in from + 1 .. to /\ At(BatchRevision(from, to)) = At(to)
  <2> DEFINE S == {r \in from + 1 .. to : written[r] # NoKey}
             b == BatchRevision(from, to)
  <2>1. S # {} /\ S \subseteq from + 1 .. to
    BY <1>1 DEF EventKeys
  <2>2. b = Max(S)
    BY DEF BatchRevision
  <2>3. b \in from + 1 .. to /\ \A r \in b + 1 .. to : r \notin S
    <3> HIDE DEF b, S
    <3> QED
      BY <1>1, <2>1, <2>2, LastInWindow
  <2>4. \A r \in b + 1 .. to : written[r] = NoKey
    BY <1>1, <2>3
  <2>5. b \in 0 .. Revision /\ b <= to
    BY <1>1, <2>3
  <2> HIDE DEF b
  <2>6. \A k \in Keys : At(b)[k] = At(to)[k]
    BY <1>1, <2>4, <2>5, StoreAssumption DEF Framed
  <2>7. At(b) = At(to)
    BY <1>1, <1>2, <2>5, <2>6 DEF Graphs
  <2> QED
    BY <2>3, <2>7 DEF b
<1> QED
  BY <1>6, <1>7

\* A write keeps the history framed.
LEMMA WriteKeepsFramed ==
  ASSUME StoreTypeOK, Framed, StoreTypeOK',
         NEW n, Revision = n, Revision' = n + 1,
         NEW k0, written' = Append(written, k0),
         \A r \in 0 .. n : At(r)' = At(r),
         \A k \in Keys \ {k0} : Current'[k] = Current[k]
  PROVE  Framed'
<1>1. n \in Nat /\ written \in Seq(Keys \cup {NoKey}) /\ Len(written) = n
  BY CurrentInGraphs DEF StoreTypeOK, Revision
<1>2. /\ \A r \in 1 .. n : written'[r] = written[r]
      /\ written'[n + 1] = k0
  BY <1>1
<1>3. At(n + 1)' = Current' /\ At(n) = Current
  BY DEF Current, At
<1>4. ASSUME NEW from \in 0 .. n + 1, NEW to \in 0 .. n + 1, NEW k \in Keys,
             from <= to, \A r \in from + 1 .. to : written'[r] # k
      PROVE  At(from)'[k] = At(to)'[k]
  <2>1. CASE to \in 0 .. n
    <3>1. from \in 0 .. n /\ \A r \in from + 1 .. to : written[r] # k
      BY <1>1, <1>2, <1>4, <2>1
    <3>2. At(from)[k] = At(to)[k]
      BY <1>4, <2>1, <3>1 DEF Framed
    <3> QED
      BY <2>1, <3>1, <3>2
  <2>2. CASE to = n + 1 /\ from \in 0 .. n
    <3>1. k # k0
      BY <1>1, <1>2, <1>4, <2>2
    <3>2. \A r \in from + 1 .. n : written[r] # k
      BY <1>1, <1>2, <1>4, <2>2
    <3>3. At(from)[k] = At(n)[k]
      BY <1>1, <2>2, <3>2 DEF Framed
    <3>4. At(from)' = At(from) /\ At(to)' = Current'
      BY <1>3, <2>2
    <3> QED
      BY <1>3, <3>1, <3>3, <3>4
  <2>3. CASE to = n + 1 /\ from = n + 1
    BY <2>3
  <2> QED
    BY <1>1, <2>1, <2>2, <2>3
<1>5. \A from, to \in 0 .. n + 1, k \in Keys :
        from <= to /\ (\A r \in from + 1 .. to : written'[r] # k)
          => At(from)'[k] = At(to)'[k]
  BY ONLY <1>4
<1> QED
  BY ONLY <1>5, Revision' = n + 1 DEF Framed

-----------------------------------------------------------------------------
(***************************************************************************)
(* The inductive invariant.  Every graph in flight (the list response, the *)
(* submission, the target, what a worker took, what is published) is the   *)
(* one etcd held at the revision it is labelled with.  For the target to   *)
(* stay so, the base of the next watch batch must be the graph at the      *)
(* stream's position: hence what is known at each step of the sync task.   *)
(***************************************************************************)
Held(s) == s.revision \in 0 .. Revision /\ s.stored = At(s.revision)

InFlight ==
  /\ Held(listed)
  /\ Held(sub)
  /\ Held(target)
  /\ \A w \in Workers : Held(job[w])
  /\ Held(runtime)

InStep ==
  /\ cursor \in 0 .. Revision
  /\ sub.pc \in {"signal", "ok"} => target.stored = sub.stored
  /\ sync \notin {"replacing", "applying"} => sub.pc = "idle"
  /\ sync = "replacing" => sub.stored = listed.stored
  /\ sync = "applying" => sub.stored = At(cursor)
  /\ sync \in {"open", "watching"} => target.stored = At(cursor)

PlaneInv ==
  /\ TypeOK
  /\ Framed
  /\ At(0) = EmptyGraph
  /\ InFlight
  /\ InStep

\* The empty configuration is a graph.
LEMMA EmptyIsGraph == EmptyGraph \in Graphs
  BY DEF EmptyGraph, Graphs, Absent, Resource

\* The inductive invariant holds when the gateway starts.
LEMMA PlaneInit == Init => PlaneInv
<1> SUFFICES ASSUME Init PROVE PlaneInv
  OBVIOUS
<1>1. StoreTypeOK
  BY StoreTypeInit DEF Init
<1>2. GraphTypeOK
  <2> USE EmptyIsGraph DEF Init, GraphInit
  <2>1. SubmitTypeOK
    BY DEF SubmitTypeOK, Targets, NoTarget, Submissions, NoSubmission
  <2>2. WorkerTypeOK
    BY DEF WorkerTypeOK, Snapshots, Nothing, WorkerPCs, Targets, NoTarget
  <2>3. ShutdownTypeOK
    BY DEF ShutdownTypeOK
  <2>4. IsRegistry(records)
    BY DEF IsRegistry, EmptyRegistry
  <2>5. status \in Status(Nat)
    BY DEF InitStatus, Status, ErrorKind
  <2> QED
    BY <2>1, <2>2, <2>3, <2>4, <2>5 DEF GraphTypeOK
<1>3. SyncTypeOK
  BY EmptyIsGraph DEF Init, SyncInit, SyncTypeOK, Snapshots, Nothing
<1>4. Revision = 1 /\ At(0) = EmptyGraph /\ At(1) = EmptyGraph
  BY DEF Init, StoreInit, Revision, At
<1>5. Framed
  <2>1. \A r \in 0 .. 1 : At(r) = EmptyGraph
    BY <1>4
  <2> QED
    BY <1>4, <2>1 DEF Framed
<1>6. InFlight
  <2>1. Held(Nothing) /\ Held(NoTarget) /\ Held(NoSubmission)
    BY <1>4 DEF Held, Nothing, NoTarget, NoSubmission
  <2> QED
    BY <2>1 DEF InFlight, Init, GraphInit, SyncInit
<1>7. InStep
  BY <1>4 DEF InStep, Init, GraphInit, SyncInit, NoSubmission
<1> QED
  BY <1>1, <1>2, <1>3, <1>4, <1>5, <1>6, <1>7 DEF PlaneInv, TypeOK

\* The store only grows: nothing that is in flight is overtaken by a write.
LEMMA StoreGrows ==
  ASSUME PlaneInv, NEW n, n = Revision, StoreTypeOK', Framed', UNCHANGED <<graphVars, syncVars>>,
         Revision' \in Nat, n <= Revision', \A r \in 0 .. n : At(r)' = At(r)
  PROVE  PlaneInv'
<1>1. n \in Nat /\ StoreTypeOK /\ GraphTypeOK /\ SyncTypeOK
  BY CurrentInGraphs DEF PlaneInv, TypeOK
<1>2. GraphTypeOK' /\ SyncTypeOK'
  BY <1>1 DEF GraphTypeOK, SubmitTypeOK, WorkerTypeOK, ShutdownTypeOK, SyncTypeOK,
              graphVars, syncVars
<1>3. At(0)' = EmptyGraph
  BY <1>1 DEF PlaneInv
<1>4. ASSUME NEW s, Held(s) PROVE Held(s)'
  <2>1. s.revision \in 0 .. n /\ s.stored = At(s.revision)
    BY <1>4 DEF Held
  <2>2. s.revision \in 0 .. Revision' /\ s.stored = At(s.revision)'
    BY <1>1, <2>1
  <2> QED
    BY <2>2 DEF Held
<1>5. InFlight'
  <2>1. UNCHANGED <<listed, sub, target, job, runtime>>
    BY DEF graphVars, syncVars
  <2>2. ASSUME NEW w \in Workers PROVE Held(job[w])'
    <3>1. PICK s : s = job[w] /\ s = job'[w]
      BY <2>1
    <3> QED
      BY <1>4, <3>1 DEF PlaneInv, InFlight, Held
  <2>3. Held(listed)' /\ Held(sub)' /\ Held(target)' /\ Held(runtime)'
    <3>1. PICK a, b, c, d : /\ a = listed /\ a = listed' /\ b = sub /\ b = sub'
                            /\ c = target /\ c = target' /\ d = runtime /\ d = runtime'
      BY <2>1
    <3>2. Held(a) /\ Held(b) /\ Held(c) /\ Held(d)
      BY <3>1 DEF PlaneInv, InFlight
    <3>3. Held(a)' /\ Held(b)' /\ Held(c)' /\ Held(d)'
      BY <1>4, <3>2
    <3> QED
      BY <3>1, <3>3 DEF Held
  <2> QED
    BY <2>2, <2>3 DEF InFlight
<1>6. InStep'
  <2>1. UNCHANGED <<cursor, sub, target, sync, listed>>
    BY DEF graphVars, syncVars
  <2>2. PICK c \in 0 .. n : c = cursor /\ c = cursor'
    BY <2>1 DEF PlaneInv, InStep
  <2>3. At(cursor)' = At(cursor)
    <3>1. At(cursor)' = At(c)' /\ At(cursor) = At(c)
      BY <2>2 DEF At
    <3> QED
      BY <2>2, <3>1
  <2>4. cursor' \in 0 .. Revision'
    BY <1>1, <2>2
  <2> QED
    BY <2>1, <2>3, <2>4 DEF PlaneInv, InStep
<1> QED
  BY <1>2, <1>3, <1>5, <1>6 DEF PlaneInv, TypeOK

\* A step that leaves the store alone leaves the history framed.
LEMMA SameStore ==
  ASSUME UNCHANGED <<history, written>>
  PROVE  /\ Revision' = Revision
         /\ \A r : At(r)' = At(r)
         /\ Framed => Framed'
         /\ \A s : Held(s) => Held(s)'
<1>1. Revision' = Revision /\ \A r : At(r)' = At(r)
  BY DEF Revision, At
<1>2. Framed => Framed'
  BY DEF Framed, Revision, At
<1>3. \A s : Held(s) => Held(s)'
  BY DEF Held, Revision, At
<1> QED
  BY <1>1, <1>2, <1>3

\* A write to the store keeps it: older revisions are never rewritten.
LEMMA WritePlane ==
  ASSUME PlaneInv, StoreTypeOK', UNCHANGED <<graphVars, syncVars>>,
         NEW k0, written' = Append(written, k0),
         Revision' = Revision + 1,
         \A r \in 0 .. Revision : At(r)' = At(r),
         \A k \in Keys \ {k0} : Current'[k] = Current[k]
  PROVE  PlaneInv'
<1>1. PICK n \in Nat : n = Revision
  BY CurrentInGraphs DEF PlaneInv, TypeOK
<1>2. Framed'
  BY <1>1, WriteKeepsFramed DEF PlaneInv, TypeOK
<1>3. Revision' \in Nat /\ n <= Revision'
  BY <1>1
<1> QED
  BY <1>1, <1>2, <1>3, StoreGrows

\* The steps of the store, of Admin requests and of other writers keep it.
LEMMA StoreStepPlane ==
  ASSUME PlaneInv, UNCHANGED <<graphVars, syncVars>>,
         (\E a \in Admins : AdminStep(a)) \/ EnvironmentStep
  PROVE  PlaneInv'
<1>1. StoreTypeOK /\ StoreTypeOK' /\ Current \in Graphs
  BY AdminStepType, EnvironmentStepType, CurrentInGraphs DEF PlaneInv, TypeOK
<1>2. CASE UNCHANGED <<history, written>>
  <2>1. PICK n \in Nat : n = Revision
    BY <1>1, CurrentInGraphs
  <2>2. Revision' \in Nat /\ n <= Revision' /\ Framed' /\ \A r \in 0 .. n : At(r)' = At(r)
    BY <1>2, <2>1, SameStore DEF PlaneInv
  <2> QED
    BY <1>1, <2>1, <2>2, StoreGrows
<1>3. CASE \E k \in Keys, resource \in Resource : Write(k, resource)
  <2>1. PICK k \in Keys, resource \in Resource : Write(k, resource)
    BY <1>3
  <2>2. /\ Revision' = Revision + 1
        /\ Current' = [Current EXCEPT ![k] = resource]
        /\ \A r \in 0 .. Revision : At(r)' = At(r)
    BY <1>1, <2>1, WriteEffect
  <2>3. \A j \in Keys \ {k} : Current'[j] = Current[j]
    BY <1>1, <2>2 DEF Graphs
  <2>4. written' = Append(written, k)
    BY <2>1 DEF Write
  <2> QED
    BY <1>1, <2>2, <2>3, <2>4, WritePlane
<1>4. CASE ForeignWrite
  <2>1. /\ Revision' = Revision + 1
        /\ Current' = Current
        /\ \A r \in 0 .. Revision : At(r)' = At(r)
    BY <1>1, <1>4, ForeignWriteEffect
  <2>2. written' = Append(written, NoKey)
    BY <1>4 DEF ForeignWrite
  <2> QED
    BY <1>1, <2>1, <2>2, WritePlane
<1>5. ASSUME NEW a \in Admins, AdminStep(a)
      PROVE  \/ UNCHANGED <<history, written>>
             \/ \E k \in Keys, resource \in Resource : Write(k, resource)
  <2>1. CASE CommitOk(a)
    <3> DEFINE plan == admin[a]
               resource == IF plan.body = NoBody THEN Absent
                           ELSE [body |-> plan.body, secret |-> plan.secret,
                                 mod |-> Revision + 1]
    <3>1. plan \in AdminState /\ Revision \in Nat
      BY <1>1, CurrentInGraphs DEF StoreTypeOK
    <3>2. plan.key \in Keys /\ resource \in Resource
      BY <2>1, <3>1, AdminFields DEF CommitOk, Resource, Absent
    <3>3. Write(plan.key, resource)
      BY <2>1 DEF CommitOk
    <3> QED
      BY <3>2, <3>3
  <2> QED
    BY <1>5, <2>1 DEF AdminStep, Snapshot, PlanPut, PlanDelete, CommitFails
<1>6. ASSUME DirectWrite
      PROVE  \E k \in Keys, resource \in Resource : Write(k, resource)
  <2>1. PICK k \in Keys :
          \/ \E body \in Bodies, secret \in Secrets :
               Write(k, [body |-> body, secret |-> secret, mod |-> Revision + 1])
          \/ Write(k, Absent)
    BY <1>6 DEF DirectWrite
  <2>2. Absent \in Resource
    BY DEF Absent, Resource
  <2>3. \A body \in Bodies, secret \in Secrets :
          [body |-> body, secret |-> secret, mod |-> Revision + 1] \in Resource
    BY <1>1, CurrentInGraphs DEF Resource
  <2> QED
    BY <2>1, <2>2, <2>3
<1> QED
  BY <1>2, <1>3, <1>4, <1>5, <1>6 DEF EnvironmentStep

\* Recording a pending publication and answering leave all graphs alone.
LEMMA AnswerPlane ==
  ASSUME PlaneInv, NEW a \in Admins, RecordPending(a) \/ Reply(a)
  PROVE  PlaneInv'
<1>1. /\ StoreTypeOK /\ GraphTypeOK /\ SyncTypeOK
      /\ admin \in [Admins -> AdminState] /\ admin[a] \in AdminState
  BY DEF PlaneInv, TypeOK, StoreTypeOK
<1>2. UNCHANGED <<history, written, guard, direct, syncVars, lifecycle, latestGeneration,
                  target, committed, cancelled, activeCancellation, workerTx, workerTask,
                  publishedRevision, runtime, status, sub, wpc, signal, attempted, job,
                  doomed, stopping, joining>>
  BY DEF RecordPending, Reply, graphVars
<1>3. StoreTypeOK' /\ IsRegistry(records')
  <2>1. CASE RecordPending(a)
    <3>1. admin[a].revision \in Nat
      BY <1>1, <2>1, AdminFields DEF RecordPending
    <3>2. [pc |-> "reply", revision |-> admin[a].revision] \in AdminState
      BY <3>1 DEF AdminState
    <3>3. IsRegistry(Pending(records, admin[a].revision))
      BY <1>1, <3>1, RegistryType DEF GraphTypeOK
    <3> QED
      BY <1>1, <1>2, <2>1, <3>2, <3>3 DEF RecordPending, StoreTypeOK
  <2>2. CASE Reply(a)
    <3>1. Idle \in AdminState
      BY DEF AdminState
    <3> QED
      BY <1>1, <1>2, <2>2, <3>1 DEF Reply, StoreTypeOK, GraphTypeOK, graphVars
  <2> QED
    BY <2>1, <2>2
<1>4. GraphTypeOK' /\ SyncTypeOK'
  BY <1>1, <1>2, <1>3 DEF GraphTypeOK, SubmitTypeOK, WorkerTypeOK, ShutdownTypeOK,
                          SyncTypeOK, syncVars
<1>5. /\ Revision' = Revision /\ Framed' /\ At(0)' = EmptyGraph
      /\ \A r : At(r)' = At(r)
  BY <1>2, SameStore DEF PlaneInv
<1>6. InFlight'
  BY <1>2, <1>5 DEF PlaneInv, InFlight, Held, syncVars, At
<1>7. InStep'
  BY <1>2, <1>5 DEF PlaneInv, InStep, syncVars, At
<1> QED
  BY <1>3, <1>4, <1>5, <1>6, <1>7 DEF PlaneInv, TypeOK

\* What is left to show of a step that does not write to the store.
LEMMA LocalPlane ==
  ASSUME PlaneInv, UNCHANGED storeVars, GraphTypeOK', SyncTypeOK', InFlight', InStep'
  PROVE  PlaneInv'
<1>1. StoreTypeOK'
  BY DEF PlaneInv, TypeOK, StoreTypeOK, storeVars
<1>2. Framed' /\ At(0)' = EmptyGraph
  BY SameStore DEF PlaneInv, storeVars
<1> QED
  BY <1>1, <1>2 DEF PlaneInv, TypeOK

\* The steps of submit (state.rs) keep it: they hand over the graph as it is.
LEMMA SubmitPlane ==
  ASSUME PlaneInv, Submit, UNCHANGED <<storeVars, syncVars>>
  PROVE  PlaneInv'
<1>1. GraphTypeOK' /\ SyncTypeOK'
  BY SubmitType DEF PlaneInv, TypeOK, SyncTypeOK, syncVars
<1>2. UNCHANGED <<history, written, listed, job, runtime, sync, cursor>>
  BY DEF Submit, SubmitCheck, SubmitStart, SubmitHandle, SubmitNumber, SubmitRegister,
         SubmitToken, SubmitTarget, SubmitSignal, submitFrame, storeVars, syncVars
<1>3. Revision' = Revision /\ \A r : At(r)' = At(r)
  BY <1>2, SameStore
<1>4. sub'.revision = sub.revision /\ sub'.stored = sub.stored /\ sub.pc \in SubmitSteps
  <2>1. sub \in Submissions
    BY DEF PlaneInv, TypeOK, GraphTypeOK, SubmitTypeOK
  <2> QED
    BY <2>1 DEF Submit, SubmitCheck, SubmitStart, SubmitHandle, SubmitNumber,
         SubmitRegister, SubmitToken, SubmitTarget, SubmitSignal, SubmitGoes, Submissions,
         SubmitSteps
<1>5. /\ \/ target' = target
         \/ target'.revision = sub.revision /\ target'.stored = sub.stored
      /\ sub'.pc \in {"signal", "ok"} => target'.stored = sub'.stored
  <2>1. sub \in Submissions
    BY DEF PlaneInv, TypeOK, GraphTypeOK, SubmitTypeOK
  <2>2. CASE SubmitTarget
    BY <1>4, <2>2 DEF SubmitTarget
  <2>3. CASE SubmitSignal
    BY <1>4, <2>3 DEF SubmitSignal, PlaneInv, InStep
  <2>4. CASE SubmitCheck \/ SubmitStart \/ SubmitHandle \/ SubmitNumber \/ SubmitRegister
             \/ SubmitToken
    BY <2>1, <2>4 DEF SubmitCheck, SubmitStart, SubmitHandle, SubmitNumber,
         SubmitRegister, SubmitToken, SubmitGoes, Submissions
  <2> QED
    BY <2>2, <2>3, <2>4 DEF Submit
<1>6. InFlight'
  BY <1>2, <1>3, <1>4, <1>5 DEF PlaneInv, InFlight, Held, At
<1>7. InStep'
  <2>1. sync \in {"replacing", "applying"}
    BY <1>4 DEF PlaneInv, InStep, SubmitSteps
  <2> QED
    BY <1>2, <1>3, <1>4, <1>5, <2>1 DEF PlaneInv, InStep, At
<1> QED
  BY <1>1, <1>6, <1>7, LocalPlane

\* The steps of the preparation worker keep it: it publishes its job as it is.
LEMMA WorkerStepPlane ==
  ASSUME PlaneInv, NEW w \in Workers, WorkerStep(w), UNCHANGED <<storeVars, syncVars>>
  PROVE  PlaneInv'
<1>1. GraphTypeOK' /\ SyncTypeOK' /\ job \in [Workers -> Targets]
  BY WorkerStepType DEF PlaneInv, TypeOK, SyncTypeOK, syncVars, GraphTypeOK, WorkerTypeOK
<1>2. UNCHANGED <<history, written, listed, sub, target, sync, cursor>>
  BY DEF WorkerStep, Receive, Snap, Take, Settle, PrepareOk, PrepareFails,
         AfterTransient, Backoff, Compile, Reject, RejectRevision, AwaitSuperseded, Fence,
         PublishStatus, Commit, workerFrame, storeVars, syncVars
<1>3. Revision' = Revision /\ \A r : At(r)' = At(r)
  BY <1>2, SameStore
<1>4. job' = job \/ job' = [job EXCEPT ![w] = target]
  BY DEF WorkerStep, Receive, Snap, Take, Settle, PrepareOk, PrepareFails,
         AfterTransient, Backoff, Compile, Reject, RejectRevision, AwaitSuperseded, Fence,
         PublishStatus, Commit
<1>5. runtime' = runtime \/ runtime' = [revision |-> job[w].revision, stored |-> job[w].stored]
  BY DEF WorkerStep, Receive, Snap, Take, Settle, PrepareOk, PrepareFails,
         AfterTransient, Backoff, Compile, Reject, RejectRevision, AwaitSuperseded, Fence,
         PublishStatus, Commit
<1>6. InFlight'
  <2>1. \A v \in Workers : job'[v] = job[v] \/ job'[v] = target
    BY <1>1, <1>4
  <2>2. \A v \in Workers : Held(job[v])'
    BY <1>2, <1>3, <2>1 DEF PlaneInv, InFlight, Held, At
  <2>3. Held(runtime)'
    BY <1>2, <1>3, <1>5 DEF PlaneInv, InFlight, Held, At
  <2> QED
    BY <1>2, <1>3, <2>2, <2>3 DEF PlaneInv, InFlight, Held, At
<1>7. InStep'
  BY <1>2, <1>3 DEF PlaneInv, InStep, At
<1> QED
  BY <1>1, <1>6, <1>7, LocalPlane

\* The steps of shutdown (authority.rs) keep it: they touch no graph.
LEMMA ShutdownPlane ==
  ASSUME PlaneInv, RequestShutdown \/ Shutdown, UNCHANGED <<storeVars, syncVars>>
  PROVE  PlaneInv'
<1>1. GraphTypeOK' /\ SyncTypeOK'
  BY ShutdownType DEF PlaneInv, TypeOK, SyncTypeOK, syncVars
<1>2. UNCHANGED <<history, written, listed, sub, target, job, runtime, sync, cursor>>
  BY DEF RequestShutdown, Shutdown, Stop, CancelActive, CloseChannel, TakeTask, Join,
         shutdownFrame, storeVars, syncVars
<1>3. Revision' = Revision /\ \A r : At(r)' = At(r)
  BY <1>2, SameStore
<1>4. InFlight' /\ InStep'
  BY <1>2, <1>3 DEF PlaneInv, InFlight, InStep, Held, At
<1> QED
  BY <1>1, <1>4, LocalPlane

\* What is left to show of a step of the sync task.
LEMMA SyncPlane ==
  ASSUME PlaneInv, UNCHANGED syncFrame, status' \in Status(Nat), sub' \in Submissions,
         SyncTypeOK', Held(listed'), Held(sub'), InStep'
  PROVE  PlaneInv'
<1>1. GraphTypeOK'
  BY DEF PlaneInv, TypeOK, GraphTypeOK, SubmitTypeOK, WorkerTypeOK, ShutdownTypeOK, syncFrame
<1>2. UNCHANGED storeVars /\ UNCHANGED <<history, written, target, job, runtime>>
  BY DEF syncFrame, storeVars
<1>3. Revision' = Revision /\ \A r : At(r)' = At(r)
  BY <1>2, SameStore
<1>4. InFlight'
  BY <1>2, <1>3 DEF PlaneInv, InFlight, Held, At
<1> QED
  BY <1>1, <1>2, <1>4, LocalPlane

\* Nothing of the prefix was written in the window: the graph is the same.
LEMMA QuietWindow ==
  ASSUME StoreTypeOK, Framed, NEW from \in Nat, NEW to \in from + 1 .. Revision,
         EventKeys(from, to) = {}
  PROVE  At(from) = At(to)
<1>1. Revision \in Nat /\ to \in 0 .. Revision /\ from \in 0 .. Revision /\ from <= to
  BY CurrentInGraphs
<1>2. At(from) \in Graphs /\ At(to) \in Graphs
  BY <1>1 DEF StoreTypeOK, At, Revision
<1>3. ASSUME NEW k \in Keys PROVE At(from)[k] = At(to)[k]
  <2>1. k # NoKey
    BY StoreAssumption
  <2>2. \A r \in from + 1 .. to : written[r] # k
    BY <2>1 DEF EventKeys
  <2> QED
    BY <1>1, <2>2 DEF Framed
<1> QED
  BY <1>2, <1>3 DEF Graphs

\* The steps of the sync task (sync.rs) keep it: what it submits is etcd's
\* graph at the submitted revision.
LEMMA SyncStepPlane ==
  ASSUME PlaneInv, SyncStep \/ SyncFault \/ SyncStops \/ OutageGrows
  PROVE  PlaneInv'
<1>1. /\ StoreTypeOK /\ SyncTypeOK /\ Framed /\ At(0) = EmptyGraph
      /\ status \in Status(Nat) /\ sub \in Submissions /\ listed \in Snapshots
      /\ cursor \in Nat /\ Held(listed) /\ Held(sub) /\ InStep
      /\ target.stored \in Graphs
  BY DEF PlaneInv, TypeOK, GraphTypeOK, SubmitTypeOK, SyncTypeOK, InFlight, Targets
<1>2. /\ Revision \in Nat /\ Current \in Graphs /\ Current = At(Revision)
      /\ \A r \in 0 .. Revision : At(r) \in Graphs
  BY <1>1, CurrentInGraphs DEF StoreTypeOK, At, Revision, Current
<1>3. /\ DataRejected(status) \in Status(Nat) /\ TransportFailed(status) \in Status(Nat)
      /\ OutageAges(status) \in Status(Nat) /\ MarkEtcdConnected(status, TRUE) \in Status(Nat)
      /\ \A r \in Nat : /\ RecordSyncSuccess(status, r) \in Status(Nat)
                        /\ SetRevision(status, r) \in Status(Nat)
  BY <1>1, StatusType
<1>4. UNCHANGED syncFrame
  BY DEF SyncStep, ListOk, ListUnmappable, ReplaceAll, Replaced, SubmissionStopped,
         OpenWatch, WatchProgress, WatchUnmappable, ApplyWatch, Applied, SyncFault,
         ListFails, WatchFails, WatchEnds, SyncStops, OutageGrows
<1>5. Revision' = Revision /\ (\A r : At(r)' = At(r)) /\ target' = target
  BY <1>4, SameStore DEF syncFrame, storeVars
<1>6. NoSubmission \in Submissions /\ Held(NoSubmission) /\ NoSubmission.pc = "idle"
  BY <1>1, <1>2, EmptyIsGraph DEF NoSubmission, Submissions, Held
<1>7. ASSUME NEW revision \in 0 .. Revision, NEW stored, stored = At(revision)
      PROVE  /\ Submission(revision, stored) \in Submissions
             /\ Held(Submission(revision, stored))
             /\ Submission(revision, stored).pc = "check"
             /\ Submission(revision, stored).stored = stored
  BY <1>2, <1>7 DEF Submission, Submissions, SubmitSteps, Held
<1> USE DEF SyncTypeOK, InStep
<1>8. CASE ListFails \/ WatchFails \/ WatchEnds
  BY <1>1, <1>3, <1>4, <1>5, <1>8, SyncPlane DEF ListFails, WatchFails, WatchEnds, Fault
<1>9. CASE ListOk
  <2>1. listed' \in Snapshots /\ Held(listed')
    BY <1>2, <1>9 DEF ListOk, Snapshots, Held
  <2> QED
    BY <1>1, <1>2, <1>3, <1>4, <1>5, <1>9, <2>1, SyncPlane DEF ListOk
<1>10. CASE ListUnmappable
  BY <1>1, <1>3, <1>4, <1>5, <1>10, SyncPlane DEF ListUnmappable
<1>11. CASE ReplaceAll
  <2>1. CASE Accepts(listed.stored)
    <3>1. sub' = Submission(listed.revision, listed.stored) /\ status' = status
          /\ sync' = "replacing" /\ UNCHANGED <<listed, cursor, faults>>
      BY <1>11, <2>1 DEF ReplaceAll
    <3>2. /\ sub' \in Submissions /\ Held(sub') /\ sub'.pc = "check"
          /\ sub'.stored = listed.stored
      BY <1>1, <1>7, <3>1 DEF Held
    <3> QED
      BY <1>1, <1>4, <1>5, <3>1, <3>2, SyncPlane
  <2>2. CASE ~Accepts(listed.stored)
    BY <1>1, <1>3, <1>4, <1>5, <1>11, <2>2, SyncPlane DEF ReplaceAll
  <2> QED
    BY <2>1, <2>2
<1>12. CASE Replaced
  <2>1. listed.revision \in 0 .. Revision /\ target.stored = At(listed.revision)
    BY <1>1, <1>12 DEF Replaced, Held
  <2> QED
    BY <1>1, <1>2, <1>3, <1>4, <1>5, <1>6, <1>12, <2>1, SyncPlane DEF Replaced, At
<1>13. CASE SubmissionStopped
  BY <1>1, <1>3, <1>4, <1>5, <1>6, <1>13, SyncPlane DEF SubmissionStopped
<1>14. CASE OpenWatch
  BY <1>1, <1>3, <1>4, <1>5, <1>14, SyncPlane DEF OpenWatch, At
<1>15. CASE WatchProgress
  <2>1. PICK to \in cursor + 1 .. Revision :
          /\ EventKeys(cursor, to) = {}
          /\ cursor' = to
          /\ status' = RecordSyncSuccess(status, to)
    BY <1>15 DEF WatchProgress
  <2>2. At(cursor) = At(to) /\ to \in Nat
    BY <1>1, <2>1, QuietWindow
  <2>3. UNCHANGED <<sub, sync, listed, faults>> /\ sync = "watching"
    BY <1>15 DEF WatchProgress
  <2>4. SyncTypeOK' /\ status' \in Status(Nat)
    BY <1>1, <1>3, <2>1, <2>2, <2>3
  <2>5. cursor' \in 0 .. Revision /\ target.stored = At(to) /\ At(cursor)' = At(to)
    BY <1>1, <1>2, <1>5, <2>1, <2>2, <2>3 DEF At
  <2>6. InStep'
    BY <1>1, <1>5, <2>3, <2>5
  <2> QED
    BY <1>1, <1>4, <2>3, <2>4, <2>6, SyncPlane
<1>16. CASE WatchUnmappable
  BY <1>1, <1>3, <1>4, <1>5, <1>16, SyncPlane DEF WatchUnmappable
<1>17. CASE ApplyWatch
  <2> DEFINE revision(to) == BatchRevision(cursor, to)
             stored(to) == Layered(WatchBase, cursor, to)
  <2>1. PICK to \in cursor + 1 .. Revision :
          /\ EventKeys(cursor, to) # {}
          /\ \/ /\ sub' = Submission(revision(to), stored(to))
                /\ cursor' = to
                /\ sync' = "applying"
                /\ status' = status
             \/ /\ status' \in {DataRejected(status), TransportFailed(status)}
                /\ sync' = "list"
                /\ UNCHANGED <<sub, cursor>>
    BY <1>17 DEF ApplyWatch
  <2>2. UNCHANGED <<listed, faults>> /\ sync = "watching"
    BY <1>17 DEF ApplyWatch
  <2>3. CASE sync' = "applying"
    <3>1. WatchBase = At(cursor)
      BY <1>1, <2>2 DEF WatchBase
    <3>2. /\ revision(to) \in cursor + 1 .. to
          /\ stored(to) = At(revision(to)) /\ stored(to) = At(to)
      BY <1>1, <2>1, <3>1, BatchIsExact
    <3>3. revision(to) \in 0 .. Revision /\ to \in 0 .. Revision
      BY <1>1, <1>2, <3>2
    <3>4. sub' = Submission(revision(to), stored(to)) /\ cursor' = to /\ status' = status
      BY <2>1, <2>3
    <3> HIDE DEF revision, stored
    <3>5. /\ sub' \in Submissions /\ Held(sub') /\ sub'.pc = "check"
          /\ sub'.stored = At(to)
      BY <1>7, <3>2, <3>3, <3>4
    <3> QED
      BY <1>1, <1>2, <1>4, <1>5, <2>2, <2>3, <3>3, <3>4, <3>5, SyncPlane DEF At
  <2>4. CASE sync' = "list"
    BY <1>1, <1>3, <1>4, <1>5, <2>1, <2>2, <2>4, SyncPlane
  <2> QED
    BY <2>1, <2>3, <2>4
<1>18. CASE Applied
  BY <1>1, <1>3, <1>4, <1>5, <1>6, <1>18, SyncPlane DEF Applied, At
<1>19. CASE SyncStops
  BY <1>1, <1>4, <1>5, <1>19, SyncPlane DEF SyncStops
<1>20. CASE OutageGrows
  BY <1>1, <1>3, <1>4, <1>5, <1>20, SyncPlane DEF OutageGrows, syncVars, At
<1> QED
  BY <1>8, <1>9, <1>10, <1>11, <1>12, <1>13, <1>14, <1>15, <1>16, <1>17, <1>18, <1>19,
     <1>20 DEF SyncStep, SyncFault

-----------------------------------------------------------------------------
\* Every step of the control plane keeps the inductive invariant.
LEMMA PlaneInductive == PlaneInv /\ [Next]_vars => PlaneInv'
<1> SUFFICES ASSUME PlaneInv, [Next]_vars PROVE PlaneInv'
  OBVIOUS
<1>1. CASE UNCHANGED vars
  <2>1. UNCHANGED <<storeVars, graphVars, syncVars>>
    BY <1>1 DEF vars
  <2>2. GraphTypeOK' /\ SyncTypeOK'
    BY <2>1 DEF PlaneInv, TypeOK, GraphTypeOK, SubmitTypeOK, WorkerTypeOK, ShutdownTypeOK,
                SyncTypeOK, graphVars, syncVars
  <2>3. InFlight' /\ InStep'
    BY <2>1 DEF PlaneInv, InFlight, InStep, Held, At, Revision, storeVars, graphVars, syncVars
  <2> QED
    BY <2>1, <2>2, <2>3, LocalPlane
<1> QED
  BY <1>1, StoreStepPlane, AnswerPlane, SubmitPlane, WorkerStepPlane, ShutdownPlane,
     SyncStepPlane DEF Next

\* Every reachable state of the control plane is well typed.
THEOREM TypeCorrect == Spec => []TypeOK
<1>1. PlaneInv => TypeOK
  BY DEF PlaneInv
<1> QED
  BY <1>1, PlaneInit, PlaneInductive, PTL DEF Spec

\* The data plane only ever runs what etcd held at the revision it reports,
\* for any number of resources, writers, faults, relists and retries.
THEOREM PublishedGraphIsEtcdState == Spec => []PublishedIsEtcdState
<1>1. PlaneInv => PublishedIsEtcdState
  BY DEF PlaneInv, InFlight, Held, PublishedIsEtcdState
<1> QED
  BY <1>1, PlaneInit, PlaneInductive, PTL DEF Spec

-----------------------------------------------------------------------------
(***************************************************************************)
(* The publication fence.  The fence compares generations; what makes that *)
(* enough is that, while no submission is between taking its number and    *)
(* storing its target, the latest generation is the target's, and that a   *)
(* worker whose job has that generation holds that very target.            *)
(***************************************************************************)
Numbering == sub.pc \in {"register", "token", "target"}

Generations ==
  /\ latestGeneration = IF Numbering THEN target.generation + 1 ELSE target.generation
  /\ \A w \in Workers :
       /\ job[w].generation <= target.generation
       /\ job[w].generation = target.generation => job[w] = target

\* The numbering invariant holds when the gateway starts.
LEMMA GenerationsInit == Init => Generations
  BY DEF Init, GraphInit, Generations, Numbering, NoSubmission, NoTarget

\* submit numbers its generation before it installs the target.
LEMMA GenerationsSubmit ==
  ASSUME PlaneInv, Generations, Submit
  PROVE  Generations'
<1>1. /\ job \in [Workers -> Targets] /\ target \in Targets /\ latestGeneration \in Nat
      /\ sub \in Submissions
  BY DEF PlaneInv, TypeOK, GraphTypeOK, WorkerTypeOK, SubmitTypeOK
<1>2. target.generation \in Nat /\ \A w \in Workers : job[w].generation \in Nat
  BY <1>1 DEF Targets
<1>3. job' = job
  BY DEF Submit, SubmitCheck, SubmitStart, SubmitHandle, SubmitNumber, SubmitRegister,
         SubmitToken, SubmitTarget, SubmitSignal, submitFrame
<1>4. CASE SubmitNumber
  <2>1. sub'.pc = "register" /\ target' = target /\ latestGeneration' = latestGeneration + 1
        /\ sub.pc = "number"
    BY <1>1, <1>4 DEF SubmitNumber, SubmitGoes, Submissions
  <2> QED
    BY <1>3, <2>1 DEF Generations, Numbering
<1>5. CASE SubmitTarget
  <2>1. /\ sub'.pc = "signal" /\ sub.pc = "target"
        /\ latestGeneration' = latestGeneration
        /\ target'.generation = latestGeneration
    BY <1>1, <1>5 DEF SubmitTarget, SubmitGoes, Submissions
  <2>2. latestGeneration = target.generation + 1
    BY <2>1 DEF Generations, Numbering
  <2>3. \A w \in Workers : job'[w].generation < target'.generation
    BY <1>2, <1>3, <2>1, <2>2 DEF Generations
  <2> QED
    BY <1>1, <1>2, <1>3, <2>1, <2>3 DEF Generations, Numbering
<1>6. CASE SubmitCheck \/ SubmitStart \/ SubmitHandle \/ SubmitRegister \/ SubmitToken
           \/ SubmitSignal
  <2>1. target' = target /\ latestGeneration' = latestGeneration
    BY <1>6 DEF SubmitCheck, SubmitStart, SubmitHandle, SubmitRegister, SubmitToken,
                SubmitSignal, submitFrame
  <2>2. Numbering' <=> Numbering
    BY <1>1, <1>6 DEF SubmitCheck, SubmitStart, SubmitHandle, SubmitRegister, SubmitToken,
                SubmitSignal, SubmitGoes, Numbering, Submissions
  <2> QED
    BY <1>3, <2>1, <2>2 DEF Generations
<1> QED
  BY <1>4, <1>5, <1>6 DEF Submit

\* The worker numbers nothing; it only copies the target into its job.
LEMMA GenerationsWorker ==
  ASSUME PlaneInv, Generations, NEW w \in Workers, WorkerStep(w)
  PROVE  Generations'
<1>1. job \in [Workers -> Targets] /\ target.generation \in Nat
  BY DEF PlaneInv, TypeOK, GraphTypeOK, WorkerTypeOK, SubmitTypeOK, Targets
<1>2. UNCHANGED <<sub, target, latestGeneration>>
  BY DEF WorkerStep, Receive, Snap, Take, Settle, PrepareOk, PrepareFails,
         AfterTransient, Backoff, Compile, Reject, RejectRevision, AwaitSuperseded, Fence,
         PublishStatus, Commit, workerFrame
<1>3. job' = job \/ job' = [job EXCEPT ![w] = target]
  BY DEF WorkerStep, Receive, Snap, Take, Settle, PrepareOk, PrepareFails,
         AfterTransient, Backoff, Compile, Reject, RejectRevision, AwaitSuperseded, Fence,
         PublishStatus, Commit
<1>4. \A v \in Workers : job'[v] = job[v] \/ job'[v] = target
  BY <1>1, <1>3
<1> QED
  BY <1>1, <1>2, <1>4 DEF Generations, Numbering

\* Steps that leave target, job and generation alone keep the numbering.
LEMMA GenerationsOther ==
  ASSUME PlaneInv, Generations, UNCHANGED <<target, latestGeneration, job>>,
         Numbering' <=> Numbering
  PROVE  Generations'
  BY DEF Generations

\* The sync task starts a submission only when none is in progress.
LEMMA GenerationsSync ==
  ASSUME PlaneInv, Generations, SyncStep \/ SyncFault \/ SyncStops \/ OutageGrows
  PROVE  Generations'
<1>1. UNCHANGED <<target, latestGeneration, job>>
  BY DEF SyncStep, ListOk, ListUnmappable, ReplaceAll, Replaced, SubmissionStopped,
         OpenWatch, WatchProgress, WatchUnmappable, ApplyWatch, Applied, SyncFault,
         ListFails, WatchFails, WatchEnds, SyncStops, OutageGrows, syncFrame
<1>2. Numbering' <=> Numbering
  <2>1. \A revision, stored : Submission(revision, stored).pc = "check"
    BY DEF Submission
  <2>2. NoSubmission.pc = "idle"
    BY DEF NoSubmission
  <2>3. sync \notin {"replacing", "applying"} => sub.pc = "idle"
    BY DEF PlaneInv, InStep
  <2>4. CASE ReplaceAll
    BY <2>1, <2>3, <2>4 DEF ReplaceAll, Numbering
  <2>5. CASE ApplyWatch
    BY <2>1, <2>3, <2>5 DEF ApplyWatch, Numbering
  <2>6. CASE Replaced \/ SubmissionStopped \/ Applied
    BY <2>2, <2>6 DEF Replaced, SubmissionStopped, Applied, Numbering
  <2>7. CASE sub' = sub
    BY <2>7 DEF Numbering
  <2> QED
    BY <2>4, <2>5, <2>6, <2>7
       DEF SyncStep, ListOk, ListUnmappable, OpenWatch, WatchProgress, WatchUnmappable,
           SyncFault, ListFails, WatchFails, WatchEnds, SyncStops, OutageGrows
<1> QED
  BY <1>1, <1>2, GenerationsOther

\* Every step of the control plane keeps the numbering invariant.
LEMMA GenerationsInductive == PlaneInv /\ Generations /\ [Next]_vars => Generations'
<1> SUFFICES ASSUME PlaneInv, Generations, [Next]_vars PROVE Generations'
  OBVIOUS
<1>1. CASE UNCHANGED <<sub, target, latestGeneration, job>>
  BY <1>1, GenerationsOther DEF Numbering
<1>2. \/ UNCHANGED <<sub, target, latestGeneration, job>>
      \/ Submit
      \/ \E w \in Workers : WorkerStep(w)
      \/ SyncStep \/ SyncFault \/ SyncStops \/ OutageGrows
  <2>1. CASE UNCHANGED vars
    BY <2>1 DEF vars, graphVars
  <2>2. CASE \E a \in Admins : RecordPending(a) \/ Reply(a)
    BY <2>2 DEF RecordPending, Reply, graphVars
  <2>3. CASE RequestShutdown \/ Shutdown
    BY <2>3 DEF RequestShutdown, Shutdown, Stop, CancelActive, CloseChannel, TakeTask, Join,
                shutdownFrame
  <2>4. CASE UNCHANGED graphVars
    BY <2>4 DEF graphVars
  <2> QED
    BY <2>1, <2>2, <2>3, <2>4 DEF Next
<1> QED
  BY <1>1, <1>2, GenerationsSubmit, GenerationsWorker, GenerationsSync

\* The data plane changes only to the latest submitted target: a candidate
\* that was overtaken during its preparation never gets past the fence
\* (state.rs, prepare_latest), for any number of workers and submissions.
THEOREM OnlyLatestTargetPublished == Spec => PublishesLatestTarget
<1>1. PlaneInv /\ Generations /\ [Next]_vars
        => [runtime' # runtime =>
              runtime' = [revision |-> target.revision, stored |-> target.stored]]_vars
  <2> SUFFICES ASSUME PlaneInv, Generations, Next, runtime' # runtime
               PROVE  runtime' = [revision |-> target.revision, stored |-> target.stored]
    OBVIOUS
  <2>1. PICK w \in Workers : WorkerStep(w)
    <3>1. ASSUME UNCHANGED graphVars PROVE FALSE
      BY <3>1 DEF graphVars
    <3>2. ASSUME \E a \in Admins : RecordPending(a) \/ Reply(a) PROVE FALSE
      BY <3>2 DEF RecordPending, Reply, graphVars
    <3>3. ASSUME RequestShutdown \/ Shutdown PROVE FALSE
      BY <3>3 DEF RequestShutdown, Shutdown, Stop, CancelActive, CloseChannel, TakeTask, Join,
                  shutdownFrame
    <3>4. ASSUME Submit PROVE FALSE
      BY <3>4 DEF Submit, SubmitCheck, SubmitStart, SubmitHandle, SubmitNumber,
                  SubmitRegister, SubmitToken, SubmitTarget, SubmitSignal, submitFrame
    <3>5. ASSUME SyncStep \/ SyncFault \/ SyncStops \/ OutageGrows PROVE FALSE
      BY <3>5 DEF SyncStep, ListOk, ListUnmappable, ReplaceAll, Replaced, SubmissionStopped,
         OpenWatch, WatchProgress, WatchUnmappable, ApplyWatch, Applied, SyncFault,
         ListFails, WatchFails, WatchEnds, SyncStops, OutageGrows, syncFrame
    <3> QED
      BY <3>1, <3>2, <3>3, <3>4, <3>5 DEF Next
  <2>2. Fence(w) /\ ~Fenced(w) /\ WriteLockFree
    BY <2>1 DEF WorkerStep, Receive, Snap, Take, Settle, PrepareOk, PrepareFails,
         AfterTransient, Backoff, Compile, Reject, RejectRevision, AwaitSuperseded, Fence,
         PublishStatus, Commit
  <2>3. target.generation = latestGeneration /\ latestGeneration = job[w].generation
    BY <2>2 DEF Fenced, WriteLockFree, SubmitSteps, Generations, Numbering
  <2>4. job[w] = target
    BY <2>3 DEF Generations
  <2> QED
    BY <2>2, <2>4 DEF Fence
<1> QED
  BY <1>1, PlaneInit, PlaneInductive, GenerationsInit, GenerationsInductive, PTL
     DEF Spec, PublishesLatestTarget

=============================================================================
