--------------------------- MODULE HealthChecksProofs ---------------------------
(***************************************************************************)
(* Proofs about HealthChecks, for any sets of keys and fingerprints, any   *)
(* channel capacity and any number of publications and failures: a check   *)
(* is run by at most one task, which the executor owns, the load balancers *)
(* in use are registered, and none loses its check while it is in use.     *)
(***************************************************************************)
EXTENDS HealthChecks, FiniteSetTheorems, TLAPS

Services == {NoService} \cup Service

--------------------------------------------------------------------------------
(* One task per generation. *)

\* The states in which the executor is joining tasks: only there does it hold
\* handles that are not in running_tasks.
Joining == {"stopping", "stale", "draining"}

ExecIsRecord == exec = [pc |-> exec.pc, unread |-> exec.unread, found |-> exec.found]

\* OneOwnedTask is not inductive: a handle that is being joined must not be
\* started again (start_task looks at running_tasks only), and what
\* restart_finished_tasks collected must still be finished when it is restarted.
TaskInv ==
  /\ ExecIsRecord
  /\ alive \in [Generations -> {0, 1}]
  /\ \A g \in Generations : alive[g] = 1 => g \in running \cup awaiting
  /\ exec.pc \notin Joining => awaiting = {}
  /\ exec.pc = "restart" => \A g \in exec.found : g \in running /\ (g \in Generations => alive[g] = 0)

\* No task runs before the first registration.
LEMMA TaskInvInit == Init => TaskInv
  BY DEF Init, TaskInv, ExecIsRecord, Joining

\* Starting a generation when nothing is being joined.
LEMMA StartTaskKeeps ==
  ASSUME TaskInv, awaiting = {}, NEW g, StartTask(g)
  PROVE  /\ alive' \in [Generations -> {0, 1}]
         /\ \A h \in Generations : alive'[h] = 1 => h \in running'
  BY DEF TaskInv, StartTask

\* The executor owns every running task after each of its steps, of the
\* publisher's and of the checks themselves.
LEMMA TaskInvNext == TaskInv /\ [Next]_vars => TaskInv'
<1> SUFFICES ASSUME TaskInv, [Next]_vars PROVE TaskInv'
  OBVIOUS
<1> USE DEF Joining
<1>1. CASE \E snapshot \in Snapshots : PublishBegins(snapshot)
  BY <1>1 DEF TaskInv, ExecIsRecord, PublishBegins, executorVars, taskVars
<1>2. CASE PublisherStep
  BY <1>2 DEF TaskInv, ExecIsRecord, PublisherStep, KeepCheck, RegisterUpstream, NotifyUpdate,
     StoreSnapshot, Discard, UnregisterUpstream, PublishEnds, executorVars, taskVars
<1>3. CASE ExecutorStep
  <2>1. CASE ExecutorStarts
    BY <2>1 DEF TaskInv, ExecIsRecord, ExecutorStarts, Enumerate
  <2>2. CASE \E k \in Checks : ReadKey(k)
    BY <2>2 DEF TaskInv, ExecIsRecord, ReadKey
  <2>3. CASE StartFound
    <3>1. awaiting = {} /\ awaiting' = {}
      BY <2>3 DEF StartFound, TaskInv
    <3>2. CASE \E g \in exec.found : StartTask(g) /\ exec' = [exec EXCEPT !.found = @ \ {g}]
      BY <2>3, <3>1, <3>2, StartTaskKeeps DEF StartFound, TaskInv, ExecIsRecord
    <3>3. CASE exec' = Goto(IF exec.pc = "boot" THEN "loop" ELSE "finished")
               /\ UNCHANGED <<running, alive>>
      BY <3>1, <3>3 DEF TaskInv, ExecIsRecord, Goto
    <3> QED BY <2>3, <3>2, <3>3 DEF StartFound
  <2>4. CASE ReceiveAdded
    <3>1. awaiting = {} /\ awaiting' = {}
      BY <2>4 DEF ReceiveAdded, Selecting, TaskInv
    <3> QED BY <2>4, <3>1, StartTaskKeeps DEF ReceiveAdded, TaskInv, ExecIsRecord, Goto
  <2>5. CASE ReceiveRemoved
    BY <2>5 DEF TaskInv, ExecIsRecord, ReceiveRemoved, Selecting, Goto
  <2>6. CASE ReceiveLagged
    BY <2>6 DEF TaskInv, ExecIsRecord, ReceiveLagged, Selecting, Enumerate
  <2>7. CASE JoinTask
    <3> PICK g \in awaiting : awaiting' = awaiting \ {g} /\ alive' = [alive EXCEPT ![g] = 0]
      BY <2>7 DEF JoinTask
    <3>1. exec' = exec /\ running' = running /\ exec.pc \in Joining
      BY <2>7 DEF JoinTask
    <3>2. alive' \in [Generations -> {0, 1}]
      BY DEF TaskInv
    <3>3. \A h \in Generations : alive'[h] = 1 => h \in running' \cup awaiting'
      BY <3>1 DEF TaskInv
    <3> QED BY <3>1, <3>2, <3>3 DEF TaskInv, ExecIsRecord
  <2>8. CASE TaskStopped
    BY <2>8 DEF TaskInv, ExecIsRecord, TaskStopped, Goto
  <2>9. CASE StopStale
    BY <2>9 DEF TaskInv, ExecIsRecord, StopStale, Enumerate
  <2>10. CASE Tick
    BY <2>10 DEF TaskInv, ExecIsRecord, Tick, Selecting, Goto
  <2>11. CASE CollectFinished
    BY <2>11 DEF TaskInv, ExecIsRecord, CollectFinished
  <2>12. CASE RestartFinished
    BY <2>12 DEF TaskInv, ExecIsRecord, RestartFinished, Goto
  <2>13. CASE ExecutorShutsDown
    BY <2>13 DEF TaskInv, ExecIsRecord, ExecutorShutsDown, Enumerate
  <2>14. CASE RequestShutdownAll
    BY <2>14 DEF TaskInv, ExecIsRecord, RequestShutdownAll, Drained, Goto, taskVars
  <2>15. CASE ExecutorStopped
    BY <2>15 DEF TaskInv, ExecIsRecord, ExecutorStopped, Goto
  <2> QED
    BY <1>3, <2>1, <2>2, <2>3, <2>4, <2>5, <2>6, <2>7, <2>8, <2>9, <2>10, <2>11, <2>12,
       <2>13, <2>14, <2>15 DEF ExecutorStep
<1>4. CASE \E g \in Generations : CheckStops(g) \/ CheckExits(g)
  BY <1>4 DEF TaskInv, ExecIsRecord, CheckStops, CheckExits, executorVars
<1>5. CASE RequestShutdown
  BY <1>5 DEF TaskInv, ExecIsRecord, RequestShutdown, executorVars, taskVars
<1>6. CASE UNCHANGED vars
  BY <1>6 DEF TaskInv, ExecIsRecord, vars, executorVars, taskVars
<1> QED BY <1>1, <1>2, <1>3, <1>4, <1>5, <1>6 DEF Next

\* No check is ever run by two tasks, and the executor holds the handle of every
\* one that runs: start_task, resync_tasks and restart_finished_tasks never lose
\* or double a task, whatever updates are lost, repeated or late.
THEOREM ChecksRunOnce == Spec => []OneOwnedTask
<1>1. TaskInv => OneOwnedTask
  BY DEF TaskInv, OneOwnedTask
<1> QED BY <1>1, TaskInvInit, TaskInvNext, PTL DEF Spec

--------------------------------------------------------------------------------
(* What is served is registered. *)

Known == DOMAIN registrations

\* Generation g is the registration of key k for service s.
IsFor(g, k, s) == g \in Known /\ registrations[g] = [key |-> k, service |-> s]

Publications ==
  [pc : {"idle", "register", "stored"}, snapshot : [Checks -> Services],
   desired : SUBSET Checks, next : [Checks -> Nat], displaced : Seq(Nat),
   removed : SUBSET Checks, update : Seq([kind : {"Added", "Removed"}, gen : Nat])]

ExecOK == ExecIsRecord /\ exec.unread \in SUBSET Checks

PublisherTypeOK ==
  /\ ExecOK
  /\ current \in [Checks -> Services]
  /\ active \in [Checks -> Nat]
  /\ pub \in Publications
  /\ registrations \in Seq([key : Checks, service : Services])
  /\ registry \in [Checks -> Nat]

\* Every generation the publisher keeps for a key is a registration of that key.
KeysMatch ==
  \A k \in Checks :
    /\ active[k] # 0 => active[k] \in Known /\ KeyOf(active[k]) = k
    /\ registry[k] # 0 => registry[k] \in Known /\ KeyOf(registry[k]) = k

\* Until the new snapshot is stored, the active set is that of the old one.
ActiveServes ==
  pub.pc # "stored" =>
    \A k \in Checks :
      /\ current[k] # NoService => active[k] # 0
      /\ active[k] # 0 => IsFor(active[k], k, current[k])

\* The keys that have been looked at have their registration in next.
NextServes ==
  pub.pc # "idle" =>
    \A k \in Checks :
      /\ pub.next[k] # 0 => k \notin pub.desired /\ IsFor(pub.next[k], k, pub.snapshot[k])
      /\ k \notin pub.desired /\ pub.snapshot[k] # NoService => pub.next[k] # 0

StoredIsSnapshot == pub.pc = "stored" => current = pub.snapshot /\ pub.desired = {}

\* A displaced registration is of a key that has been looked at and is not the
\* one that key keeps.
DisplacedApart ==
  \A i \in DOMAIN pub.displaced :
    LET g == pub.displaced[i] IN
    /\ g \in Known
    /\ KeyOf(g) \notin pub.desired
    /\ \A k \in Checks : pub.next[k] # g

RemovedApart ==
  /\ pub.pc # "stored" => pub.removed = {}
  /\ \A k \in pub.removed : active[k] # 0 /\ pub.next[k] = 0

\* What is in use has not been told to stop: in the old snapshot until the new
\* one is stored, and in the new one.
NotStopped ==
  ~ShuttingDown =>
    \A k \in Checks :
      /\ pub.pc # "stored" /\ active[k] # 0 => active[k] \notin stop
      /\ pub.pc # "idle" /\ pub.next[k] # 0 => pub.next[k] \notin stop

StopsKnown == \A g \in stop : g \in Known

ServeInv ==
  /\ PublisherTypeOK /\ KeysMatch /\ ActiveServes /\ NextServes /\ StoredIsSnapshot
  /\ DisplacedApart /\ RemovedApart /\ NotStopped /\ StopsKnown

\* Before the first publication nothing is served and nothing registered.
LEMMA ServeInvInit == Init => ServeInv
<1> SUFFICES ASSUME Init PROVE ServeInv
  OBVIOUS
<1>1. PublisherTypeOK
  BY DEF Init, PublisherTypeOK, ExecOK, ExecIsRecord, NoPublish, Publications, Services
<1>2. KeysMatch /\ ActiveServes /\ NextServes /\ StoredIsSnapshot /\ DisplacedApart
      /\ RemovedApart /\ NotStopped /\ StopsKnown
  BY DEF Init, NoPublish, KeysMatch, ActiveServes, NextServes, StoredIsSnapshot,
     DisplacedApart, RemovedApart, NotStopped, StopsKnown
<1> QED BY <1>1, <1>2 DEF ServeInv

\* What ServeInv says of each stage of publish covers the snapshot in force.
LEMMA ServeInvImplies == ServeInv => ServedIsRegistered
<1> SUFFICES ASSUME ServeInv, ~ShuttingDown, NEW k \in Checks, current[k] # NoService
             PROVE  \E g \in DOMAIN registrations \ stop :
                      registrations[g] = [key |-> k, service |-> current[k]]
  BY DEF ServedIsRegistered
<1>1. CASE pub.pc # "stored"
  BY <1>1 DEF ServeInv, ActiveServes, NotStopped, IsFor, Known
<1>2. CASE pub.pc = "stored"
  BY <1>2 DEF ServeInv, NextServes, StoredIsSnapshot, NotStopped, IsFor, Known
<1> QED BY <1>1, <1>2

\* The steps of the executor and of the checks leave the publisher's variables
\* alone, and the executor stops what is registered only when it shuts down.
LEMMA ServeInvOthers ==
  ASSUME ServeInv, ExecOK', ShuttingDown => ShuttingDown',
         UNCHANGED <<current, active, pub, registrations, registry>>,
         \/ stop' = stop
         \/ ShuttingDown' /\ \A g \in stop' : g \in Known
  PROVE  ServeInv'
<1>1. PublisherTypeOK'
  BY DEF ServeInv, PublisherTypeOK
<1>2. KeysMatch' /\ ActiveServes' /\ NextServes' /\ StoredIsSnapshot' /\ DisplacedApart'
      /\ RemovedApart'
  BY DEF ServeInv, KeysMatch, KeyOf, ActiveServes, NextServes, IsFor, StoredIsSnapshot,
     DisplacedApart, RemovedApart, Known
<1>3. NotStopped' /\ StopsKnown'
  BY DEF ServeInv, NotStopped, StopsKnown, Known
<1> QED BY <1>1, <1>2, <1>3 DEF ServeInv

\* The executor starts and stops tasks only; it touches no registration in force.
LEMMA ServeInvExecutor == ServeInv /\ ExecutorStep => ServeInv'
<1> SUFFICES ASSUME ServeInv, ExecutorStep PROVE ServeInv'
  OBVIOUS
<1> USE DEF ShuttingDown, environmentVars, storeVars, registryVars
<1>0. ExecOK
  BY DEF ServeInv, PublisherTypeOK
<1>1. CASE ExecutorStarts \/ ReceiveAdded \/ ReceiveRemoved \/ ReceiveLagged \/ Tick
           \/ TaskStopped \/ ExecutorStopped \/ ExecutorShutsDown
  <2>1. ExecOK' /\ (ShuttingDown => ShuttingDown')
    BY <1>0, <1>1 DEF ExecOK, ExecIsRecord, ExecutorStarts, ReceiveAdded, ReceiveRemoved, ReceiveLagged, Tick,
       TaskStopped, ExecutorStopped, ExecutorShutsDown, Selecting, Goto, Enumerate
  <2>2. UNCHANGED <<current, active, pub, registrations, registry, stop>>
    BY <1>1 DEF ExecutorStarts, ReceiveAdded, ReceiveRemoved, ReceiveLagged, Tick,
       TaskStopped, ExecutorStopped, ExecutorShutsDown
  <2> QED BY <2>1, <2>2, ServeInvOthers
<1>2. CASE (\E k \in Checks : ReadKey(k)) \/ StartFound \/ JoinTask
  <2>1. ExecOK' /\ (ShuttingDown => ShuttingDown')
    <3>1. CASE \E k \in Checks : ReadKey(k)
      BY <1>0, <3>1 DEF ExecOK, ExecIsRecord, ReadKey
    <3>2. CASE StartFound
      BY <1>0, <3>2 DEF ExecOK, ExecIsRecord, StartFound, Goto
    <3>3. CASE JoinTask
      BY <1>0, <3>3 DEF ExecOK, ExecIsRecord, JoinTask
    <3> QED BY <1>2, <3>1, <3>2, <3>3
  <2>2. UNCHANGED <<current, active, pub, registrations, registry, stop>>
    BY <1>2 DEF ReadKey, StartFound, JoinTask
  <2> QED BY <2>1, <2>2, ServeInvOthers
<1>3. CASE StopStale \/ CollectFinished \/ RestartFinished
  <2>1. ExecOK' /\ (ShuttingDown => ShuttingDown')
    <3>1. CASE StopStale
      BY <1>0, <3>1 DEF ExecOK, ExecIsRecord, StopStale, Enumerate
    <3>2. CASE CollectFinished
      BY <1>0, <3>2 DEF ExecOK, ExecIsRecord, CollectFinished
    <3>3. CASE RestartFinished
      BY <1>0, <3>3 DEF ExecOK, ExecIsRecord, RestartFinished, Goto
    <3> QED BY <1>3, <3>1, <3>2, <3>3
  <2>2. UNCHANGED <<current, active, pub, registrations, registry, stop>>
    BY <1>3 DEF StopStale, CollectFinished, RestartFinished
  <2> QED BY <2>1, <2>2, ServeInvOthers
<1>4. CASE RequestShutdownAll
  <2>1. ExecOK' /\ ShuttingDown'
    BY <1>0, <1>4 DEF ExecOK, ExecIsRecord, RequestShutdownAll, Goto
  <2>2. UNCHANGED <<current, active, pub, registrations, registry>>
    BY <1>4 DEF RequestShutdownAll
  <2>3. \A g \in stop' : g \in Known
    BY <1>0, <1>4 DEF ExecOK, RequestShutdownAll, ServeInv, StopsKnown, KeysMatch
  <2> QED BY <2>1, <2>2, <2>3, ServeInvOthers
<1> QED BY <1>1, <1>2, <1>3, <1>4 DEF ExecutorStep

\* The steps of publish, one lemma for each that does more than move on.
LEMMA ServeInvBegins ==
  ASSUME ServeInv, NEW snapshot \in Snapshots, PublishBegins(snapshot)
  PROVE  ServeInv'
<1> USE DEF PublishBegins, NoPublish, executorVars, registryVars
<1>1. snapshot \in [Checks -> Services]
  BY DEF Snapshots, Services
<1>2. PublisherTypeOK'
  <2>1. pub' \in Publications
    <3>1. pub' = [pc |-> "register", snapshot |-> snapshot,
                  desired |-> {k \in Checks : snapshot[k] # NoService},
                  next |-> [k \in Checks |-> 0], displaced |-> <<>>, removed |-> {},
                  update |-> <<>>]
      OBVIOUS
    <3>2. {k \in Checks : snapshot[k] # NoService} \in SUBSET Checks
          /\ [k \in Checks |-> 0] \in [Checks -> Nat]
      OBVIOUS
    <3>3. <<>> \in Seq(Nat) /\ <<>> \in Seq([kind : {"Added", "Removed"}, gen : Nat])
      OBVIOUS
    <3> HIDE DEF NoPublish, PublishBegins
    <3> QED BY <1>1, <3>1, <3>2, <3>3 DEF Publications
  <2> QED BY <2>1 DEF ServeInv, PublisherTypeOK, ExecOK, ExecIsRecord
<1>3. KeysMatch' /\ ActiveServes'
  BY DEF ServeInv, KeysMatch, KeyOf, ActiveServes, IsFor, Known
<1>4. NextServes' /\ StoredIsSnapshot' /\ DisplacedApart' /\ RemovedApart'
  BY DEF NextServes, StoredIsSnapshot, DisplacedApart, RemovedApart
<1>5. NotStopped' /\ StopsKnown'
  BY DEF ServeInv, NotStopped, StopsKnown, Known, ShuttingDown
<1> QED BY <1>2, <1>3, <1>4, <1>5 DEF ServeInv

\* A key whose check is unchanged keeps its registration in the next set.
LEMMA ServeInvKeep ==
  ASSUME ServeInv, NEW k \in Checks, KeepCheck(k)
  PROVE  ServeInv'
<1> USE DEF KeepCheck, Publishing, executorVars, registryVars
<1>1. pub \in Publications /\ pub' \in Publications /\ active[k] \in Nat
      /\ pub' = [pub EXCEPT !.desired = @ \ {k}, !.next[k] = active[k]]
  BY DEF ServeInv, PublisherTypeOK, Publications
<1>2. /\ pub'.pc = pub.pc /\ pub'.snapshot = pub.snapshot /\ pub'.removed = pub.removed
      /\ pub'.displaced = pub.displaced /\ pub'.desired = pub.desired \ {k}
      /\ pub'.next = [pub.next EXCEPT ![k] = active[k]] /\ pub.next \in [Checks -> Nat]
  BY <1>1 DEF Publications
<1>3. pub.pc = "register" /\ active[k] # 0 /\ IsFor(active[k], k, pub.snapshot[k])
  <2>1. pub.pc = "register" /\ active[k] # 0 /\ registrations[active[k]].service = pub.snapshot[k]
    BY DEF Unchanged
  <2>2. IsFor(active[k], k, current[k])
    BY <2>1 DEF ServeInv, ActiveServes
  <2>3. current[k] = pub.snapshot[k]
    BY <2>1, <2>2 DEF IsFor
  <2> QED BY <2>1, <2>2, <2>3
<1>4. PublisherTypeOK'
  BY <1>1 DEF ServeInv, PublisherTypeOK, ExecOK, ExecIsRecord
<1>5. KeysMatch' /\ ActiveServes' /\ StoredIsSnapshot' /\ StopsKnown'
  BY <1>2, <1>3 DEF ServeInv, KeysMatch, KeyOf, ActiveServes, IsFor, StoredIsSnapshot, StopsKnown, Known
<1>6. NextServes'
  BY <1>2, <1>3 DEF ServeInv, NextServes, IsFor, Known
<1>7. DisplacedApart'
  BY <1>2, <1>3 DEF ServeInv, DisplacedApart, KeyOf, KeysMatch, Known
<1>8. NotStopped'
  BY <1>2, <1>3 DEF ServeInv, NotStopped, ShuttingDown
<1>9. RemovedApart'
  BY <1>2, <1>3 DEF ServeInv, RemovedApart
<1> QED BY <1>4, <1>5, <1>6, <1>7, <1>8, <1>9 DEF ServeInv

\* A key with a new check is registered under a new generation.
LEMMA ServeInvRegister ==
  ASSUME ServeInv, NEW k \in Checks, RegisterUpstream(k)
  PROVE  ServeInv'
<1> DEFINE g == Len(registrations) + 1
<1> DEFINE more == IF registry[k] = 0 THEN pub.displaced ELSE Append(pub.displaced, registry[k])
<1>1. /\ pub.pc = "register" /\ k \in pub.desired
      /\ registrations' = Append(registrations, [key |-> k, service |-> pub.snapshot[k]])
      /\ registry' = [registry EXCEPT ![k] = g]
      /\ pub' = [pub EXCEPT !.desired = @ \ {k}, !.next[k] = g, !.displaced = more,
                            !.update = <<[kind |-> "Added", gen |-> g]>>]
      /\ UNCHANGED <<current, active, stop, exec>>
  BY DEF RegisterUpstream, NextGeneration, Publishing, executorVars
<1>2. /\ pub \in Publications /\ registry \in [Checks -> Nat]
      /\ registrations \in Seq([key : Checks, service : Services])
  BY DEF ServeInv, PublisherTypeOK
<1>3. g \in Nat /\ g # 0 /\ g \notin Known /\ \A h \in Known : h \in 1..Len(registrations)
  BY <1>2 DEF Known
<1>4. /\ Known' = Known \cup {g}
      /\ registrations'[g] = [key |-> k, service |-> pub.snapshot[k]]
      /\ \A h \in Known : registrations'[h] = registrations[h]
      /\ registrations' \in Seq([key : Checks, service : Services])
  <2>1. [key |-> k, service |-> pub.snapshot[k]] \in [key : Checks, service : Services]
    BY <1>2 DEF Publications
  <2> QED BY <1>1, <1>2, <2>1 DEF Known
<1>5. more \in Seq(Nat)
  BY <1>2 DEF Publications
<1>6. /\ pub'.pc = "register" /\ pub'.snapshot = pub.snapshot /\ pub'.removed = pub.removed
      /\ pub'.displaced = more /\ pub'.desired = pub.desired \ {k}
      /\ pub'.next = [pub.next EXCEPT ![k] = g] /\ pub.next \in [Checks -> Nat]
  BY <1>1, <1>2 DEF Publications
<1>0. \A i \in DOMAIN more :
        \/ i \in DOMAIN pub.displaced /\ more[i] = pub.displaced[i]
        \/ registry[k] # 0 /\ more[i] = registry[k]
  BY <1>2 DEF Publications
<1> HIDE DEF g, more
<1>7. PublisherTypeOK'
  <2>1. <<[kind |-> "Added", gen |-> g]>> \in Seq([kind : {"Added", "Removed"}, gen : Nat])
    <3>1. [kind |-> "Added", gen |-> g] \in [kind : {"Added", "Removed"}, gen : Nat]
      BY <1>3
    <3> QED BY <3>1
  <2>2. pub' \in Publications
    BY <1>1, <1>2, <1>3, <1>5, <2>1 DEF Publications
  <2> QED BY <1>1, <1>2, <1>3, <1>4, <2>2 DEF ServeInv, PublisherTypeOK, ExecOK, ExecIsRecord
<1>8. KeysMatch'
  <2> SUFFICES ASSUME NEW j \in Checks
      PROVE  /\ active[j] # 0 => active[j] \in Known' /\ registrations'[active[j]].key = j
             /\ registry'[j] # 0 => registry'[j] \in Known' /\ registrations'[registry'[j]].key = j
    BY <1>1 DEF KeysMatch, KeyOf
  <2>1. /\ active[j] # 0 => active[j] \in Known /\ registrations[active[j]].key = j
        /\ registry[j] # 0 => registry[j] \in Known /\ registrations[registry[j]].key = j
    BY DEF ServeInv, KeysMatch, KeyOf
  <2>2. CASE j = k
    <3>1. registry'[j] = g
      BY <1>1, <1>2, <2>2
    <3>2. registrations'[g].key = j
      BY <1>4, <2>2
    <3> QED BY <1>4, <2>1, <3>1, <3>2
  <2>3. CASE j # k
    <3>1. registry'[j] = registry[j]
      BY <1>1, <1>2, <2>3
    <3> QED BY <1>4, <2>1, <3>1
  <2> QED BY <2>2, <2>3
<1>9. ActiveServes' /\ StoredIsSnapshot' /\ StopsKnown'
  BY <1>1, <1>4, <1>6 DEF ServeInv, ActiveServes, IsFor, StoredIsSnapshot, StopsKnown
<1>10. NextServes'
  <2> SUFFICES ASSUME NEW j \in Checks
      PROVE /\ pub'.next[j] # 0 =>
                 /\ j \notin pub'.desired /\ pub'.next[j] \in Known'
                 /\ registrations'[pub'.next[j]] = [key |-> j, service |-> pub'.snapshot[j]]
            /\ j \notin pub'.desired /\ pub'.snapshot[j] # NoService => pub'.next[j] # 0
    BY DEF NextServes, IsFor
  <2>1. CASE j = k
    BY <1>3, <1>4, <1>6, <2>1
  <2>2. CASE j # k
    <3>1. /\ pub.next[j] # 0 =>
               /\ j \notin pub.desired /\ pub.next[j] \in Known
               /\ registrations[pub.next[j]] = [key |-> j, service |-> pub.snapshot[j]]
          /\ j \notin pub.desired /\ pub.snapshot[j] # NoService => pub.next[j] # 0
      BY <1>1 DEF ServeInv, NextServes, IsFor
    <3>2. pub'.next[j] = pub.next[j]
      BY <1>6, <2>2
    <3> QED BY <1>4, <1>6, <2>2, <3>1, <3>2
  <2> QED BY <2>1, <2>2
<1>11. DisplacedApart'
  <2>1. \A i \in DOMAIN pub.displaced : pub.displaced[i] \in Known
           /\ registrations[pub.displaced[i]].key \notin pub.desired
           /\ \A j \in Checks : pub.next[j] # pub.displaced[i]
    BY DEF ServeInv, DisplacedApart, KeyOf
  <2>2. registry[k] # 0 => /\ registry[k] \in Known
                           /\ registrations[registry[k]].key = k
                           /\ \A j \in Checks : pub.next[j] # registry[k]
    <3> SUFFICES ASSUME registry[k] # 0, NEW j \in Checks, pub.next[j] = registry[k] PROVE FALSE
      BY DEF ServeInv, KeysMatch, KeyOf
    <3>1. registrations[registry[k]].key = k
      BY DEF ServeInv, KeysMatch, KeyOf
    <3>2. j \notin pub.desired /\ registrations[pub.next[j]] = [key |-> j, service |-> pub.snapshot[j]]
      BY <1>1 DEF ServeInv, NextServes, IsFor
    <3> QED BY <1>1, <3>1, <3>2
  <2> SUFFICES ASSUME NEW i \in DOMAIN more
      PROVE  /\ more[i] \in Known' /\ registrations'[more[i]].key \notin pub'.desired
             /\ \A j \in Checks : pub'.next[j] # more[i]
    BY <1>6 DEF DisplacedApart, KeyOf
  <2>3. CASE i \in DOMAIN pub.displaced /\ more[i] = pub.displaced[i]
    BY <1>3, <1>4, <1>6, <2>1, <2>3
  <2>4. CASE registry[k] # 0 /\ more[i] = registry[k]
    BY <1>3, <1>4, <1>6, <2>2, <2>4
  <2> QED BY <1>0, <2>3, <2>4
<1>12. RemovedApart'
  BY <1>1, <1>6 DEF ServeInv, RemovedApart
<1>13. NotStopped'
  BY <1>1, <1>3, <1>6 DEF ServeInv, NotStopped, StopsKnown, ShuttingDown
<1> QED BY <1>7, <1>8, <1>9, <1>10, <1>11, <1>12, <1>13 DEF ServeInv

\* Sending an update, which the broadcast channel may lose, moves no registration.
LEMMA ServeInvNotify == ServeInv /\ NotifyUpdate => ServeInv'
<1> SUFFICES ASSUME ServeInv, NotifyUpdate PROVE ServeInv'
  OBVIOUS
<1>1. /\ pub' = [pub EXCEPT !.update = <<>>]
      /\ UNCHANGED <<current, active, registrations, registry, stop, exec>>
  BY DEF NotifyUpdate, registryVars, executorVars
<1>2. pub \in Publications /\ pub' \in Publications
  <2>1. pub \in Publications
    BY DEF ServeInv, PublisherTypeOK
  <2>2. <<>> \in Seq([kind : {"Added", "Removed"}, gen : Nat])
    OBVIOUS
  <2> QED BY <1>1, <2>1, <2>2 DEF Publications
<1>3. /\ pub'.pc = pub.pc /\ pub'.snapshot = pub.snapshot /\ pub'.removed = pub.removed
      /\ pub'.displaced = pub.displaced /\ pub'.desired = pub.desired /\ pub'.next = pub.next
  BY <1>1, <1>2 DEF Publications
<1>4. PublisherTypeOK'
  BY <1>1, <1>2 DEF ServeInv, PublisherTypeOK, ExecOK, ExecIsRecord
<1>5. KeysMatch' /\ ActiveServes' /\ NextServes' /\ StoredIsSnapshot' /\ DisplacedApart'
      /\ RemovedApart'
  BY <1>1, <1>3 DEF ServeInv, KeysMatch, KeyOf, ActiveServes, NextServes, IsFor,
     StoredIsSnapshot, DisplacedApart, RemovedApart, Known
<1>6. NotStopped' /\ StopsKnown'
  BY <1>1, <1>3 DEF ServeInv, NotStopped, StopsKnown, Known, ShuttingDown
<1> QED BY <1>4, <1>5, <1>6 DEF ServeInv

\* The new snapshot is stored: what is served is now what is in the next set.
LEMMA ServeInvStore == ServeInv /\ StoreSnapshot => ServeInv'
<1> SUFFICES ASSUME ServeInv, StoreSnapshot PROVE ServeInv'
  OBVIOUS
<1> DEFINE gone == {k \in Checks : active[k] # 0 /\ pub.next[k] = 0}
<1>1. /\ pub.pc = "register" /\ pub.desired = {} /\ current' = pub.snapshot
      /\ pub' = [pub EXCEPT !.pc = "stored", !.removed = gone]
      /\ UNCHANGED <<active, registrations, registry, stop, exec>>
  BY DEF StoreSnapshot, Publishing, registryVars, executorVars
<1>2. pub \in Publications /\ pub' \in Publications /\ pub.snapshot \in [Checks -> Services]
  BY <1>1 DEF ServeInv, PublisherTypeOK, Publications
<1>3. /\ pub'.pc = "stored" /\ pub'.snapshot = pub.snapshot /\ pub'.removed = gone
      /\ pub'.displaced = pub.displaced /\ pub'.desired = pub.desired /\ pub'.next = pub.next
  BY <1>1, <1>2 DEF Publications
<1>4. PublisherTypeOK'
  BY <1>1, <1>2 DEF ServeInv, PublisherTypeOK, ExecOK, ExecIsRecord
<1>5. KeysMatch' /\ ActiveServes' /\ StoredIsSnapshot' /\ DisplacedApart'
  BY <1>1, <1>3 DEF ServeInv, KeysMatch, KeyOf, ActiveServes, StoredIsSnapshot,
     DisplacedApart, Known
<1>6. NextServes' /\ RemovedApart'
  BY <1>1, <1>3 DEF ServeInv, NextServes, IsFor, RemovedApart, Known
<1>7. NotStopped' /\ StopsKnown'
  BY <1>1, <1>3 DEF ServeInv, NotStopped, StopsKnown, Known, ShuttingDown
<1> QED BY <1>4, <1>5, <1>6, <1>7 DEF ServeInv

\* What the publisher stops after the snapshot is stored is no longer in next.
LEMMA ServeInvDiscard == ServeInv /\ Discard => ServeInv'
<1> SUFFICES ASSUME ServeInv, Discard PROVE ServeInv'
  OBVIOUS
<1> DEFINE g == Head(pub.displaced)
<1> DEFINE update == <<[kind |-> "Removed", gen |-> g]>>
<1>1. /\ pub.pc = "stored" /\ pub.displaced # <<>> /\ stop' = stop \cup {g}
      /\ pub' = [pub EXCEPT !.displaced = Tail(@), !.update = update]
      /\ UNCHANGED <<current, active, registrations, registry, exec>>
  BY DEF Discard, MayDiscard, Publishing, executorVars
<1>2. pub \in Publications /\ pub.displaced \in Seq(Nat)
  BY DEF ServeInv, PublisherTypeOK, Publications
<1>3. /\ g \in Nat /\ 1 \in DOMAIN pub.displaced /\ g = pub.displaced[1]
      /\ Tail(pub.displaced) \in Seq(Nat)
      /\ \A i \in DOMAIN Tail(pub.displaced) :
           i + 1 \in DOMAIN pub.displaced /\ Tail(pub.displaced)[i] = pub.displaced[i + 1]
  BY <1>1, <1>2
<1>4. update \in Seq([kind : {"Added", "Removed"}, gen : Nat])
  <2>1. [kind |-> "Removed", gen |-> g] \in [kind : {"Added", "Removed"}, gen : Nat]
    BY <1>3
  <2> QED BY <2>1
<1>5. /\ pub'.pc = "stored" /\ pub'.snapshot = pub.snapshot /\ pub'.removed = pub.removed
      /\ pub'.displaced = Tail(pub.displaced) /\ pub'.desired = pub.desired /\ pub'.next = pub.next
  BY <1>1, <1>2 DEF Publications
<1>6. g \in Known /\ \A k \in Checks : pub.next[k] # g
  BY <1>3 DEF ServeInv, DisplacedApart
<1> HIDE DEF g, update
<1>7. PublisherTypeOK'
  <2>1. pub' \in Publications
    BY <1>1, <1>2, <1>3, <1>4 DEF Publications
  <2> QED BY <1>1, <2>1 DEF ServeInv, PublisherTypeOK, ExecOK, ExecIsRecord
<1>8. KeysMatch' /\ ActiveServes' /\ NextServes' /\ StoredIsSnapshot' /\ RemovedApart'
  BY <1>1, <1>5 DEF ServeInv, KeysMatch, KeyOf, ActiveServes, NextServes, IsFor,
     StoredIsSnapshot, RemovedApart, Known
<1>9. DisplacedApart'
  <2>1. \A i \in DOMAIN pub.displaced : pub.displaced[i] \in Known
           /\ registrations[pub.displaced[i]].key \notin pub.desired
           /\ \A k \in Checks : pub.next[k] # pub.displaced[i]
    BY DEF ServeInv, DisplacedApart, KeyOf
  <2> QED BY <1>1, <1>3, <1>5, <2>1 DEF DisplacedApart, KeyOf, Known
<1>10. NotStopped' /\ StopsKnown'
  BY <1>1, <1>5, <1>6 DEF ServeInv, NotStopped, StopsKnown, Known, ShuttingDown
<1> QED BY <1>7, <1>8, <1>9, <1>10 DEF ServeInv

\* What the next set holds for a key is a registration of that key.
LEMMA NextHasKey ==
  ASSUME ServeInv, pub.pc # "idle", NEW k \in Checks, pub.next[k] # 0
  PROVE  pub.next[k] \in Known /\ registrations[pub.next[k]].key = k
<1>1. pub.next[k] \in Known
      /\ registrations[pub.next[k]] = [key |-> k, service |-> pub.snapshot[k]]
  BY DEF ServeInv, NextServes, IsFor
<1> QED BY <1>1

\* Only registrations that nobody serves any more are stopped.
LEMMA ServeInvUnregister ==
  ASSUME ServeInv, NEW k \in Checks, UnregisterUpstream(k)
  PROVE  ServeInv'
<1> DEFINE update == <<[kind |-> "Removed", gen |-> active[k]]>>
<1>1. /\ pub.pc = "stored" /\ k \in pub.removed /\ stop' = stop \cup {active[k]}
      /\ registry[k] = active[k] /\ registry' = [registry EXCEPT ![k] = 0]
      /\ pub' = [pub EXCEPT !.removed = @ \ {k}, !.update = update]
      /\ pub.displaced = <<>>
      /\ UNCHANGED <<current, active, registrations, exec>>
  BY DEF UnregisterUpstream, Publishing, executorVars
<1>2. pub \in Publications /\ active[k] \in Nat /\ registry \in [Checks -> Nat]
  BY DEF ServeInv, PublisherTypeOK
<1>3. update \in Seq([kind : {"Added", "Removed"}, gen : Nat])
  <2>1. [kind |-> "Removed", gen |-> active[k]] \in [kind : {"Added", "Removed"}, gen : Nat]
    BY <1>2
  <2> QED BY <2>1
<1>4. /\ pub'.pc = "stored" /\ pub'.snapshot = pub.snapshot /\ pub'.removed = pub.removed \ {k}
      /\ pub'.displaced = pub.displaced /\ pub'.desired = pub.desired /\ pub'.next = pub.next
  BY <1>1, <1>2 DEF Publications
<1>5. active[k] \in Known /\ \A j \in Checks : pub.next[j] # 0 => pub.next[j] # active[k]
  <2>1. active[k] \in Known /\ registrations[active[k]].key = k /\ pub.next[k] = 0
    BY <1>1 DEF ServeInv, KeysMatch, KeyOf, RemovedApart
  <2>2. \A j \in Checks : pub.next[j] # 0 =>
          registrations[pub.next[j]].key = j
    BY <1>1, NextHasKey
  <2> QED BY <2>1, <2>2
<1> HIDE DEF update
<1>6. PublisherTypeOK'
  <2>1. pub' \in Publications
    BY <1>1, <1>2, <1>3 DEF Publications
  <2> QED BY <1>1, <1>2, <2>1 DEF ServeInv, PublisherTypeOK, ExecOK, ExecIsRecord
<1>7. KeysMatch'
  BY <1>1, <1>2 DEF ServeInv, KeysMatch, KeyOf, Known
<1>8. ActiveServes' /\ NextServes' /\ StoredIsSnapshot' /\ RemovedApart' /\ DisplacedApart'
  BY <1>1, <1>4 DEF ServeInv, ActiveServes, NextServes, IsFor, StoredIsSnapshot, RemovedApart,
     DisplacedApart, Known, KeyOf
<1>9. NotStopped' /\ StopsKnown'
  BY <1>1, <1>4, <1>5 DEF ServeInv, NotStopped, StopsKnown, Known, ShuttingDown
<1> QED BY <1>6, <1>7, <1>8, <1>9 DEF ServeInv

\* publish returns: the next set has become the active one.
LEMMA ServeInvEnds == ServeInv /\ PublishEnds => ServeInv'
<1> SUFFICES ASSUME ServeInv, PublishEnds PROVE ServeInv'
  OBVIOUS
<1>1. /\ pub.pc = "stored" /\ active' = pub.next /\ pub' = NoPublish
      /\ UNCHANGED <<current, registrations, registry, stop, exec>>
  BY DEF PublishEnds, Publishing, registryVars, executorVars
<1>2. /\ pub'.pc = "idle" /\ pub'.removed = {} /\ pub'.displaced = <<>>
      /\ pub'.next = [k \in Checks |-> 0]
  BY <1>1 DEF NoPublish
<1>3. current = pub.snapshot /\ pub.desired = {} /\ pub.next \in [Checks -> Nat]
  BY <1>1 DEF ServeInv, StoredIsSnapshot, PublisherTypeOK, Publications
<1>4. PublisherTypeOK'
  <2>1. NoPublish \in Publications
    BY DEF NoPublish, Publications, Services
  <2> QED BY <1>1, <1>3, <2>1 DEF ServeInv, PublisherTypeOK, ExecOK, ExecIsRecord
<1>5. KeysMatch'
  <2>1. \A k \in Checks :
          pub.next[k] # 0 => pub.next[k] \in Known /\ registrations[pub.next[k]].key = k
    BY <1>1, NextHasKey
  <2> QED BY <1>1, <2>1 DEF ServeInv, KeysMatch, KeyOf, Known
<1>6. ActiveServes'
  BY <1>1, <1>3 DEF ServeInv, ActiveServes, NextServes, IsFor, Known
<1>7. NextServes' /\ StoredIsSnapshot' /\ DisplacedApart' /\ RemovedApart'
  BY <1>2 DEF NextServes, StoredIsSnapshot, DisplacedApart, RemovedApart
<1>8. NotStopped' /\ StopsKnown'
  BY <1>1, <1>2 DEF ServeInv, NotStopped, StopsKnown, Known, ShuttingDown
<1> QED BY <1>4, <1>5, <1>6, <1>7, <1>8 DEF ServeInv

\* The steps of publish and of the executor together.
LEMMA ServeInvNext == ServeInv /\ [Next]_vars => ServeInv'
<1> SUFFICES ASSUME ServeInv, [Next]_vars PROVE ServeInv'
  OBVIOUS
<1>1. CASE PublisherStep
  BY <1>1, ServeInvKeep, ServeInvRegister, ServeInvUnregister, ServeInvNotify, ServeInvStore,
     ServeInvDiscard, ServeInvEnds DEF PublisherStep
<1>2. CASE \E snapshot \in Snapshots : PublishBegins(snapshot)
  BY <1>2, ServeInvBegins
<1>3. CASE ExecutorStep
  BY <1>3, ServeInvExecutor
<1>4. CASE \/ \E g \in Generations : CheckStops(g) \/ CheckExits(g)
           \/ RequestShutdown
           \/ UNCHANGED vars
  <2>1. UNCHANGED <<current, active, pub, registrations, registry, stop, exec>>
    BY <1>4 DEF CheckStops, CheckExits, RequestShutdown, vars, storeVars, registryVars, executorVars
  <2>2. ExecOK' /\ (ShuttingDown => ShuttingDown')
    BY <2>1 DEF ServeInv, PublisherTypeOK, ExecOK, ExecIsRecord, ShuttingDown
  <2> QED BY <2>1, <2>2, ServeInvOthers
<1> QED BY <1>1, <1>2, <1>3, <1>4 DEF Next

\* Requests are never served from a load balancer without a registration of its
\* own that has not been told to stop: RuntimeStore::publish registers before it
\* stores and discards after it, and generations are never shared.
THEOREM ServedAlwaysRegistered == Spec => []ServedIsRegistered
<1> QED BY ServeInvInit, ServeInvNext, ServeInvImplies, PTL DEF Spec

--------------------------------------------------------------------------------
(* What is taken down no longer serves. *)

Updates == [kind : {"Added", "Removed"}, gen : Nat]

\* The generations the executor works with have been registered.
GensKnown ==
  /\ running \in SUBSET Known /\ exec.found \in SUBSET Known
  /\ events \in Seq(Updates)
  /\ \A i \in DOMAIN events : events[i].gen \in Known
  /\ \A i \in DOMAIN pub.update : pub.update[i].gen \in Known

\* A publication registers each key once at most.
Counted ==
  /\ publishes \in 0..MaxPublishes
  /\ pub.pc # "register" => pub.desired = {}
  /\ Len(registrations) + Cardinality(pub.desired) <= publishes * Cardinality(Checks)

\* A load balancer is built by one of the publications so far.
BuiltBefore(s) == s.built \in 1..publishes
BuiltBounded ==
  /\ \A g \in Known : BuiltBefore(registrations[g].service)
  /\ \A k \in Checks :
       /\ current[k] = NoService \/ BuiltBefore(current[k])
       /\ pub.pc = "register" => pub.snapshot[k] = NoService \/ BuiltBefore(pub.snapshot[k])
       /\ k \in pub.desired => pub.snapshot[k] # NoService

\* The load balancer of g neither serves requests nor will again.
Retired(g) ==
  /\ current[KeyOf(g)] # registrations[g].service
  /\ pub.pc = "register" => pub.snapshot[KeyOf(g)] # registrations[g].service

UpdatesRetired ==
  /\ \A i \in DOMAIN events : events[i].kind = "Removed" => Retired(events[i].gen)
  /\ \A i \in DOMAIN pub.update : pub.update[i].kind = "Removed" => Retired(pub.update[i].gen)

DisplacedRetired ==
  \A i \in DOMAIN pub.displaced :
    pub.snapshot[KeyOf(pub.displaced[i])] # registrations[pub.displaced[i]].service

\* Between publications the registry is the active set; publish moves it on key by
\* key, and at the end takes out what is not in the new set.
RegistryFollows ==
  \A k \in Checks :
    /\ pub.pc = "idle" => registry[k] = active[k]
    /\ pub.pc # "idle" /\ pub.next[k] # 0 => registry[k] = pub.next[k]
    /\ pub.pc = "register" /\ pub.next[k] = 0 => registry[k] = active[k]
    /\ pub.pc = "stored" /\ pub.next[k] = 0 =>
         registry[k] = IF k \in pub.removed THEN active[k] ELSE 0

RetireInv ==
  GensKnown /\ Counted /\ BuiltBounded /\ UpdatesRetired /\ DisplacedRetired /\ RegistryFollows

\* Nothing is registered before the first publication.
LEMMA RetireInvInit == Init => RetireInv
<1> SUFFICES ASSUME Init PROVE RetireInv
  OBVIOUS
<1>1. /\ events = <<>> /\ running = {} /\ exec.found = {} /\ registrations = <<>>
      /\ publishes = 0 /\ pub = NoPublish /\ pub.pc = "idle" /\ pub.update = <<>>
      /\ pub.desired = {} /\ pub.displaced = <<>>
      /\ current = [k \in Checks |-> NoService] /\ active = [k \in Checks |-> 0]
      /\ registry = [k \in Checks |-> 0]
  BY DEF Init, NoPublish
<1>2. GensKnown
  BY <1>1 DEF GensKnown, Known
<1>3. Counted
  <2>1. Cardinality({}) = 0 /\ Len(<<>>) = 0 /\ Cardinality(Checks) \in Nat /\ MaxPublishes \in Nat
    BY FS_EmptySet, FS_CardinalityType, CheckAssumption
  <2> QED BY <1>1, <2>1 DEF Counted
<1>4. BuiltBounded /\ UpdatesRetired /\ DisplacedRetired /\ RegistryFollows
  BY <1>1 DEF BuiltBounded, UpdatesRetired, DisplacedRetired, RegistryFollows, Known
<1> QED BY <1>2, <1>3, <1>4 DEF RetireInv

\* The executor and the checks leave the publisher alone, and receive updates in
\* order or lose them.
LEMMA RetireInvOthers ==
  ASSUME RetireInv, UNCHANGED <<current, active, pub, publishes, registrations, registry>>,
         running' \in SUBSET Known, exec'.found \in SUBSET Known, events' \in Seq(Updates),
         \A i \in DOMAIN events' : \E j \in DOMAIN events : events'[i] = events[j]
  PROVE  RetireInv'
<1>1. Known' = Known
  BY DEF Known
<1>2. GensKnown'
  BY <1>1 DEF RetireInv, GensKnown
<1>3. Counted' /\ BuiltBounded' /\ DisplacedRetired' /\ RegistryFollows'
  BY <1>1 DEF RetireInv, Counted, BuiltBounded, BuiltBefore, DisplacedRetired, RegistryFollows, KeyOf
<1>4. \A g : Retired(g)' <=> Retired(g)
  BY DEF Retired, KeyOf
<1>5. UpdatesRetired'
  BY <1>4 DEF RetireInv, UpdatesRetired
<1> QED BY <1>2, <1>3, <1>5 DEF RetireInv

\* Receiving takes the first update.
LEMMA HeadTail ==
  ASSUME NEW s \in Seq(Updates), s # <<>>
  PROVE  /\ Head(s) = s[1] /\ 1 \in DOMAIN s /\ Tail(s) \in Seq(Updates)
         /\ \A i \in DOMAIN Tail(s) : \E j \in DOMAIN s : Tail(s)[i] = s[j]
<1>1. \A i \in DOMAIN Tail(s) : i + 1 \in DOMAIN s /\ Tail(s)[i] = s[i + 1]
  OBVIOUS
<1> QED BY <1>1

\* start_task takes a generation it was given.
LEMMA StartTaskKnown ==
  ASSUME running \in SUBSET Known, NEW g \in Known, StartTask(g)
  PROVE  running' \in SUBSET Known /\ running \subseteq running'
BY DEF StartTask

\* The steps of the executor.
LEMMA RetireInvExecutor ==
  ASSUME ServeInv, RetireInv, ExecutorStep
  PROVE  RetireInv'
<1>1. /\ UNCHANGED <<current, active, pub, publishes, registrations, registry>>
      /\ Known' = Known
  BY DEF ExecutorStep, ExecutorStarts, ReadKey, StartFound, ReceiveAdded, ReceiveRemoved,
     ReceiveLagged, JoinTask, TaskStopped, StopStale, Tick, CollectFinished, RestartFinished,
     ExecutorShutsDown, RequestShutdownAll, ExecutorStopped, environmentVars, storeVars,
     registryVars, Known
<1>2. /\ running \in SUBSET Known /\ exec.found \in SUBSET Known /\ events \in Seq(Updates)
      /\ \A i \in DOMAIN events : events[i].gen \in Known
  BY DEF RetireInv, GensKnown
<1>3. \A k \in Checks : {registry[k]} \ {0} \in SUBSET Known
  BY DEF ServeInv, KeysMatch
<1>4. ExecIsRecord /\ exec.unread \in SUBSET Checks
  BY DEF ServeInv, PublisherTypeOK, ExecOK
<1>5. running' \in SUBSET Known /\ exec'.found \in SUBSET Known
  <2>1. CASE ExecutorStarts
    BY <1>2, <2>1 DEF ExecutorStarts, Enumerate
  <2>2. CASE \E k \in Checks : ReadKey(k)
    BY <1>2, <1>3, <1>4, <2>2 DEF ReadKey, ExecIsRecord
  <2>3. CASE StartFound
    <3>1. CASE \E g \in exec.found : StartTask(g) /\ exec' = [exec EXCEPT !.found = @ \ {g}]
      <4>1. PICK g \in exec.found : StartTask(g) /\ exec' = [exec EXCEPT !.found = @ \ {g}]
        BY <3>1
      <4>2. running' \in SUBSET Known
        BY <1>2, <4>1, StartTaskKnown
      <4> QED BY <1>2, <1>4, <4>1, <4>2 DEF ExecIsRecord
    <3>2. CASE exec' = Goto(IF exec.pc = "boot" THEN "loop" ELSE "finished")
               /\ UNCHANGED <<running, alive>>
      BY <1>2, <3>2 DEF Goto
    <3> QED BY <2>3, <3>1, <3>2 DEF StartFound
  <2>4. CASE ReceiveAdded
    <3>1. Head(events).gen \in Known /\ StartTask(Head(events).gen)
      BY <1>2, <2>4, HeadTail DEF ReceiveAdded
    <3>2. running' \in SUBSET Known
      BY <1>2, <3>1, StartTaskKnown
    <3> QED BY <1>2, <2>4, <3>2 DEF ReceiveAdded, Goto
  <2>5. CASE ReceiveRemoved
    BY <1>2, <2>5 DEF ReceiveRemoved, Goto
  <2>6. CASE ReceiveLagged
    BY <1>2, <2>6 DEF ReceiveLagged, Enumerate
  <2>7. CASE JoinTask \/ TaskStopped
    BY <1>2, <2>7 DEF JoinTask, TaskStopped, Goto
  <2>8. CASE StopStale
    BY <1>2, <2>8 DEF StopStale, Enumerate
  <2>9. CASE Tick \/ ExecutorShutsDown \/ ExecutorStopped
    BY <1>2, <2>9 DEF Tick, ExecutorShutsDown, ExecutorStopped, Goto, Enumerate
  <2>10. CASE CollectFinished
    BY <1>2, <1>4, <2>10 DEF CollectFinished, ExecIsRecord
  <2>11. CASE RestartFinished
    BY <1>2, <1>4, <2>11 DEF RestartFinished, ExecIsRecord, Goto
  <2>12. CASE RequestShutdownAll
    BY <1>2, <1>4, <2>12 DEF RequestShutdownAll, ExecIsRecord, Goto
  <2> QED BY <2>1, <2>2, <2>3, <2>4, <2>5, <2>6, <2>7, <2>8, <2>9, <2>10, <2>11, <2>12
          DEF ExecutorStep
<1>6. events' \in Seq(Updates) /\ \A i \in DOMAIN events' : \E j \in DOMAIN events : events'[i] = events[j]
  <2>1. CASE ReceiveAdded \/ ReceiveRemoved
    <3>1. events # <<>> /\ events' = Tail(events)
      BY <2>1 DEF ReceiveAdded, ReceiveRemoved
    <3> QED BY <1>2, <3>1, HeadTail
  <2>2. CASE ExecutorStopped
    BY <2>2 DEF ExecutorStopped
  <2>3. CASE ~(ReceiveAdded \/ ReceiveRemoved) /\ ~ExecutorStopped
    <3>1. events' = events
      BY <2>3 DEF ExecutorStep, ExecutorStarts, ReadKey, StartFound, ReceiveLagged, JoinTask,
         TaskStopped, StopStale, Tick, CollectFinished, RestartFinished, ExecutorShutsDown,
         RequestShutdownAll, channelVars
    <3> QED BY <1>2, <3>1
  <2> QED BY <2>1, <2>2, <2>3
<1> QED BY <1>1, <1>2, <1>5, <1>6, RetireInvOthers

\* A publication adds one registration per key at most.
LEMMA OneMoreBatch ==
  ASSUME NEW p \in Nat, NEW n \in Nat, NEW l \in Nat, NEW d \in Nat, l <= p * n, d <= n
  PROVE  l + d <= (p + 1) * n
<1>1. (p + 1) * n = p * n + n
  OBVIOUS
<1>2. p * n \in Nat
  OBVIOUS
<1> QED BY <1>1, <1>2

\* The keys to look at are finitely many.
LEMMA DesiredFinite ==
  ASSUME ServeInv
  PROVE  IsFiniteSet(pub.desired) /\ Cardinality(pub.desired) \in Nat
<1>1. pub.desired \in SUBSET Checks /\ IsFiniteSet(Checks)
  BY CheckAssumption DEF ServeInv, PublisherTypeOK, Publications
<1> QED BY <1>1, FS_Subset, FS_CardinalityType

\* A registration is of one of the keys.
LEMMA KnownHasKey ==
  ASSUME ServeInv, NEW g \in Known
  PROVE  KeyOf(g) \in Checks
<1>1. registrations \in Seq([key : Checks, service : Services]) /\ g \in DOMAIN registrations
  BY DEF ServeInv, PublisherTypeOK, Known
<1>2. \A S : \A s \in Seq(S) : \A i \in DOMAIN s : s[i] \in S
  OBVIOUS
<1>3. registrations[g] \in [key : Checks, service : Services]
  BY <1>1, <1>2
<1> QED BY <1>3 DEF KeyOf

\* The snapshot in force at the beginning is the one the new one is built from.
LEMMA RetireInvBegins ==
  ASSUME ServeInv, RetireInv, NEW snapshot \in Snapshots, PublishBegins(snapshot)
  PROVE  RetireInv'
<1> DEFINE wanted == {k \in Checks : snapshot[k] # NoService}
<1>1. /\ pub.pc = "idle" /\ publishes < MaxPublishes /\ publishes' = publishes + 1
      /\ UNCHANGED <<current, active, registrations, registry, events, running, exec>>
  BY DEF PublishBegins, registryVars, channelVars, executorVars
<1>2. /\ pub'.pc = "register" /\ pub'.snapshot = snapshot /\ pub'.desired = wanted
      /\ pub'.next = [k \in Checks |-> 0] /\ pub'.displaced = <<>> /\ pub'.update = <<>>
  BY DEF PublishBegins, NoPublish
<1>3. \A k \in Checks : /\ snapshot[k] = NoService \/ snapshot[k] \in Service
                        /\ snapshot[k].built \in {0, publishes + 1, current[k].built}
                        /\ snapshot[k].built = current[k].built => snapshot[k] = current[k]
  BY DEF Snapshots
<1> HIDE DEF wanted
<1>4. publishes \in Nat /\ Known' = Known
  BY <1>1 DEF RetireInv, Counted, Known
<1>5. GensKnown'
  BY <1>1, <1>2, <1>4 DEF RetireInv, GensKnown
<1>6. Counted'
  <2>1. IsFiniteSet(wanted) /\ Cardinality(wanted) <= Cardinality(Checks)
        /\ Cardinality(wanted) \in Nat /\ Cardinality(Checks) \in Nat
    <3>1. wanted \in SUBSET Checks /\ IsFiniteSet(Checks)
      BY CheckAssumption DEF wanted
    <3> QED BY <3>1, FS_Subset, FS_CardinalityType
  <2>2. Len(registrations) \in Nat /\ Len(registrations) <= publishes * Cardinality(Checks)
    <3>1. pub.desired = {} /\ Cardinality({}) = 0 /\ Len(registrations) \in Nat
      BY <1>1, FS_EmptySet DEF RetireInv, Counted, ServeInv, PublisherTypeOK
    <3>2. Len(registrations) + Cardinality(pub.desired) <= publishes * Cardinality(Checks)
      BY DEF RetireInv, Counted
    <3> QED BY <3>1, <3>2
  <2>3. Len(registrations) + Cardinality(wanted) <= (publishes + 1) * Cardinality(Checks)
    BY <1>4, <2>1, <2>2, OneMoreBatch
  <2>4. publishes + 1 \in 0..MaxPublishes
    BY <1>1, <1>4, CheckAssumption
  <2> QED BY <1>1, <1>2, <2>3, <2>4 DEF Counted
<1>7. BuiltBounded'
  <2>1. \A s : BuiltBefore(s) => BuiltBefore(s)'
    BY <1>1, <1>4 DEF BuiltBefore
  <2>2. \A k \in Checks : current[k] = NoService \/ BuiltBefore(current[k])
    BY DEF RetireInv, BuiltBounded
  <2>3. \A k \in Checks : snapshot[k] = NoService \/ snapshot[k].built \in 1..(publishes + 1)
    <3> SUFFICES ASSUME NEW k \in Checks, snapshot[k] # NoService
                 PROVE  snapshot[k].built \in 1..(publishes + 1)
      OBVIOUS
    <3>1. snapshot[k] \in Service /\ snapshot[k].built # 0
      BY <1>3 DEF Service
    <3>2. snapshot[k].built = publishes + 1 \/ snapshot[k] = current[k]
      BY <1>3, <3>1
    <3> QED BY <1>4, <2>2, <3>2 DEF BuiltBefore
  <2>4. \A g \in Known : BuiltBefore(registrations[g].service)
    BY DEF RetireInv, BuiltBounded
  <2>5. \A k \in Checks : k \in pub'.desired => pub'.snapshot[k] # NoService
    BY <1>2 DEF wanted
  <2> QED BY <1>1, <1>2, <1>4, <2>1, <2>2, <2>3, <2>4, <2>5 DEF BuiltBounded, BuiltBefore
<1>8. UpdatesRetired'
  <2> SUFFICES ASSUME NEW i \in DOMAIN events, events[i].kind = "Removed"
               PROVE  Retired(events[i].gen)'
    BY <1>1, <1>2 DEF UpdatesRetired
  <2> DEFINE g == events[i].gen
  <2>1. g \in Known /\ current[KeyOf(g)] # registrations[g].service
    BY DEF RetireInv, GensKnown, UpdatesRetired, Retired
  <2>2. registrations[g].service.built \in 1..publishes
    BY <2>1 DEF RetireInv, BuiltBounded, BuiltBefore
  <2>3. KeyOf(g) \in Checks
    BY <2>1, KnownHasKey
  <2>4. snapshot[KeyOf(g)] # registrations[g].service
    BY <1>3, <1>4, <2>1, <2>2, <2>3
  <2> QED BY <1>1, <1>2, <2>1, <2>4 DEF Retired, KeyOf
<1>9. DisplacedRetired' /\ RegistryFollows'
  BY <1>1, <1>2 DEF RetireInv, DisplacedRetired, RegistryFollows
<1> QED BY <1>5, <1>6, <1>7, <1>8, <1>9 DEF RetireInv

\* A kept check has the registration it had.
LEMMA RetireInvKeep ==
  ASSUME ServeInv, RetireInv, NEW k \in Checks, KeepCheck(k)
  PROVE  RetireInv'
<1>1. /\ pub.pc = "register" /\ k \in pub.desired
      /\ pub' = [pub EXCEPT !.desired = @ \ {k}, !.next[k] = active[k]]
      /\ UNCHANGED <<current, active, publishes, registrations, registry, events, running, exec>>
  BY DEF KeepCheck, Publishing, registryVars, channelVars, executorVars
<1>2. pub \in Publications
  BY DEF ServeInv, PublisherTypeOK
<1>3. /\ pub'.pc = "register" /\ pub'.snapshot = pub.snapshot /\ pub'.update = pub.update
      /\ pub'.displaced = pub.displaced /\ pub'.desired = pub.desired \ {k}
      /\ pub'.next = [pub.next EXCEPT ![k] = active[k]] /\ pub.next \in [Checks -> Nat]
  BY <1>1, <1>2 DEF Publications
<1>4. Known' = Known
  BY <1>1 DEF Known
<1>5. GensKnown' /\ UpdatesRetired' /\ DisplacedRetired'
  BY <1>1, <1>3, <1>4 DEF RetireInv, GensKnown, UpdatesRetired, Retired, DisplacedRetired, KeyOf
<1>6. Counted'
  <2>1. Cardinality(pub.desired \ {k}) = Cardinality(pub.desired) - 1
        /\ Cardinality(pub.desired) \in Nat
    BY <1>1, DesiredFinite, FS_RemoveElement
  <2>2. Len(registrations) \in Nat /\ Cardinality(Checks) \in Nat /\ publishes \in Nat
    BY CheckAssumption, FS_CardinalityType DEF ServeInv, PublisherTypeOK, RetireInv, Counted
  <2>3. Len(registrations) + Cardinality(pub.desired) <= publishes * Cardinality(Checks)
    BY DEF RetireInv, Counted
  <2>4. Len(registrations) + Cardinality(pub.desired \ {k}) <= publishes * Cardinality(Checks)
    BY <2>1, <2>2, <2>3
  <2> QED BY <1>1, <1>3, <2>4 DEF RetireInv, Counted
<1>7. BuiltBounded'
  BY <1>1, <1>3, <1>4 DEF RetireInv, BuiltBounded, BuiltBefore
<1>8. RegistryFollows'
  <2>1. pub.next[k] = 0
    BY <1>1 DEF ServeInv, NextServes
  <2> QED BY <1>1, <1>3, <2>1 DEF RetireInv, RegistryFollows
<1> QED BY <1>5, <1>6, <1>7, <1>8 DEF RetireInv

\* A new check displaces the one its key had, whose load balancer is not the one
\* the new snapshot has under that key.
LEMMA RetireInvRegister ==
  ASSUME ServeInv, RetireInv, NEW k \in Checks, RegisterUpstream(k)
  PROVE  RetireInv'
<1> DEFINE g == Len(registrations) + 1
<1> DEFINE more == IF registry[k] = 0 THEN pub.displaced ELSE Append(pub.displaced, registry[k])
<1> DEFINE update == <<[kind |-> "Added", gen |-> g]>>
<1>1. /\ pub.pc = "register" /\ k \in pub.desired /\ ~Unchanged(k)
      /\ registrations' = Append(registrations, [key |-> k, service |-> pub.snapshot[k]])
      /\ registry' = [registry EXCEPT ![k] = g]
      /\ pub' = [pub EXCEPT !.desired = @ \ {k}, !.next[k] = g, !.displaced = more,
                            !.update = update]
      /\ UNCHANGED <<current, active, publishes, events, running, exec>>
  BY DEF RegisterUpstream, NextGeneration, Publishing, channelVars, executorVars
<1>2. /\ pub \in Publications /\ registry \in [Checks -> Nat]
      /\ registrations \in Seq([key : Checks, service : Services])
  BY DEF ServeInv, PublisherTypeOK
<1>3. /\ Known' = Known \cup {g} /\ g \notin Known /\ g # 0 /\ g \in Nat
      /\ registrations'[g] = [key |-> k, service |-> pub.snapshot[k]]
      /\ \A h \in Known : registrations'[h] = registrations[h]
      /\ Len(registrations') = Len(registrations) + 1 /\ Len(registrations) \in Nat
  <2>1. [key |-> k, service |-> pub.snapshot[k]] \in [key : Checks, service : Services]
    BY <1>2 DEF Publications
  <2> QED BY <1>1, <1>2, <2>1 DEF Known
<1>4. /\ pub'.pc = "register" /\ pub'.snapshot = pub.snapshot /\ pub'.update = update
      /\ pub'.displaced = more /\ pub'.desired = pub.desired \ {k}
      /\ pub'.next = [pub.next EXCEPT ![k] = g] /\ pub.next \in [Checks -> Nat]
  BY <1>1, <1>2 DEF Publications
<1>5. \A i \in DOMAIN more :
        \/ i \in DOMAIN pub.displaced /\ more[i] = pub.displaced[i]
        \/ registry[k] # 0 /\ more[i] = registry[k]
  BY <1>2 DEF Publications
<1>6. DOMAIN update = {1} /\ update[1].gen = g /\ update[1].kind = "Added"
  OBVIOUS
<1>7. pub.next[k] = 0 /\ registry[k] = active[k]
  <2>1. pub.next[k] = 0
    BY <1>1 DEF ServeInv, NextServes
  <2> QED BY <1>1, <2>1 DEF RetireInv, RegistryFollows
<1> HIDE DEF g, more, update
<1>8. GensKnown'
  <2>1. \A i \in DOMAIN events' : events'[i].gen \in Known'
    BY <1>1, <1>3 DEF RetireInv, GensKnown
  <2>2. \A i \in DOMAIN pub'.update : pub'.update[i].gen \in Known'
    BY <1>3, <1>4, <1>6
  <2> QED BY <1>1, <1>3, <2>1, <2>2 DEF RetireInv, GensKnown
<1>9. Counted'
  <2>1. Cardinality(pub.desired \ {k}) = Cardinality(pub.desired) - 1
        /\ Cardinality(pub.desired) \in Nat
    BY <1>1, DesiredFinite, FS_RemoveElement
  <2>2. Len(registrations) + Cardinality(pub.desired) <= publishes * Cardinality(Checks)
    BY DEF RetireInv, Counted
  <2>3. Len(registrations') + Cardinality(pub.desired \ {k}) = Len(registrations) + Cardinality(pub.desired)
    BY <1>3, <2>1
  <2> QED BY <1>1, <1>4, <2>2, <2>3 DEF RetireInv, Counted
<1>10. BuiltBounded'
  <2>1. pub.snapshot[k] # NoService /\ BuiltBefore(pub.snapshot[k])
    BY <1>1 DEF RetireInv, BuiltBounded
  <2>2. registrations'[g].service = pub.snapshot[k]
    BY <1>3
  <2>3. \A h \in Known' : BuiltBefore(registrations'[h].service)
    BY <1>3, <2>1, <2>2 DEF RetireInv, BuiltBounded
  <2> QED BY <1>1, <1>4, <2>3 DEF RetireInv, BuiltBounded, BuiltBefore
<1>11. \A h \in Known : Retired(h) => Retired(h)'
  BY <1>1, <1>3, <1>4 DEF Retired, KeyOf
<1>12. UpdatesRetired'
  <2>1. \A i \in DOMAIN pub'.update : pub'.update[i].kind # "Removed"
    BY <1>4, <1>6
  <2>2. ASSUME NEW i \in DOMAIN events', events'[i].kind = "Removed"
        PROVE  Retired(events[i].gen)'
    <3>1. PICK h : h = events[i].gen /\ h = events'[i].gen
      BY <1>1
    <3>2. h \in Known /\ Retired(h)
      BY <1>1, <2>2, <3>1 DEF RetireInv, UpdatesRetired, GensKnown
    <3>3. Retired(h)'
      BY <1>11, <3>2
    <3> QED BY <3>1, <3>3 DEF Retired, KeyOf
  <2> QED BY <2>1, <2>2 DEF UpdatesRetired
<1>13. DisplacedRetired'
  <2> SUFFICES ASSUME NEW i \in DOMAIN more
               PROVE  pub.snapshot[registrations'[more[i]].key] # registrations'[more[i]].service
    BY <1>4 DEF DisplacedRetired, KeyOf
  <2>1. CASE i \in DOMAIN pub.displaced /\ more[i] = pub.displaced[i]
    <3>1. pub.displaced[i] \in Known
      BY <2>1 DEF ServeInv, DisplacedApart
    <3>2. pub.snapshot[registrations[pub.displaced[i]].key] # registrations[pub.displaced[i]].service
      BY <2>1 DEF RetireInv, DisplacedRetired, KeyOf
    <3> QED BY <1>3, <2>1, <3>1, <3>2
  <2>2. CASE registry[k] # 0 /\ more[i] = registry[k]
    <3>1. registry[k] \in Known /\ registrations[registry[k]].key = k
      BY <2>2 DEF ServeInv, KeysMatch, KeyOf
    <3>2. registrations[registry[k]].service # pub.snapshot[k]
      BY <1>1, <1>7, <2>2 DEF Unchanged
    <3> QED BY <1>3, <2>2, <3>1, <3>2
  <2> QED BY <1>5, <2>1, <2>2
<1>14. RegistryFollows'
  BY <1>1, <1>2, <1>3, <1>4 DEF RetireInv, RegistryFollows
<1> QED BY <1>8, <1>9, <1>10, <1>12, <1>13, <1>14 DEF RetireInv

\* The update on its way joins those in the channel, or is lost.
LEMMA RetireInvNotify ==
  ASSUME ServeInv, RetireInv, NotifyUpdate
  PROVE  RetireInv'
<1>1. /\ pub.update # <<>> /\ pub' = [pub EXCEPT !.update = <<>>]
      /\ UNCHANGED <<current, active, publishes, registrations, registry, running, exec>>
      /\ \/ events' = events
         \/ events' = Append(events, pub.update[1])
         \/ Len(events) = Capacity /\ events' = Append(Tail(events), pub.update[1])
  BY DEF NotifyUpdate, registryVars, channelVars, executorVars
<1>2. pub \in Publications /\ pub.update \in Seq(Updates)
  BY DEF ServeInv, PublisherTypeOK, Publications, Updates
<1>3. /\ pub'.pc = pub.pc /\ pub'.snapshot = pub.snapshot /\ pub'.removed = pub.removed
      /\ pub'.displaced = pub.displaced /\ pub'.desired = pub.desired /\ pub'.next = pub.next
      /\ pub'.update = <<>>
  BY <1>1, <1>2 DEF Publications
<1>4. 1 \in DOMAIN pub.update /\ pub.update[1] \in Updates
  BY <1>1, <1>2
<1>5. /\ events' \in Seq(Updates)
      /\ \A i \in DOMAIN events' : \/ \E j \in DOMAIN events : events'[i] = events[j]
                                   \/ events'[i] = pub.update[1]
  <2>1. events \in Seq(Updates)
    BY DEF RetireInv, GensKnown
  <2>2. CASE events' = events \/ events' = Append(events, pub.update[1])
    BY <1>4, <2>1, <2>2
  <2>3. CASE Len(events) = Capacity /\ events' = Append(Tail(events), pub.update[1])
    <3>1. events # <<>>
      BY <2>1, <2>3, CheckAssumption
    <3> DEFINE rest == Tail(events)
    <3>2. rest \in Seq(Updates) /\ \A i \in DOMAIN rest : \E j \in DOMAIN events : rest[i] = events[j]
      BY <2>1, <3>1, HeadTail
    <3>3. events' = Append(rest, pub.update[1])
      BY <2>3
    <3> HIDE DEF rest
    <3>4. events' \in Seq(Updates)
          /\ \A i \in DOMAIN events' : (i \in DOMAIN rest /\ events'[i] = rest[i]) \/ events'[i] = pub.update[1]
      BY <1>4, <3>2, <3>3
    <3> QED BY <3>2, <3>4
  <2> QED BY <1>1, <2>2, <2>3
<1>6. Known' = Known /\ \A h : Retired(h)' <=> Retired(h)
  BY <1>1, <1>3 DEF Known, Retired, KeyOf
<1>7. GensKnown'
  <2>1. \A i \in DOMAIN events' : events'[i].gen \in Known
    BY <1>4, <1>5 DEF RetireInv, GensKnown
  <2> QED BY <1>1, <1>3, <1>5, <1>6, <2>1 DEF RetireInv, GensKnown
<1>8. UpdatesRetired'
  <2>1. \A i \in DOMAIN events' : events'[i].kind = "Removed" => Retired(events'[i].gen)
    BY <1>4, <1>5 DEF RetireInv, UpdatesRetired
  <2> QED BY <1>3, <1>6, <2>1 DEF UpdatesRetired
<1>9. Counted' /\ BuiltBounded' /\ DisplacedRetired' /\ RegistryFollows'
  BY <1>1, <1>3, <1>6 DEF RetireInv, Counted, BuiltBounded, BuiltBefore, DisplacedRetired,
     RegistryFollows, KeyOf
<1> QED BY <1>7, <1>8, <1>9 DEF RetireInv

\* The new snapshot takes over, and with it what the next set says.
LEMMA RetireInvStore ==
  ASSUME ServeInv, RetireInv, StoreSnapshot
  PROVE  RetireInv'
<1> DEFINE gone == {k \in Checks : active[k] # 0 /\ pub.next[k] = 0}
<1>1. /\ pub.pc = "register" /\ pub.desired = {} /\ current' = pub.snapshot
      /\ pub' = [pub EXCEPT !.pc = "stored", !.removed = gone]
      /\ UNCHANGED <<active, publishes, registrations, registry, events, running, exec>>
  BY DEF StoreSnapshot, Publishing, registryVars, channelVars, executorVars
<1>2. pub \in Publications /\ active \in [Checks -> Nat]
  BY DEF ServeInv, PublisherTypeOK
<1>3. /\ pub'.pc = "stored" /\ pub'.snapshot = pub.snapshot /\ pub'.removed = gone
      /\ pub'.displaced = pub.displaced /\ pub'.desired = {} /\ pub'.next = pub.next
      /\ pub'.update = pub.update
  BY <1>1, <1>2 DEF Publications
<1>4. Known' = Known /\ \A h : Retired(h) => Retired(h)'
  BY <1>1, <1>3 DEF Known, Retired, KeyOf
<1>5. GensKnown' /\ DisplacedRetired'
  BY <1>1, <1>3, <1>4 DEF RetireInv, GensKnown, DisplacedRetired, KeyOf
<1>6. Counted'
  BY <1>1, <1>3 DEF RetireInv, Counted
<1>7. BuiltBounded'
  BY <1>1, <1>3, <1>4 DEF RetireInv, BuiltBounded, BuiltBefore
<1>8. UpdatesRetired'
  BY <1>1, <1>3, <1>4 DEF RetireInv, UpdatesRetired, Retired, KeyOf
<1>9. RegistryFollows'
  BY <1>1, <1>3 DEF RetireInv, RegistryFollows
<1> QED BY <1>5, <1>6, <1>7, <1>8, <1>9 DEF RetireInv

\* A displaced check is announced as removed after its snapshot is gone.
LEMMA RetireInvDiscard ==
  ASSUME ServeInv, RetireInv, Discard
  PROVE  RetireInv'
<1> DEFINE g == Head(pub.displaced)
<1> DEFINE update == <<[kind |-> "Removed", gen |-> g]>>
<1> DEFINE rest == Tail(pub.displaced)
<1>1. /\ pub.pc = "stored" /\ pub.displaced # <<>>
      /\ pub' = [pub EXCEPT !.displaced = rest, !.update = update]
      /\ UNCHANGED <<current, active, publishes, registrations, registry, events, running, exec>>
  BY DEF Discard, MayDiscard, Publishing, channelVars, executorVars
<1>2. pub \in Publications /\ pub.displaced \in Seq(Nat)
  BY DEF ServeInv, PublisherTypeOK, Publications
<1>3. /\ 1 \in DOMAIN pub.displaced /\ g = pub.displaced[1]
      /\ \A i \in DOMAIN rest : i + 1 \in DOMAIN pub.displaced /\ rest[i] = pub.displaced[i + 1]
  BY <1>1, <1>2
<1>4. DOMAIN update = {1} /\ update[1].gen = g
  OBVIOUS
<1> HIDE DEF g, update, rest
<1>5. /\ pub'.pc = "stored" /\ pub'.snapshot = pub.snapshot /\ pub'.removed = pub.removed
      /\ pub'.displaced = rest /\ pub'.desired = pub.desired /\ pub'.next = pub.next
      /\ pub'.update = update
  BY <1>1, <1>2 DEF Publications
<1>6. Known' = Known /\ \A h : Retired(h)' <=> Retired(h)
  BY <1>1, <1>5 DEF Known, Retired, KeyOf
<1>7. g \in Known /\ Retired(g)
  <2>1. g \in Known
    BY <1>3 DEF ServeInv, DisplacedApart
  <2>2. pub.snapshot[KeyOf(g)] # registrations[g].service
    BY <1>3 DEF RetireInv, DisplacedRetired
  <2>3. current = pub.snapshot
    BY <1>1 DEF ServeInv, StoredIsSnapshot
  <2> QED BY <1>1, <2>1, <2>2, <2>3 DEF Retired
<1>8. GensKnown'
  <2>1. \A i \in DOMAIN pub'.update : pub'.update[i].gen \in Known
    BY <1>4, <1>5, <1>7
  <2> QED BY <1>1, <1>6, <2>1 DEF RetireInv, GensKnown
<1>9. UpdatesRetired'
  <2>1. \A i \in DOMAIN pub'.update : Retired(pub'.update[i].gen)
    BY <1>4, <1>5, <1>7
  <2> QED BY <1>1, <1>6, <2>1 DEF RetireInv, UpdatesRetired
<1>10. DisplacedRetired'
  BY <1>1, <1>3, <1>5 DEF RetireInv, DisplacedRetired, KeyOf
<1>11. Counted' /\ BuiltBounded' /\ RegistryFollows'
  BY <1>1, <1>5, <1>6 DEF RetireInv, Counted, BuiltBounded, BuiltBefore, RegistryFollows
<1> QED BY <1>8, <1>9, <1>10, <1>11 DEF RetireInv

\* A key the new snapshot does not have is announced as removed.
LEMMA RetireInvUnregister ==
  ASSUME ServeInv, RetireInv, NEW k \in Checks, UnregisterUpstream(k)
  PROVE  RetireInv'
<1> DEFINE g == active[k]
<1> DEFINE update == <<[kind |-> "Removed", gen |-> g]>>
<1>1. /\ pub.pc = "stored" /\ k \in pub.removed
      /\ registry' = [registry EXCEPT ![k] = 0]
      /\ pub' = [pub EXCEPT !.removed = @ \ {k}, !.update = update]
      /\ UNCHANGED <<current, active, publishes, registrations, events, running, exec>>
  BY DEF UnregisterUpstream, Publishing, channelVars, executorVars
<1>2. pub \in Publications /\ registry \in [Checks -> Nat]
  BY DEF ServeInv, PublisherTypeOK
<1>3. DOMAIN update = {1} /\ update[1].gen = g
  OBVIOUS
<1> HIDE DEF g, update
<1>4. /\ pub'.pc = "stored" /\ pub'.snapshot = pub.snapshot /\ pub'.removed = pub.removed \ {k}
      /\ pub'.displaced = pub.displaced /\ pub'.desired = pub.desired /\ pub'.next = pub.next
      /\ pub'.update = update
  BY <1>1, <1>2 DEF Publications
<1>5. Known' = Known /\ \A h : Retired(h)' <=> Retired(h)
  BY <1>1, <1>4 DEF Known, Retired, KeyOf
<1>6. g \in Known /\ Retired(g)
  <2>1. g \in Known /\ KeyOf(g) = k /\ pub.next[k] = 0
    BY <1>1 DEF ServeInv, KeysMatch, RemovedApart, g
  <2>2. current[k] = NoService
    BY <1>1, <2>1 DEF ServeInv, NextServes, StoredIsSnapshot
  <2>3. registrations[g].service # NoService
    BY <2>1 DEF RetireInv, BuiltBounded, BuiltBefore, NoService
  <2> QED BY <1>1, <2>1, <2>2, <2>3 DEF Retired
<1>7. GensKnown'
  <2>1. \A i \in DOMAIN pub'.update : pub'.update[i].gen \in Known
    BY <1>3, <1>4, <1>6
  <2> QED BY <1>1, <1>5, <2>1 DEF RetireInv, GensKnown
<1>8. UpdatesRetired'
  <2>1. \A i \in DOMAIN pub'.update : Retired(pub'.update[i].gen)
    BY <1>3, <1>4, <1>6
  <2> QED BY <1>1, <1>5, <2>1 DEF RetireInv, UpdatesRetired
<1>9. Counted' /\ BuiltBounded' /\ DisplacedRetired'
  BY <1>1, <1>4, <1>5 DEF RetireInv, Counted, BuiltBounded, BuiltBefore, DisplacedRetired, KeyOf
<1>10. RegistryFollows'
  BY <1>1, <1>2, <1>4 DEF RetireInv, RegistryFollows, ServeInv, RemovedApart
<1> QED BY <1>7, <1>8, <1>9, <1>10 DEF RetireInv

\* The next set has become the active one, key by key.
LEMMA RetireInvEnds ==
  ASSUME ServeInv, RetireInv, PublishEnds
  PROVE  RetireInv'
<1>1. /\ pub.pc = "stored" /\ pub.removed = {} /\ active' = pub.next /\ pub' = NoPublish
      /\ UNCHANGED <<current, publishes, registrations, registry, events, running, exec>>
  BY DEF PublishEnds, Publishing, registryVars, channelVars, executorVars
<1>2. /\ pub'.pc = "idle" /\ pub'.desired = {} /\ pub'.displaced = <<>> /\ pub'.update = <<>>
  BY <1>1 DEF NoPublish
<1>3. pub.desired = {}
  BY <1>1 DEF ServeInv, StoredIsSnapshot
<1>4. Known' = Known /\ \A h : Retired(h) => Retired(h)'
  BY <1>1, <1>2 DEF Known, Retired, KeyOf
<1>5. GensKnown' /\ DisplacedRetired' /\ BuiltBounded'
  BY <1>1, <1>2, <1>4 DEF RetireInv, GensKnown, DisplacedRetired, BuiltBounded, BuiltBefore
<1>6. Counted'
  BY <1>1, <1>2, <1>3 DEF RetireInv, Counted
<1>7. UpdatesRetired'
  BY <1>1, <1>2, <1>4 DEF RetireInv, UpdatesRetired, Retired, KeyOf
<1>8. RegistryFollows'
  BY <1>1, <1>2 DEF RetireInv, RegistryFollows
<1> QED BY <1>5, <1>6, <1>7, <1>8 DEF RetireInv

\* The steps of publish, of the executor and of the checks together.
LEMMA RetireInvNext == ServeInv /\ RetireInv /\ [Next]_vars => RetireInv'
<1> SUFFICES ASSUME ServeInv, RetireInv, [Next]_vars PROVE RetireInv'
  OBVIOUS
<1>1. CASE PublisherStep
  BY <1>1, RetireInvKeep, RetireInvRegister, RetireInvUnregister, RetireInvNotify,
     RetireInvStore, RetireInvDiscard, RetireInvEnds DEF PublisherStep
<1>2. CASE \E snapshot \in Snapshots : PublishBegins(snapshot)
  BY <1>2, RetireInvBegins
<1>3. CASE ExecutorStep
  BY <1>3, RetireInvExecutor
<1>4. CASE \/ \E g \in Generations : CheckStops(g) \/ CheckExits(g)
           \/ RequestShutdown
           \/ UNCHANGED vars
  <2>1. UNCHANGED <<current, active, pub, publishes, registrations, registry, events, running, exec>>
    BY <1>4 DEF CheckStops, CheckExits, RequestShutdown, vars, storeVars, registryVars,
       channelVars, executorVars
  <2>2. /\ running' \in SUBSET Known /\ exec'.found \in SUBSET Known /\ events' \in Seq(Updates)
        /\ \A i \in DOMAIN events' : \E j \in DOMAIN events : events'[i] = events[j]
    BY <2>1 DEF RetireInv, GensKnown
  <2> QED BY <2>1, <2>2, RetireInvOthers
<1> QED BY <1>1, <1>2, <1>3, <1>4 DEF Next

\* There are no more generations than Generations has.
LEMMA KnownBounded ==
  ASSUME ServeInv, RetireInv
  PROVE  Known \subseteq Generations
<1> DEFINE n == Cardinality(Checks)
<1>1. n \in Nat /\ Cardinality(pub.desired) \in Nat /\ MaxPublishes \in Nat
      /\ publishes \in Nat /\ publishes <= MaxPublishes
  BY CheckAssumption, FS_CardinalityType, DesiredFinite DEF RetireInv, Counted
<1>2. Len(registrations) + Cardinality(pub.desired) <= publishes * n
  BY DEF RetireInv, Counted
<1>3. Len(registrations) \in Nat /\ Known = 1..Len(registrations)
  BY DEF ServeInv, PublisherTypeOK, Known
<1> HIDE DEF n
<1>4. publishes * n <= MaxPublishes * n /\ publishes * n \in Nat /\ MaxPublishes * n \in Nat
  BY <1>1
<1>5. Len(registrations) <= MaxPublishes * n
  BY <1>1, <1>2, <1>3, <1>4
<1> QED BY <1>3, <1>4, <1>5 DEF Generations, n

\* A task leaves running_tasks for one of these reasons only.
LEMMA TakenDown ==
  ASSUME TaskInv, ServeInv, RetireInv, [Next]_vars, NEW g \in running \ running'
  PROVE  \/ alive[g] = 0
         \/ exec.pc \in {"stale", "signal"}
         \/ current[KeyOf(g)] # registrations[g].service
<1>1. ExecutorStep
  BY DEF Next, PublishBegins, PublisherStep, KeepCheck, RegisterUpstream, UnregisterUpstream,
     NotifyUpdate, StoreSnapshot, Discard, PublishEnds, CheckStops, CheckExits, RequestShutdown,
     vars, executorVars
<1>2. StartFound \/ ReceiveAdded \/ ReceiveRemoved \/ StopStale \/ RestartFinished \/ RequestShutdownAll
  BY <1>1 DEF ExecutorStep, ExecutorStarts, ReadKey, ReceiveLagged, JoinTask, TaskStopped, Tick,
     CollectFinished, ExecutorShutsDown, ExecutorStopped
<1>3. CASE StartFound \/ ReceiveAdded
  BY <1>3 DEF StartFound, ReceiveAdded, StartTask
<1>4. CASE ReceiveRemoved
  <2>1. events # <<>> /\ Head(events).kind = "Removed" /\ running' = running \ {Head(events).gen}
    BY <1>4 DEF ReceiveRemoved
  <2>2. events \in Seq(Updates)
    BY DEF RetireInv, GensKnown
  <2>3. Head(events) = events[1] /\ 1 \in DOMAIN events
    BY <2>1, <2>2, HeadTail
  <2>4. Retired(Head(events).gen)
    BY <2>1, <2>3 DEF RetireInv, UpdatesRetired
  <2>5. g = Head(events).gen
    BY <2>1
  <2> QED BY <2>4, <2>5 DEF Retired
<1>5. CASE StopStale
  BY <1>5 DEF StopStale
<1>6. CASE RestartFinished
  <2>1. exec.pc = "restart" /\ g \in exec.found
    BY <1>6 DEF RestartFinished
  <2>2. g \in Generations
    BY KnownBounded DEF RetireInv, GensKnown
  <2> QED BY <2>1, <2>2 DEF TaskInv
<1>7. CASE RequestShutdownAll
  BY <1>7 DEF RequestShutdownAll
<1> QED BY <1>2, <1>3, <1>4, <1>5, <1>6, <1>7

\* The executor never takes down the check of a load balancer that serves requests,
\* but in a resync after lost updates or at shutdown: DisplacedHealthCheck::discard
\* and unregister_upstream announce a removal only when the snapshot with that load
\* balancer is no longer the current one, and no later snapshot reuses it.
THEOREM ServedKeepsItsCheck == Spec => ServedNotTakenDown
<1> DEFINE Reason == \A g \in running \ running' :
                       \/ alive[g] = 0
                       \/ exec.pc \in {"stale", "signal"}
                       \/ current[KeyOf(g)] # registrations[g].service
<1>1. TaskInv /\ ServeInv /\ RetireInv /\ [Next]_vars => Reason
  BY TakenDown
<1>2. TaskInv /\ ServeInv /\ RetireInv /\ [Next]_vars => [Reason]_vars
  BY <1>1
<1> QED
  BY <1>2, TaskInvInit, TaskInvNext, ServeInvInit, ServeInvNext, RetireInvInit, RetireInvNext, PTL
  DEF Spec, ServedNotTakenDown
================================================================================
