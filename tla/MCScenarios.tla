----------------------------- MODULE MCScenarios -----------------------------
(***************************************************************************)
(* The control plane under several environments, one per behaviour.        *)
(*                                                                         *)
(* The product of everything that clients, other writers, the network and  *)
(* the operator may do is too large, so each behaviour looks at one of     *)
(* them at length.  A scenario only limits the environment: which requests *)
(* and writes come, how many, whether a shutdown is requested.  The        *)
(* gateway's own tasks take every step they can in every scenario but      *)
(* "store", which is about the store alone.                                *)
(***************************************************************************)
EXTENDS MCControlPlane

CONSTANTS
  Scenarios,      \* those looked at
  s1, a1, w1      \* the secret, Admin client and worker of the narrow scenarios

VARIABLE scenario

mcVars == <<vars, scenario>>

\* What clients and other writers put, and how far the store gets.
Writes(keys, bodies, secrets, last) ==
  /\ Revision' <= last
  /\ \A k \in Keys : Exists(Current', k) =>
       k \in keys /\ Current'[k].body \in bodies /\ Current'[k].secret \in secrets
  /\ \A a \in Admins : admin'[a].pc = "commit" =>
       /\ admin'[a].key \in keys
       /\ admin'[a].body \in bodies \cup {NoBody}
       /\ admin'[a].secret \in secrets \cup {NoSecret}

\* The revision moves with the resources only.
NoForeign == \A r \in 2 .. Revision' : written'[r] # NoKey

\* Concurrent Admin requests and other writers on one store: what becomes of
\* a reply, which "admin" looks at, cannot matter to it.  Writers that
\* ignore the guard are a matter of one resource's secret, since nothing then keeps
\* the graph valid.
Store ==
  /\ Writes(IF direct THEN {upstream} ELSE Keys, {good}, Secrets \cup {Sentinel}, MaxRevision)
  /\ NoForeign
  /\ \A a \in Admins : admin'[a].pc # "record"
  /\ UNCHANGED <<graphVars, syncVars>>

\* The sync task and the worker follow a store that others write, valid and
\* invalid, with a transport fault.  A bad body is as bad in one key as in the other.
Watch ==
  /\ direct
  /\ Writes(Keys, Bodies, {s1}, 3)
  /\ Current'[route].body \in {NoBody, good}
  /\ UNCHANGED admin

\* An Admin client whose request races with the watch of its own write; masked
\* secrets are for "store".
Admin ==
  /\ ~direct
  /\ Writes({upstream}, {good, broken}, {s1}, 3)
  /\ NoForeign
  /\ \A a \in Admins \ {a1} : UNCHANGED admin[a]
  /\ admin'[a1].pc = "commit" => ~admin'[a1].masked
  /\ UNCHANGED faults

\* The first worker spawned is w1, which is as good as another.
FirstWorker == \A w \in Workers : wpc'[w] # "none" => wpc'[w1] # "none"

\* A store that settles on a graph the gateway can run, after a good, an
\* uncompilable or a malformed one, with nobody stopping the gateway.  What
\* a malformed key holds is never looked at.
Settles ==
  /\ Writes(Keys, Bodies, Secrets, 3)
  /\ Revision' = 3 => Publishable(Current')
  /\ \A k \in MalformedKeys : Current'[k].body \in {NoBody, good}
  /\ UNCHANGED stopping
  /\ FirstWorker

\* A shutdown that races with the submission of the last write.
Stops ==
  /\ Writes({upstream}, Bodies, Secrets, 2)
  /\ UNCHANGED faults
  /\ FirstWorker

Limits ==
  \/ scenario = "store" /\ Store
  \/ scenario = "watch" /\ Watch
  \/ scenario = "admin" /\ Admin
  \/ scenario = "settles" /\ Settles
  \/ scenario = "stops" /\ Stops

MCInit ==
  /\ Init
  /\ scenario \in Scenarios
  /\ scenario = "watch" => direct
  /\ scenario = "admin" => ~direct

MCNext == Next /\ Limits /\ UNCHANGED scenario

MCSpec == MCInit /\ [][MCNext]_mcVars

MCFairSpec == MCSpec /\ Fairness

=============================================================================
