---------------------------- MODULE ConfigReplica ----------------------------
(***************************************************************************)
(* What the control plane promises the data plane, whatever lists, watch   *)
(* batches, retries and overtaken candidates there are in between: a       *)
(* replica of a log of configurations.  The copy only ever moves forward   *)
(* in the log, in one step from one usable configuration to a later one,   *)
(* and it may skip any number of them.                                     *)
(***************************************************************************)
EXTENDS Naturals, Sequences

CONSTANTS
  Empty,          \* the configuration before the first
  Usable(_)       \* may the gateway run this configuration?

VARIABLES
  log,            \* log[r + 1] is the configuration of revision r
  copy            \* [revision, stored]: what the gateway runs

replicaVars == <<log, copy>>

ReplicaInit ==
  /\ log = <<Empty, Empty>>
  /\ copy = [revision |-> 0, stored |-> Empty]

\* Somebody writes a configuration, usable or not.
Extend ==
  /\ Len(log') = Len(log) + 1
  /\ SubSeq(log', 1, Len(log)) = log
  /\ UNCHANGED copy

\* The gateway goes over to a later configuration of the log.
CatchUp ==
  /\ \E r \in copy.revision + 1 .. Len(log) - 1 :
       /\ Usable(log[r + 1])
       /\ copy' = [revision |-> r, stored |-> log[r + 1]]
  /\ UNCHANGED log

ReplicaSpec == ReplicaInit /\ [][Extend \/ CatchUp]_replicaVars

=============================================================================
