------------------------- MODULE PublicationRegistry -------------------------
(***************************************************************************)
(* The authority's bounded registry of publication outcomes                *)
(* (graph_mutation/state.rs, PublicationRegistry) as operators on its      *)
(* `records` map: a function from the retained revisions to their state.   *)
(* The error text of a record is Some exactly in state "Rejected", so it   *)
(* is left out.  published_revision is a variable of ConfigurationGraph.   *)
(***************************************************************************)
EXTENDS Naturals, FiniteSets

CONSTANT PUBLICATION_REGISTRY_CAPACITY   \* 128 in the code

ASSUME CapacityAssumption == PUBLICATION_REGISTRY_CAPACITY \in Nat \ {0}

PublicationState == {"Pending", "Published", "Rejected", "Superseded"}

\* BTreeMap<i64, PublicationRecord>: a function on a set of revisions.
IsRegistry(records) ==
  /\ DOMAIN records \subseteq Nat
  /\ records \in [DOMAIN records -> PublicationState]

EmptyRegistry == [r \in {} |-> "Pending"]

(***************************************************************************)
(* trim: while the map is over capacity, drop the smallest revision that   *)
(* is not pending; stop when only pending records are left.  The loop      *)
(* removes the `excess` smallest settled revisions, or all of them.        *)
(***************************************************************************)
Settled(records) == {r \in DOMAIN records : records[r] # "Pending"}

Victims(records) ==
  LET settled == Settled(records)
      excess  == Cardinality(DOMAIN records) - PUBLICATION_REGISTRY_CAPACITY
  IN  {r \in settled : Cardinality({q \in settled : q < r}) < excess}

Trim(records) ==
  IF Cardinality(DOMAIN records) > PUBLICATION_REGISTRY_CAPACITY
    THEN [r \in DOMAIN records \ Victims(records) |-> records[r]]
    ELSE records

\* pending: insert only if absent, whatever state a present record is in.
Pending(records, revision) ==
  IF revision > 0
    THEN Trim([r \in DOMAIN records \cup {revision} |->
                 IF r \in DOMAIN records THEN records[r] ELSE "Pending"])
    ELSE records

\* supersede_pending_except: every other pending record, older or newer.
SupersedePendingExcept(records, revision) ==
  [r \in DOMAIN records |->
     IF r # revision /\ records[r] = "Pending" THEN "Superseded" ELSE records[r]]

\* published: overwrites whatever state the record was in.
Published(records, revision) ==
  LET known == Pending(records, revision)
  IN  Trim([r \in DOMAIN known |-> IF r = revision THEN "Published" ELSE known[r]])

\* rejected: only a record that is still pending.
Rejected(records, revision) ==
  [r \in DOMAIN records |->
     IF r = revision /\ records[r] = "Pending" THEN "Rejected" ELSE records[r]]

=============================================================================
