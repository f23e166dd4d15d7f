------------------------------ MODULE BoundedShard ------------------------------
(***************************************************************************)
(* One shard of a bounded limiter map (plugins/limiting.rs, Shard and      *)
(* BoundedShardMap; plugins/limiter_shards.rs): the entries and the order  *)
(* in which they were last touched.  shard_idx sends a key to one shard    *)
(* for good and shards share nothing, so one shard is the whole story.     *)
(*                                                                         *)
(* A shard is [entries, order]: entries maps the tracked keys to the       *)
(* limiter's state, order lists them from the least to the most recently   *)
(* touched.  An eviction predicate is the set of the keys that satisfy it. *)
(***************************************************************************)
EXTENDS Integers, Sequences, FiniteSets

CONSTANTS
  RegularMax,   \* PER_SHARD_REGULAR_MAX (255)
  Budget,       \* CLEANUP_BUDGET (8)
  Overflow      \* the limiter's overflow key

ASSUME ShardAssumption ==
  /\ RegularMax \in Nat \ {0}
  /\ Budget \in Nat \ {0}

EmptyShard == [entries |-> [k \in {} |-> 0], order |-> <<>>]

Tracked(shard) == DOMAIN shard.entries

\* TouchOrder has one token per key, and thus one place to remove it from.
Without(order, key) ==
  LET place == CHOOSE i \in DOMAIN order : order[i] = key
      left[i \in 1..(Len(order) - 1)] == IF i < place THEN order[i] ELSE order[i + 1]
  IN IF \E i \in DOMAIN order : order[i] = key THEN left ELSE order

\* TouchOrder::touch.
Touch(shard, key) == [shard EXCEPT !.order = Append(Without(@, key), key)]

\* The entry and its place in the order are dropped together.
Forget(shard, key) ==
  [entries |-> [k \in Tracked(shard) \ {key} |-> shard.entries[k]],
   order   |-> Without(shard.order, key)]

\* The caller's or_insert, or its write to the state behind the entry.
Put(shard, key, state) ==
  [shard EXCEPT !.entries =
     [k \in Tracked(shard) \cup {key} |-> IF k = key THEN state ELSE shard.entries[k]]]

\* Shard::evict_oldest.
EvictOldest(shard) ==
  IF shard.order = <<>> THEN shard ELSE Forget(shard, Head(shard.order))

\* One turn of Shard::sweep.  SweepMiss::Restore gives a kept entry its old
\* token, and with it the place at the front of the order, back.
Examine(shard, evictable, onMiss) ==
  LET oldest == Head(shard.order) IN
  CASE shard.order = <<>> -> shard
    [] shard.order # <<>> /\ oldest \in evictable -> Forget(shard, oldest)
    [] shard.order # <<>> /\ oldest \notin evictable /\ onMiss = "Restore" -> shard
    [] shard.order # <<>> /\ oldest \notin evictable /\ onMiss = "PushBack" ->
         Touch(shard, oldest)

Sweep(shard, evictable, onMiss) ==
  LET after[n \in 0..Budget] ==
        IF n = 0 THEN shard ELSE Examine(after[n - 1], evictable, onMiss)
  IN after[Budget]

Full(shard) == Cardinality(Tracked(shard)) >= RegularMax

\* Shard::admit: the shard after the sweep, with the admitted slot touched,
\* and that slot.
Admit(shard, key, evictable, onMiss) ==
  LET known == key \in Tracked(shard)
      swept == IF ~known /\ Full(shard) THEN Sweep(shard, evictable, onMiss) ELSE shard
      slot  == IF known \/ ~Full(swept) THEN key ELSE Overflow
  IN [shard |-> Touch(swept, slot), slot |-> slot]

\* The bound a shard keeps between critical sections: the regular slots and one
\* overflow bucket; and an entry is in the recency order exactly once, so that
\* the sweep can always find it.
Bounded(shard) ==
  /\ Cardinality(Tracked(shard)) <= RegularMax + 1
  /\ Len(shard.order) = Cardinality(Tracked(shard))
  /\ {shard.order[i] : i \in 1..Len(shard.order)} = Tracked(shard)
================================================================================
