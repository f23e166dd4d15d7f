------------------------------- MODULE ShardProofs -------------------------------
(***************************************************************************)
(* What the operations of a bounded limiter map do to a shard, for any     *)
(* capacity and any cleanup budget: the lemmas about BoundedShard that the *)
(* proofs of the limiters rest on.  The sweep is a recursive function, so  *)
(* they begin with induction over the natural numbers, for sets.           *)
(***************************************************************************)
EXTENDS BoundedShard, FiniteSetTheorems, WellFoundedInduction, TLAPS

--------------------------------------------------------------------------------
(* Induction. *)

\* Every non-empty set of natural numbers has a smallest element.
LEMMA LeastMember ==
  ASSUME NEW T \in SUBSET Nat, T # {}
  PROVE  \E m \in T : \A n \in T : m <= n
<1> DEFINE R == OpToRel(<, Nat)
<1>1. \A x, y \in Nat : x < y => <<x, y>> \in R
  BY DEF OpToRel
<1>2. IsWellFoundedOn(R, Nat)
  BY NatLessThanWellFounded
<1> HIDE DEF R
<1>3. \E x \in T : \A y \in T : ~ (<<y, x>> \in R)
  BY <1>2, WFMin
<1>4. PICK x \in T : \A y \in T : ~ (<<y, x>> \in R)
  BY <1>3
<1>5. \A y \in T : ~(y < x)
  BY <1>1, <1>4
<1> QED BY <1>5

\* A set that contains zero and with each number the next contains them all.
LEMMA SetInduction ==
  ASSUME NEW S, 0 \in S, \A n \in Nat : n \in S => n + 1 \in S
  PROVE  Nat \subseteq S
<1> DEFINE T == {n \in Nat : n \notin S}
<1>1. SUFFICES ASSUME T # {} PROVE FALSE
  OBVIOUS
<1>0. T \in SUBSET Nat
  OBVIOUS
<1> HIDE DEF T
<1>2. PICK m \in T : \A n \in T : m <= n
  BY <1>0, <1>1, LeastMember
<1> USE DEF T
<1>3. m - 1 \in Nat /\ m - 1 \notin T
  BY <1>2
<1> QED BY <1>2, <1>3

--------------------------------------------------------------------------------
(* The recency order. *)

\* order lists every member of keys exactly once.
Lists(order, keys) ==
  /\ order \in Seq(keys)
  /\ \A i, j \in 1..Len(order) : order[i] = order[j] => i = j
  /\ \A k \in keys : \E i \in 1..Len(order) : order[i] = k

\* A recency order is as long as the map is large: TouchOrder's two indexes hold
\* as many keys as the entries do.
LEMMA ListsCount ==
  ASSUME NEW order, NEW keys, Lists(order, keys)
  PROVE  /\ IsFiniteSet(keys)
         /\ Len(order) \in Nat /\ Cardinality(keys) = Len(order)
         /\ {order[i] : i \in 1..Len(order)} = keys
<1>1. Len(order) \in Nat /\ order \in [1..Len(order) -> keys]
  BY DEF Lists
<1>2. order \in Bijection(1..Len(order), keys)
  BY <1>1 DEF Lists, Bijection, Injection, Surjection, IsInjective
<1>3. ExistsBijection(1..Len(order), keys)
  BY <1>2 DEF ExistsBijection
<1>4. IsFiniteSet(1..Len(order)) /\ Cardinality(1..Len(order)) = Len(order)
  BY <1>1, FS_Interval
<1>5. IsFiniteSet(keys) /\ Cardinality(keys) = Len(order)
  BY <1>3, <1>4, FS_Bijection
<1> QED BY <1>1, <1>5 DEF Lists

\* Several entries at the front of the order are as many keys.
LEMMA FrontCount ==
  ASSUME NEW order, NEW keys, Lists(order, keys), NEW m \in Nat, m <= Len(order)
  PROVE  LET front == {order[i] : i \in 1..m} IN
         IsFiniteSet(front) /\ Cardinality(front) = m /\ front \subseteq keys
<1> DEFINE front == {order[i] : i \in 1..m}
           f == [i \in 1..m |-> order[i]]
<1>1. Len(order) \in Nat /\ \A i \in 1..Len(order) : order[i] \in keys
  BY DEF Lists
<1>2. \A i, j \in 1..Len(order) : order[i] = order[j] => i = j
  BY DEF Lists
<1>3. \A i \in 1..m : i \in 1..Len(order)
  BY <1>1
<1>4. \A i, j \in 1..m : order[i] = order[j] => i = j
  BY <1>2, <1>3
<1>5. f \in [1..m -> front] /\ (\A y \in front : \E i \in 1..m : f[i] = y)
      /\ \A i, j \in 1..m : f[i] = f[j] => i = j
  BY <1>4
<1>6. f \in Bijection(1..m, front)
  <2> HIDE DEF f, front
  <2> QED BY <1>5 DEF Bijection, Injection, Surjection, IsInjective
<1>7. IsFiniteSet(1..m) /\ Cardinality(1..m) = m
  BY FS_Interval
<1>8. IsFiniteSet(front) /\ Cardinality(front) = m
  <2> HIDE DEF f, front
  <2> QED BY <1>6, <1>7, FS_Bijection DEF ExistsBijection
<1>9. front \subseteq keys
  BY <1>1, <1>3
<1> QED BY <1>8, <1>9

\* TouchOrder::remove.
LEMMA WithoutLists ==
  ASSUME NEW order, NEW keys, Lists(order, keys), NEW key
  PROVE  Lists(Without(order, key), keys \ {key})
<1>1. Len(order) \in Nat /\ order \in [1..Len(order) -> keys] /\ DOMAIN order = 1..Len(order)
  BY DEF Lists
<1>2. CASE key \notin keys
  <2>1. Without(order, key) = order
    BY <1>1, <1>2 DEF Without
  <2>2. keys \ {key} = keys
    BY <1>2
  <2> QED BY <2>1, <2>2
<1>3. CASE key \in keys
  <2> DEFINE place == CHOOSE i \in DOMAIN order : order[i] = key
             n == Len(order)
             left == [i \in 1..(n - 1) |-> IF i < place THEN order[i] ELSE order[i + 1]]
  <2>1. \E i \in DOMAIN order : order[i] = key
    BY <1>1, <1>3 DEF Lists
  <2>2. place \in 1..n /\ order[place] = key
    BY <1>1, <2>1
  <2>3. Without(order, key) = left
    BY <2>1 DEF Without
  <2> HIDE DEF place, n
  <2>4. n \in Nat /\ n - 1 \in Nat
    BY <1>1, <2>2 DEF n
  <2>5. \A i, j \in 1..n : order[i] = order[j] => i = j
    BY DEF Lists, n
  <2>6. \A i \in 1..n : order[i] \in keys
    BY <1>1 DEF n
  <2>7. \A i \in 1..(n - 1) : left[i] \in keys \ {key}
    BY <2>2, <2>4, <2>5, <2>6
  <2>8. left \in Seq(keys \ {key}) /\ Len(left) = n - 1
    BY <2>4, <2>7
  <2>9. \A i, j \in 1..(n - 1) : left[i] = left[j] => i = j
    BY <2>2, <2>4, <2>5
  <2>10. ASSUME NEW k \in keys \ {key} PROVE \E i \in 1..(n - 1) : left[i] = k
    <3>1. PICK i \in 1..n : order[i] = k
      BY <2>10 DEF Lists, n
    <3>2. i # place
      BY <2>2, <2>10, <3>1
    <3>3. CASE i < place
      <4>1. i \in 1..(n - 1) /\ left[i] = k
        BY <2>2, <2>4, <3>1, <3>3
      <4> QED BY <4>1
    <3>4. CASE i > place
      <4>1. i - 1 \in 1..(n - 1) /\ left[i - 1] = k
        BY <2>2, <2>4, <3>1, <3>4
      <4> QED BY <4>1
    <3> QED BY <2>2, <2>4, <3>2, <3>3, <3>4
  <2> HIDE DEF left
  <2> QED BY <2>3, <2>8, <2>9, <2>10 DEF Lists
<1> QED BY <1>2, <1>3

\* TouchOrder::touch of a key that has no token.
LEMMA AppendLists ==
  ASSUME NEW order, NEW keys, Lists(order, keys), NEW key, key \notin keys
  PROVE  Lists(Append(order, key), keys \cup {key})
<1>1. Len(order) \in Nat /\ order \in Seq(keys \cup {key}) /\ \A i \in 1..Len(order) : order[i] \in keys
  BY DEF Lists
<1> DEFINE more == Append(order, key)
<1>2. /\ more \in Seq(keys \cup {key}) /\ Len(more) = Len(order) + 1
      /\ \A i \in 1..Len(order) : more[i] = order[i]
      /\ more[Len(order) + 1] = key
  BY <1>1
<1> HIDE DEF more
<1>0. \A i \in 1..Len(more) : i \in 1..Len(order) \/ i = Len(order) + 1
  BY <1>1, <1>2
<1>3. ASSUME NEW i \in 1..Len(more), NEW j \in 1..Len(more), more[i] = more[j] PROVE i = j
  <2>1. CASE i \in 1..Len(order) /\ j \in 1..Len(order)
    BY <1>2, <1>3, <2>1 DEF Lists
  <2>2. CASE i = Len(order) + 1 \/ j = Len(order) + 1
    BY <1>0, <1>1, <1>2, <1>3, <2>2
  <2> QED BY <1>0, <2>1, <2>2
<1>4. ASSUME NEW k \in keys \cup {key} PROVE \E i \in 1..Len(more) : more[i] = k
  <2>1. CASE k = key
    <3>1. Len(order) + 1 \in 1..Len(more)
      BY <1>1, <1>2
    <3> QED BY <1>2, <2>1, <3>1
  <2>2. CASE k \in keys
    <3>1. PICK i \in 1..Len(order) : order[i] = k
      BY <2>2 DEF Lists
    <3>2. i \in 1..Len(more) /\ more[i] = k
      BY <1>1, <1>2, <3>1
    <3> QED BY <3>2
  <2> QED BY <2>1, <2>2
<1> QED BY <1>2, <1>3, <1>4 DEF Lists, more

--------------------------------------------------------------------------------
(* Shards. *)

\* Between critical sections: an entry is in the recency order exactly once, and
\* there are at most RegularMax entries beside the overflow bucket.
WellFormed(shard) ==
  /\ shard = [entries |-> shard.entries, order |-> shard.order]
  /\ shard.entries = [k \in Tracked(shard) |-> shard.entries[k]]
  /\ Lists(shard.order, Tracked(shard))

Capped(keys) == IsFiniteSet(keys) /\ Cardinality(keys \ {Overflow}) <= RegularMax

\* Bounded, the bound of the limiters' properties, follows.
LEMMA CappedBounded ==
  ASSUME NEW shard, WellFormed(shard), Capped(Tracked(shard)) PROVE Bounded(shard)
<1> DEFINE keys == Tracked(shard)
<1>1. /\ IsFiniteSet(keys) /\ Cardinality(keys) = Len(shard.order)
      /\ {shard.order[i] : i \in 1..Len(shard.order)} = keys
  BY ListsCount DEF WellFormed
<1>2. Cardinality(keys) \in Nat /\ Cardinality(keys \ {Overflow}) \in Nat
  BY <1>1, FS_CardinalityType, FS_RemoveElement
<1>0. Cardinality(keys \ {Overflow})
        = IF Overflow \in keys THEN Cardinality(keys) - 1 ELSE Cardinality(keys)
  BY <1>1, FS_RemoveElement
<1> HIDE DEF keys
<1>3. Cardinality(keys) <= Cardinality(keys \ {Overflow}) + 1
  BY <1>0, <1>2
<1> USE DEF keys
<1>4. Cardinality(keys) <= RegularMax + 1
  BY <1>2, <1>3, ShardAssumption DEF Capped
<1> QED BY <1>1, <1>4 DEF Bounded

\* A new shard.
LEMMA EmptyWellFormed == WellFormed(EmptyShard) /\ Capped(Tracked(EmptyShard))
<1>1. Tracked(EmptyShard) = {}
  BY DEF EmptyShard, Tracked
<1>2. Lists(<<>>, {})
  BY DEF Lists
<1>3. EmptyShard.order = <<>>
  BY DEF EmptyShard
<1>4. WellFormed(EmptyShard)
  <2>1. EmptyShard.entries = [k \in {} |-> 0] /\ DOMAIN EmptyShard.entries = {}
    BY DEF EmptyShard
  <2>2. EmptyShard.entries = [k \in {} |-> EmptyShard.entries[k]]
    BY <2>1
  <2> QED BY <1>1, <1>2, <1>3, <2>2 DEF WellFormed, EmptyShard
<1>5. {} \ {Overflow} = {}
  OBVIOUS
<1> QED BY <1>1, <1>4, <1>5, FS_EmptySet, ShardAssumption DEF Capped

\* TouchOrder::touch on a shard: the entries stay, the key is in the order.
LEMMA TouchShard ==
  ASSUME NEW shard, WellFormed(shard), NEW key
  PROVE  /\ Touch(shard, key) = [entries |-> shard.entries, order |-> Touch(shard, key).order]
         /\ Tracked(Touch(shard, key)) = Tracked(shard)
         /\ Touch(shard, key).entries = shard.entries
         /\ Lists(Touch(shard, key).order, Tracked(shard) \cup {key})
<1>1. Touch(shard, key) = [entries |-> shard.entries, order |-> Append(Without(shard.order, key), key)]
  <2>1. shard = [entries |-> shard.entries, order |-> shard.order]
    BY DEF WellFormed
  <2> DEFINE next == Append(Without(shard.order, key), key)
  <2>2. Touch(shard, key) = [shard EXCEPT !.order = next]
    BY DEF Touch
  <2> HIDE DEF next
  <2>3. [shard EXCEPT !.order = next] = [entries |-> shard.entries, order |-> next]
    BY ONLY <2>1
  <2> QED BY <2>2, <2>3 DEF next
<1>2. Lists(Append(Without(shard.order, key), key), (Tracked(shard) \ {key}) \cup {key})
  BY WithoutLists, AppendLists DEF WellFormed
<1>3. (Tracked(shard) \ {key}) \cup {key} = Tracked(shard) \cup {key}
  OBVIOUS
<1>4. Touch(shard, key).entries = shard.entries
      /\ Touch(shard, key).order = Append(Without(shard.order, key), key)
  BY <1>1
<1>5. Tracked(Touch(shard, key)) = Tracked(shard)
  BY <1>4 DEF Tracked
<1> QED BY <1>1, <1>2, <1>3, <1>4, <1>5

\* A shard after an insertion at key.
Placed(shard, key, state, after) ==
  /\ WellFormed(after)
  /\ Tracked(after) = Tracked(shard) \cup {key}
  /\ after.entries[key] = state
  /\ \A k \in Tracked(shard) \ {key} : after.entries[k] = shard.entries[k]

\* The insertion behind a touch.
LEMMA PutShard ==
  ASSUME NEW shard, NEW key, NEW state,
         shard = [entries |-> shard.entries, order |-> shard.order],
         Lists(shard.order, Tracked(shard) \cup {key})
  PROVE  Placed(shard, key, state, Put(shard, key, state))
<1> DEFINE put == [k \in Tracked(shard) \cup {key} |-> IF k = key THEN state ELSE shard.entries[k]]
<1>1. Put(shard, key, state) = [entries |-> put, order |-> shard.order]
  BY DEF Put
<1>2. /\ DOMAIN put = Tracked(shard) \cup {key} /\ put[key] = state
      /\ \A k \in Tracked(shard) \ {key} : put[k] = shard.entries[k]
      /\ put = [k \in DOMAIN put |-> put[k]]
  OBVIOUS
<1> HIDE DEF put
<1>3. Tracked(Put(shard, key, state)) = Tracked(shard) \cup {key}
      /\ Put(shard, key, state).entries = put /\ Put(shard, key, state).order = shard.order
  BY <1>1, <1>2 DEF Tracked
<1>4. WellFormed(Put(shard, key, state))
  BY <1>1, <1>2, <1>3 DEF WellFormed
<1> QED BY <1>2, <1>3, <1>4 DEF Placed

\* Entry and token are dropped together.
LEMMA ForgetShard ==
  ASSUME NEW shard, WellFormed(shard), NEW key
  PROVE  /\ WellFormed(Forget(shard, key))
         /\ Tracked(Forget(shard, key)) = Tracked(shard) \ {key}
         /\ \A k \in Tracked(shard) \ {key} : Forget(shard, key).entries[k] = shard.entries[k]
<1> DEFINE rest == [k \in Tracked(shard) \ {key} |-> shard.entries[k]]
<1>1. Forget(shard, key) = [entries |-> rest, order |-> Without(shard.order, key)]
  BY DEF Forget
<1>2. /\ DOMAIN rest = Tracked(shard) \ {key} /\ rest = [k \in DOMAIN rest |-> rest[k]]
      /\ \A k \in Tracked(shard) \ {key} : rest[k] = shard.entries[k]
  OBVIOUS
<1>3. Lists(Without(shard.order, key), Tracked(shard) \ {key})
  BY WithoutLists DEF WellFormed
<1> HIDE DEF rest
<1>4. Tracked(Forget(shard, key)) = Tracked(shard) \ {key}
      /\ Forget(shard, key).entries = rest /\ Forget(shard, key).order = Without(shard.order, key)
  BY <1>1, <1>2 DEF Tracked
<1> QED BY <1>1, <1>2, <1>3, <1>4 DEF WellFormed

\* The oldest entry of a shard that has one is tracked.
LEMMA HeadTracked ==
  ASSUME NEW shard, WellFormed(shard), shard.order # <<>>
  PROVE  Head(shard.order) \in Tracked(shard)
  BY DEF WellFormed, Lists

--------------------------------------------------------------------------------
(* The sweep. *)

\* What a sweep may make of a shard: some entries are gone, all the others are
\* still there and unchanged.
Thinned(before, after, evictable) ==
  /\ WellFormed(after)
  /\ Tracked(after) \subseteq Tracked(before)
  /\ Tracked(before) \ evictable \subseteq Tracked(after)
  /\ \A k \in Tracked(after) : after.entries[k] = before.entries[k]

\* One turn of Shard::sweep.
LEMMA ExamineThins ==
  ASSUME NEW before, NEW shard, NEW evictable, NEW onMiss \in {"Restore", "PushBack"},
         Thinned(before, shard, evictable)
  PROVE  Thinned(before, Examine(shard, evictable, onMiss), evictable)
<1> DEFINE oldest == Head(shard.order)
<1>0. WellFormed(shard)
  BY DEF Thinned
<1>1. CASE shard.order = <<>>
  BY <1>1 DEF Examine
<1>2. CASE shard.order # <<>> /\ oldest \in evictable
  <2>1. Examine(shard, evictable, onMiss) = Forget(shard, oldest)
    BY <1>2 DEF Examine
  <2> QED BY <1>0, <1>2, <2>1, ForgetShard DEF Thinned
<1>3. CASE shard.order # <<>> /\ oldest \notin evictable /\ onMiss = "Restore"
  BY <1>3 DEF Examine
<1>4. CASE shard.order # <<>> /\ oldest \notin evictable /\ onMiss = "PushBack"
  <2>1. Examine(shard, evictable, onMiss) = Touch(shard, oldest)
    BY <1>4 DEF Examine
  <2>2. oldest \in Tracked(shard)
    BY <1>0, <1>4, HeadTracked
  <2> HIDE DEF oldest
  <2>3. Tracked(shard) \cup {oldest} = Tracked(shard)
    BY <2>2
  <2> DEFINE touched == Touch(shard, oldest)
  <2>4. /\ touched = [entries |-> shard.entries, order |-> touched.order]
        /\ Tracked(touched) = Tracked(shard)
        /\ touched.entries = shard.entries
        /\ Lists(touched.order, Tracked(shard) \cup {oldest})
    BY <1>0, TouchShard
  <2> HIDE DEF touched
  <2>5. WellFormed(touched)
    BY <1>0, <2>3, <2>4 DEF WellFormed
  <2> QED BY <2>1, <2>4, <2>5 DEF Thinned, touched
<1> QED BY <1>1, <1>2, <1>3, <1>4

\* The turns of Shard::sweep, as a function of their number.
IsSweep(f, shard, evictable, onMiss, last) ==
  f = [n \in 0..last |-> IF n = 0 THEN shard ELSE Examine(f[n - 1], evictable, onMiss)]

\* Shard::sweep is a loop of Budget turns: the recursive function that models it
\* exists.
LEMMA SweepExists ==
  ASSUME NEW shard, NEW evictable, NEW onMiss
  PROVE  \A last \in Nat : \E f : IsSweep(f, shard, evictable, onMiss, last)
<1> DEFINE S == {last \in Nat : \E f : IsSweep(f, shard, evictable, onMiss, last)}
<1>1. 0 \in S
  <2> DEFINE f == [n \in 0..0 |-> shard]
  <2>1. IsSweep(f, shard, evictable, onMiss, 0)
    BY DEF IsSweep
  <2> QED BY <2>1
<1>2. ASSUME NEW m \in Nat, m \in S PROVE m + 1 \in S
  <2>1. PICK f : IsSweep(f, shard, evictable, onMiss, m)
    BY <1>2
  <2> DEFINE g == [n \in 0..(m + 1) |-> IF n <= m THEN f[n] ELSE Examine(f[m], evictable, onMiss)]
  <2>2. ASSUME NEW n \in 0..(m + 1)
        PROVE  g[n] = IF n = 0 THEN shard ELSE Examine(g[n - 1], evictable, onMiss)
    <3>1. CASE n <= m
      <4>1. n \in 0..m /\ g[n] = f[n]
        BY <3>1
      <4>2. f[n] = IF n = 0 THEN shard ELSE Examine(f[n - 1], evictable, onMiss)
        BY <2>1, <4>1 DEF IsSweep
      <4>3. n # 0 => n - 1 \in 0..(m + 1) /\ n - 1 <= m
        BY <3>1
      <4>4. n # 0 => g[n - 1] = f[n - 1]
        BY <4>3
      <4> HIDE DEF g
      <4> QED BY <4>1, <4>2, <4>4
    <3>2. CASE n = m + 1
      <4>1. g[n] = Examine(f[m], evictable, onMiss)
        BY <3>2
      <4>2. n # 0 /\ n - 1 = m /\ g[m] = f[m]
        BY <3>2
      <4> HIDE DEF g
      <4> QED BY <4>1, <4>2
    <3> QED BY <3>1, <3>2
  <2>3. g = [n \in 0..(m + 1) |-> g[n]]
    OBVIOUS
  <2> HIDE DEF g
  <2>4. IsSweep(g, shard, evictable, onMiss, m + 1)
    BY <2>2, <2>3 DEF IsSweep
  <2> QED BY <1>2, <2>4
<1> HIDE DEF S
<1>3. Nat \subseteq S
  BY <1>1, <1>2, SetInduction
<1> QED BY <1>3 DEF S

\* Shard::sweep leaves what its last turn left.
LEMMA SweepIsSweep ==
  ASSUME NEW shard, NEW evictable, NEW onMiss
  PROVE  \E f : IsSweep(f, shard, evictable, onMiss, Budget) /\ Sweep(shard, evictable, onMiss) = f[Budget]
<1> DEFINE f == CHOOSE g : IsSweep(g, shard, evictable, onMiss, Budget)
<1>1. IsSweep(f, shard, evictable, onMiss, Budget)
  BY SweepExists, ShardAssumption
<1>2. Sweep(shard, evictable, onMiss) = f[Budget]
  BY DEF Sweep, IsSweep
<1> QED BY <1>1, <1>2

\* A whole sweep.
LEMMA SweepThins ==
  ASSUME NEW shard, NEW evictable, NEW onMiss \in {"Restore", "PushBack"}, WellFormed(shard)
  PROVE  Thinned(shard, Sweep(shard, evictable, onMiss), evictable)
<1>1. PICK f : IsSweep(f, shard, evictable, onMiss, Budget) /\ Sweep(shard, evictable, onMiss) = f[Budget]
  BY SweepIsSweep
<1> DEFINE S == {n \in Nat : n \in 0..Budget => Thinned(shard, f[n], evictable)}
<1>2. Budget \in Nat
  BY ShardAssumption
<1>3. 0 \in S
  <2>1. f[0] = shard
    BY <1>1, <1>2 DEF IsSweep
  <2> QED BY <2>1 DEF Thinned
<1>4. ASSUME NEW m \in Nat, m \in S PROVE m + 1 \in S
  <2>1. SUFFICES ASSUME m + 1 \in 0..Budget PROVE Thinned(shard, f[m + 1], evictable)
    OBVIOUS
  <2>2. Thinned(shard, f[m], evictable)
    BY <1>2, <1>4, <2>1
  <2>3. f[m + 1] = Examine(f[m], evictable, onMiss)
    BY <1>1, <1>2, <2>1 DEF IsSweep
  <2> QED BY <2>2, <2>3, ExamineThins
<1>5. Budget \in S
  <2> HIDE DEF S
  <2> QED BY <1>2, <1>3, <1>4, SetInduction
<1> QED BY <1>1, <1>2, <1>5

\* A busy oldest entry that is pushed back makes room for the next one at the
\* front of the order.
LEMMA TouchOldest ==
  ASSUME NEW shard, WellFormed(shard), shard.order # <<>>
  PROVE  \A i \in 1..(Len(shard.order) - 1) :
           Touch(shard, Head(shard.order)).order[i] = shard.order[i + 1]
<1> DEFINE order == shard.order
           oldest == Head(order)
           n == Len(order)
           place == CHOOSE i \in DOMAIN order : order[i] = oldest
           left == [i \in 1..(n - 1) |-> IF i < place THEN order[i] ELSE order[i + 1]]
<1>1. Touch(shard, oldest).order = Append(Without(order, oldest), oldest)
  BY DEF Touch, WellFormed
<1>2. n \in Nat /\ n >= 1 /\ DOMAIN order = 1..n /\ oldest = order[1]
      /\ \A i, j \in 1..n : order[i] = order[j] => i = j
  BY DEF WellFormed, Lists
<1>3. 1 \in DOMAIN order /\ order[1] = oldest
  BY <1>2
<1>4. place = 1
  BY <1>2, <1>3
<1>5. Without(order, oldest) = left
  BY <1>3 DEF Without
<1>6. Lists(Without(order, oldest), Tracked(shard) \ {oldest})
  BY WithoutLists DEF WellFormed
<1> HIDE DEF place, oldest
<1>7. left \in Seq(Tracked(shard) \ {oldest}) /\ Len(left) = n - 1
  <2>1. left \in Seq(Tracked(shard) \ {oldest}) /\ DOMAIN left = 1..(n - 1)
    BY <1>5, <1>6 DEF Lists
  <2> HIDE DEF left
  <2> QED BY <1>2, <2>1
<1>8. \A i \in 1..(n - 1) : left[i] = order[i + 1]
  BY <1>2, <1>4
<1> DEFINE all == (Tracked(shard) \ {oldest}) \cup {oldest}
<1>9. left \in Seq(all) /\ oldest \in all
  <2> HIDE DEF left
  <2> QED BY <1>7
<1> HIDE DEF left, all, n, order
<1>10. \A i \in 1..(n - 1) : Append(left, oldest)[i] = left[i]
  BY <1>2, <1>7, <1>9
<1> QED BY <1>1, <1>5, <1>8, <1>10 DEF order, oldest, n

\* As long as Shard::sweep retires nothing with SweepMiss::PushBack, it has met a
\* busy entry in each turn, and no entry twice.
AllBusy(shard, evictable, n, s) ==
  /\ \A i \in 1..Len(shard.order) : i <= n => shard.order[i] \notin evictable
  /\ \A i \in 1..Len(shard.order) : i + n <= Len(shard.order) => s.order[i] = shard.order[i + n]

\* A sweep that retires nothing found the Budget oldest entries busy.
LEMMA SweepBusy ==
  ASSUME NEW shard, NEW evictable, WellFormed(shard),
         Tracked(shard) \subseteq Tracked(Sweep(shard, evictable, "PushBack"))
  PROVE  \A i \in 1..Len(shard.order) : i <= Budget => shard.order[i] \notin evictable
<1>1. PICK f : IsSweep(f, shard, evictable, "PushBack", Budget)
               /\ Sweep(shard, evictable, "PushBack") = f[Budget]
  BY SweepIsSweep
<1> DEFINE L == Len(shard.order)
           P(n) == /\ Thinned(shard, f[n], evictable)
                   /\ Tracked(shard) \subseteq Tracked(f[n]) => AllBusy(shard, evictable, n, f[n])
           S == {n \in Nat : n \in 0..Budget => P(n)}
<1>2. Budget \in Nat /\ L \in Nat
  BY ShardAssumption DEF WellFormed, Lists
<1>3. 0 \in S
  <2>1. f[0] = shard
    BY <1>1, <1>2 DEF IsSweep
  <2>2. Thinned(shard, shard, evictable)
    BY DEF Thinned
  <2>3. AllBusy(shard, evictable, 0, shard)
    BY <1>2 DEF AllBusy
  <2> QED BY <2>1, <2>2, <2>3
<1>4. ASSUME NEW m \in Nat, m \in S PROVE m + 1 \in S
  <2>1. SUFFICES ASSUME m + 1 \in 0..Budget PROVE P(m + 1)
    OBVIOUS
  <2> DEFINE s == f[m]
             t == f[m + 1]
  <2>2. Thinned(shard, s, evictable) /\ (Tracked(shard) \subseteq Tracked(s) => AllBusy(shard, evictable, m, s))
    BY <1>2, <1>4, <2>1
  <2>3. t = Examine(s, evictable, "PushBack")
    BY <1>1, <1>2, <2>1 DEF IsSweep
  <2> HIDE DEF s, t
  <2>4. Thinned(shard, t, evictable)
    BY <2>2, <2>3, ExamineThins
  <2>5. Thinned(s, t, evictable)
    <3>1. Thinned(s, s, evictable)
      BY <2>2 DEF Thinned
    <3> QED BY <2>3, <3>1, ExamineThins
  <2>6. ASSUME Tracked(shard) \subseteq Tracked(t) PROVE AllBusy(shard, evictable, m + 1, t)
    <3>1. WellFormed(s) /\ Tracked(s) = Tracked(shard) /\ Tracked(t) = Tracked(shard)
      BY <2>2, <2>4, <2>5, <2>6 DEF Thinned
    <3>2. AllBusy(shard, evictable, m, s)
      BY <2>2, <3>1
    <3>3. Len(s.order) = L
      BY <3>1, ListsCount DEF WellFormed
    <3>4. CASE m >= L
      <4>1. \A i \in 1..L : (i <= m + 1 => i <= m) /\ ~(i + (m + 1) <= L)
        BY <1>2, <3>4
      <4> QED BY <3>2, <4>1 DEF AllBusy
    <3>5. CASE m < L
      <4> DEFINE oldest == Head(s.order)
      <4>1. s.order # <<>> /\ oldest = s.order[1]
        <5>1. s.order \in Seq(Tracked(s))
          BY <3>1 DEF WellFormed, Lists
        <5> QED BY <1>2, <3>3, <3>5, <5>1
      <4>2. oldest \in Tracked(s)
        BY <3>1, <4>1, HeadTracked
      <4>3. oldest = shard.order[m + 1]
        <5>1. 1 \in 1..L /\ 1 + m <= L /\ 1 + m = m + 1
          BY <1>2, <3>5
        <5> QED BY <3>2, <4>1, <5>1 DEF AllBusy
      <4>4. oldest \notin evictable
        <5> SUFFICES ASSUME oldest \in evictable PROVE FALSE
          OBVIOUS
        <5>1. t = Forget(s, oldest)
          BY <2>3, <4>1 DEF Examine
        <5> HIDE DEF oldest
        <5>2. Tracked(t) = Tracked(s) \ {oldest}
          BY <3>1, <5>1, ForgetShard
        <5> QED BY <3>1, <4>2, <5>2
      <4>5. t = Touch(s, oldest)
        BY <2>3, <4>1, <4>4 DEF Examine
      <4>6. \A i \in 1..(L - 1) : t.order[i] = s.order[i + 1]
        BY <3>1, <3>3, <4>1, <4>5, TouchOldest
      <4> HIDE DEF oldest
      <4>7. ASSUME NEW i \in 1..L, i <= m + 1 PROVE shard.order[i] \notin evictable
        <5>1. i = m + 1 \/ i <= m
          BY <1>2, <4>7
        <5> QED BY <3>2, <4>3, <4>4, <5>1 DEF AllBusy
      <4>8. ASSUME NEW i \in 1..L, i + (m + 1) <= L PROVE t.order[i] = shard.order[i + (m + 1)]
        <5>1. i \in 1..(L - 1) /\ i + 1 \in 1..L /\ (i + 1) + m <= L /\ (i + 1) + m = i + (m + 1)
          BY <1>2, <4>8
        <5>2. s.order[i + 1] = shard.order[(i + 1) + m]
          BY <3>2, <5>1 DEF AllBusy
        <5> QED BY <4>6, <5>1, <5>2
      <4> QED BY <4>7, <4>8 DEF AllBusy
    <3> QED BY <1>2, <3>4, <3>5
  <2> QED BY <2>4, <2>6 DEF t
<1>5. Budget \in S
  <2> HIDE DEF S
  <2> QED BY <1>2, <1>3, <1>4, SetInduction
<1>6. P(Budget)
  BY <1>2, <1>5
<1> QED BY <1>1, <1>6 DEF AllBusy

--------------------------------------------------------------------------------
(* Admission. *)

\* A part of a set that keeps to the capacity keeps to it.
LEMMA CappedSubset ==
  ASSUME NEW keys, NEW fewer \in SUBSET keys, Capped(keys)
  PROVE  Capped(fewer)
<1>1. IsFiniteSet(keys \ {Overflow}) /\ IsFiniteSet(fewer)
  BY FS_RemoveElement, FS_Subset DEF Capped
<1>2. (fewer \ {Overflow}) \in SUBSET (keys \ {Overflow})
  OBVIOUS
<1>3. Cardinality(fewer \ {Overflow}) <= Cardinality(keys \ {Overflow})
  BY <1>1, <1>2, FS_Subset
<1>4. Cardinality(keys \ {Overflow}) \in Nat /\ Cardinality(fewer \ {Overflow}) \in Nat
  BY <1>1, FS_CardinalityType, FS_RemoveElement
<1> QED BY <1>1, <1>3, <1>4, ShardAssumption DEF Capped

\* What Shard::admit leaves for the caller's insertion: the slot is the key or the
\* overflow bucket and is in the order, nothing that is kept has changed, and with
\* the slot the shard still keeps to its capacity.
Admitted(shard, key, evictable, admitted) ==
  /\ admitted.shard = [entries |-> admitted.shard.entries, order |-> admitted.shard.order]
  /\ Lists(admitted.shard.order, Tracked(admitted.shard) \cup {admitted.slot})
  /\ admitted.slot \in {key, Overflow}
  /\ key \in Tracked(shard) => admitted.slot = key
  /\ Tracked(admitted.shard) \subseteq Tracked(shard)
  /\ Tracked(shard) \ evictable \subseteq Tracked(admitted.shard)
  /\ \A k \in Tracked(admitted.shard) : admitted.shard.entries[k] = shard.entries[k]
  /\ Capped(Tracked(admitted.shard) \cup {admitted.slot})
  /\ admitted.slot \in Tracked(admitted.shard) => WellFormed(admitted.shard)

\* Shard::admit.
LEMMA AdmitShard ==
  ASSUME NEW shard, NEW key, NEW evictable, NEW onMiss \in {"Restore", "PushBack"},
         WellFormed(shard), Capped(Tracked(shard))
  PROVE  Admitted(shard, key, evictable, Admit(shard, key, evictable, onMiss))
<1> DEFINE known == key \in Tracked(shard)
           swept == IF ~known /\ Full(shard) THEN Sweep(shard, evictable, onMiss) ELSE shard
           slot == IF known \/ ~Full(swept) THEN key ELSE Overflow
           touched == Touch(swept, slot)
<1>1. Admit(shard, key, evictable, onMiss) = [shard |-> touched, slot |-> slot]
  BY DEF Admit
<1>2. Thinned(shard, swept, evictable)
  <2>1. CASE ~known /\ Full(shard)
    BY <2>1, SweepThins
  <2>2. CASE ~(~known /\ Full(shard))
    BY <2>2 DEF Thinned
  <2> QED BY <2>1, <2>2
<1>3. known => swept = shard
  OBVIOUS
<1> HIDE DEF swept
<1>4. WellFormed(swept) /\ Capped(Tracked(swept))
  BY <1>2, CappedSubset DEF Thinned
<1>5. Capped(Tracked(swept) \cup {slot})
  <2>1. CASE known
    <3>1. Tracked(swept) \cup {slot} = Tracked(swept)
      BY <1>3, <2>1
    <3> QED BY <1>4, <3>1
  <2>2. CASE ~known /\ Full(swept)
    <3>1. slot = Overflow
      BY <2>2
    <3>2. (Tracked(swept) \cup {slot}) \ {Overflow} = Tracked(swept) \ {Overflow}
      BY <3>1
    <3> HIDE DEF slot
    <3> QED BY <1>4, <3>2, FS_AddElement DEF Capped
  <2>3. CASE ~known /\ ~Full(swept)
    <3> DEFINE all == Tracked(swept) \cup {slot}
    <3>1. IsFiniteSet(Tracked(swept)) /\ Cardinality(Tracked(swept)) \in Nat
      BY <1>4, FS_CardinalityType DEF Capped
    <3>2. Cardinality(Tracked(swept)) < RegularMax
      BY <2>3, <3>1, ShardAssumption DEF Full
    <3> HIDE DEF slot
    <3>3. IsFiniteSet(all) /\
          Cardinality(all) = IF slot \in Tracked(swept) THEN Cardinality(Tracked(swept))
                             ELSE Cardinality(Tracked(swept)) + 1
      BY <3>1, FS_AddElement
    <3>4. all \ {Overflow} \in SUBSET all
      OBVIOUS
    <3> HIDE DEF all
    <3>5. Cardinality(all \ {Overflow}) <= Cardinality(all) /\ Cardinality(all \ {Overflow}) \in Nat
          /\ Cardinality(all) \in Nat
      BY <3>3, <3>4, FS_Subset, FS_CardinalityType
    <3>6. Capped(all)
      BY <3>1, <3>2, <3>3, <3>5, ShardAssumption DEF Capped
    <3> QED BY <3>6 DEF all
  <2> QED BY <2>1, <2>2, <2>3
<1>6. slot \in {key, Overflow} /\ (known => slot = key)
  OBVIOUS
<1> HIDE DEF slot
<1>7. /\ touched = [entries |-> swept.entries, order |-> touched.order]
      /\ Tracked(touched) = Tracked(swept)
      /\ touched.entries = swept.entries
      /\ Lists(touched.order, Tracked(swept) \cup {slot})
  BY <1>4, TouchShard
<1> HIDE DEF touched
<1>8. \A k \in Tracked(touched) : touched.entries[k] = shard.entries[k]
  BY <1>2, <1>7 DEF Thinned
<1> DEFINE admitted == [shard |-> touched, slot |-> slot]
<1>9. admitted.shard = touched /\ admitted.slot = slot
  OBVIOUS
<1> HIDE DEF admitted
<1>10. touched = [entries |-> touched.entries, order |-> touched.order]
  BY <1>7
<1>11. Admitted(shard, key, evictable, admitted)
  <2>1. Tracked(touched) \subseteq Tracked(shard) /\ Tracked(shard) \ evictable \subseteq Tracked(touched)
    BY <1>2, <1>7 DEF Thinned
  <2>2. /\ Capped(Tracked(touched) \cup {slot})
        /\ Lists(touched.order, Tracked(touched) \cup {slot})
    BY <1>5, <1>7
  <2>3. slot \in Tracked(touched) => WellFormed(touched)
    <3> SUFFICES ASSUME slot \in Tracked(touched) PROVE WellFormed(touched)
      OBVIOUS
    <3>1. touched.entries = [k \in Tracked(touched) |-> touched.entries[k]]
      BY <1>4, <1>7 DEF WellFormed
    <3>2. Tracked(touched) \cup {slot} = Tracked(touched)
      OBVIOUS
    <3>3. Lists(touched.order, Tracked(touched))
      BY <2>2, <3>2
    <3> QED BY <1>10, <3>1, <3>3 DEF WellFormed
  <2> QED BY <1>6, <1>8, <1>9, <1>10, <2>1, <2>2, <2>3 DEF Admitted
<1> QED BY <1>1, <1>11 DEF admitted

\* What a critical section that admits a key and writes the state of its slot
\* leaves.
Written(shard, slot, state, after) ==
  /\ WellFormed(after)
  /\ Capped(Tracked(after))
  /\ slot \in Tracked(after)
  /\ after.entries[slot] = state
  /\ \A k \in Tracked(after) \ {slot} :
       k \in Tracked(shard) /\ after.entries[k] = shard.entries[k]

\* Shard::admit and the caller's write behind the entry: the shard stays
\* well-formed and bounded, other entries stay as they are or are evicted.
LEMMA AdmitAndPut ==
  ASSUME NEW shard, NEW key, NEW evictable, NEW admitted,
         Admitted(shard, key, evictable, admitted), NEW state
  PROVE  Written(shard, admitted.slot, state, Put(admitted.shard, admitted.slot, state))
<1> DEFINE sh == admitted.shard
           slot == admitted.slot
           after == Put(sh, slot, state)
<1>1. /\ sh = [entries |-> sh.entries, order |-> sh.order]
      /\ Lists(sh.order, Tracked(sh) \cup {slot})
      /\ Capped(Tracked(sh) \cup {slot})
      /\ Tracked(sh) \subseteq Tracked(shard)
      /\ \A k \in Tracked(sh) : sh.entries[k] = shard.entries[k]
  BY DEF Admitted
<1> HIDE DEF sh, slot
<1>2. Placed(sh, slot, state, after)
  BY <1>1, PutShard
<1> HIDE DEF after
<1>3. Written(shard, slot, state, after)
  BY <1>1, <1>2 DEF Written, Placed
<1> QED BY <1>3 DEF after, sh, slot
================================================================================
