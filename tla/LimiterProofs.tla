------------------------------ MODULE LimiterProofs ------------------------------
(***************************************************************************)
(* Proofs about the limiters, for any number of concurrent requests and    *)
(* keys, any capacity, cleanup budget, rate, burst, window and threshold:  *)
(* those that keep their state in a bounded shard (the leaky buckets of    *)
(* limit-req, the breakers of api-breaker, the counters of limit-conn and  *)
(* the sliding windows of limit-count), and the named groups of            *)
(* limit-count across any number of reloads.                               *)
(***************************************************************************)
EXTENDS LimitReq, LimitCount, ApiBreaker, LimitConn, LimitGroups, ShardProofs, FunctionTheorems

--------------------------------------------------------------------------------
(* limit-req. *)

reqAll == <<reqVars, clock>>

ReqTypes ==
  /\ clock \in Nat
  /\ DOMAIN call = ReqClients
  /\ \A r \in ReqClients : call[r].pc = "lock" => call[r].now \in Nat

\* A bucket's excess is what it has let pass since it was made, less what has
\* drained; a moved-back anchor lets the same time drain twice.
Fair(b) ==
  /\ b = [excess |-> b.excess, last |-> b.last, born |-> b.born,
          passed |-> b.passed, movedBack |-> b.movedBack]
  /\ b.excess \in Nat /\ b.excess <= Burst
  /\ b.last \in Int /\ b.born \in Int /\ b.passed \in Int /\ b.movedBack \in Int
  /\ (b.passed - 1) * Cost <= b.excess + (b.last - b.born) + b.movedBack

BucketsFair ==
  /\ WellFormed(buckets)
  /\ Capped(Tracked(buckets))
  /\ \A k \in Tracked(buckets) : Fair(buckets.entries[k])

ReqInv == ReqTypes /\ BucketsFair

\* leaky_bucket_step keeps a bucket fair, also with a reading of the clock that
\* is older than the bucket's anchor.
LEMMA IncomingFair ==
  ASSUME NEW b, Fair(b), NEW now \in Int
  PROVE  Fair(BucketIncoming(b, now))
<1>1. CASE ~Accepts(b, now)
  BY <1>1 DEF BucketIncoming
<1>2. CASE Accepts(b, now)
  <2> DEFINE excess == Excess(b, now)
             moved == b.movedBack + Since(b.last, now)
             next == [excess |-> excess, last |-> now, born |-> b.born,
                      passed |-> b.passed + 1, movedBack |-> moved]
  <2>1. BucketIncoming(b, now) = next
    BY <1>2 DEF BucketIncoming, Fair
  <2>2. b.excess \in Nat /\ b.last \in Int /\ b.born \in Int /\ b.passed \in Int /\ b.movedBack \in Int
    BY DEF Fair
  <2>3. (b.passed - 1) * Cost <= b.excess + (b.last - b.born) + b.movedBack
    BY DEF Fair
  <2>4. excess \in Nat /\ excess <= Burst
    BY <1>2, <2>2, ReqAssumption DEF Accepts, Excess, AtLeastZero, Since
  <2>5. moved \in Int
    BY <2>2 DEF Since, AtLeastZero
  <2>6. excess + (now - b.born) + moved >= b.excess + (b.last - b.born) + b.movedBack + Cost
    BY <2>2, ReqAssumption DEF Excess, AtLeastZero, Since
  <2> HIDE DEF excess, moved
  <2>7. (b.passed + 1 - 1) * Cost = (b.passed - 1) * Cost + Cost
    BY <2>2, ReqAssumption
  <2>8. (b.passed - 1) * Cost \in Int /\ Cost \in Int
    BY <2>2, ReqAssumption
  <2>9. (b.passed + 1 - 1) * Cost <= excess + (now - b.born) + moved
    BY <2>2, <2>3, <2>4, <2>5, <2>6, <2>7, <2>8
  <2>10. Fair(next)
    BY <2>2, <2>4, <2>5, <2>9 DEF Fair
  <2> QED BY <2>1, <2>10
<1> QED BY <1>1, <1>2

\* A bucket made for its first request.
LEMMA NewBucketFair ==
  ASSUME NEW now \in Int
  PROVE  Fair(NewBucket(now))
<1>1. (1 - 1) * Cost = 0
  BY ReqAssumption
<1> QED BY <1>1, ReqAssumption DEF Fair, NewBucket

\* An empty map of buckets.
LEMMA ReqInvInit == ReqInit /\ clock = 0 => ReqInv
<1> SUFFICES ASSUME ReqInit, clock = 0 PROVE ReqInv
  OBVIOUS
<1>1. ReqTypes
  BY DEF ReqInit, ReqTypes, ReqIdle
<1>2. WellFormed(buckets) /\ Capped(Tracked(buckets))
  BY EmptyWellFormed DEF ReqInit
<1>3. Tracked(buckets) = {}
  BY DEF ReqInit, EmptyShard, Tracked
<1> QED BY <1>1, <1>2, <1>3 DEF ReqInv, BucketsFair

\* The critical section of request_filter, with whatever reading of the clock.
LEMMA IncomingKeepsBuckets ==
  ASSUME ReqInv, NEW r \in ReqClients, Incoming(r)
  PROVE  BucketsFair'
<1> DEFINE now == call[r].now
           admitted == Admit(buckets, call[r].key, Drained(now), "Restore")
           shard == admitted.shard
           slot == admitted.slot
           state == IF slot \in Tracked(shard) THEN BucketIncoming(shard.entries[slot], now)
                    ELSE NewBucket(now)
<1>1. buckets' = Put(shard, slot, state) /\ now \in Int
  BY DEF Incoming, ReqInv, ReqTypes
<1>2. WellFormed(buckets) /\ Capped(Tracked(buckets))
  BY DEF ReqInv, BucketsFair
<1>3. Admitted(buckets, call[r].key, Drained(now), admitted)
  BY <1>2, AdmitShard
<1> HIDE DEF now, admitted
<1>4. \A k \in Tracked(shard) : k \in Tracked(buckets) /\ shard.entries[k] = buckets.entries[k]
  BY <1>3 DEF Admitted
<1>5. Fair(state)
  <2>1. CASE slot \in Tracked(shard)
    <3>1. Fair(shard.entries[slot])
      BY <1>4, <2>1 DEF ReqInv, BucketsFair
    <3> QED BY <1>1, <2>1, <3>1, IncomingFair
  <2>2. CASE slot \notin Tracked(shard)
    BY <1>1, <2>2, NewBucketFair
  <2> QED BY <2>1, <2>2
<1> HIDE DEF state
<1>6. Written(buckets, slot, state, buckets')
  BY <1>1, <1>3, AdmitAndPut
<1>7. \A k \in Tracked(buckets)' : Fair(buckets'.entries[k])
  BY <1>5, <1>6 DEF Written, ReqInv, BucketsFair
<1>8. WellFormed(buckets') /\ Capped(Tracked(buckets'))
  BY <1>6 DEF Written
<1> QED BY <1>7, <1>8 DEF BucketsFair

\* Readings of the clock, critical sections and time keep the buckets fair.
LEMMA ReqInvNext ==
  ASSUME ReqInv, [ReqNext \/ (ClockTicks /\ UNCHANGED reqVars)]_reqAll
  PROVE  ReqInv'
<1>1. CASE UNCHANGED reqAll
  BY <1>1 DEF ReqInv, ReqTypes, BucketsFair, reqAll, reqVars
<1>2. CASE ClockTicks /\ UNCHANGED reqVars
  BY <1>2 DEF ReqInv, ReqTypes, BucketsFair, reqVars, ClockTicks
<1>3. ASSUME NEW r \in ReqClients, NEW key \in ReqKeys, ReadClock(r, key)
      PROVE  ReqInv'
  <2>1. ReqTypes'
    BY <1>3 DEF ReadClock, ReqInv, ReqTypes
  <2> QED BY <1>3, <2>1 DEF ReadClock, ReqInv, BucketsFair
<1>4. ASSUME NEW r \in ReqClients, Incoming(r)
      PROVE  ReqInv'
  <2>1. ReqTypes'
    BY <1>4 DEF Incoming, ReqInv, ReqTypes, ReqIdle
  <2> QED BY <1>4, <2>1, IncomingKeepsBuckets DEF ReqInv
<1> QED BY <1>1, <1>2, <1>3, <1>4 DEF ReqNext

\* Whatever the interleaving of clock readings and critical sections, a bucket
\* lets no more pass than the rate, the burst and the time its anchor was moved
\* back allow, and the map of buckets keeps to its capacity.
THEOREM RateHonoured == ReqSpec => []WithinRate
<1>1. ReqInit /\ clock = 0 => ReqInv
  BY ReqInvInit
<1>2. ReqInv /\ [ReqNext \/ (ClockTicks /\ UNCHANGED reqVars)]_reqAll => ReqInv'
  BY ReqInvNext
<1>3. ReqInv => WithinRate
  <2> SUFFICES ASSUME ReqInv PROVE WithinRate
    OBVIOUS
  <2>1. Bounded(buckets)
    BY CappedBounded DEF ReqInv, BucketsFair
  <2>2. ASSUME NEW k \in Tracked(buckets)
        PROVE  LET b == buckets.entries[k] IN
               (b.passed - 1) * Cost <= Burst + (b.last - b.born) + b.movedBack
    <3> DEFINE b == buckets.entries[k]
               most == (b.passed - 1) * Cost
    <3>1. Fair(b)
      BY <2>2 DEF ReqInv, BucketsFair
    <3> HIDE DEF b
    <3>2. most \in Int
      BY <3>1, ReqAssumption DEF Fair
    <3>3. most <= b.excess + (b.last - b.born) + b.movedBack
      BY <3>1 DEF Fair
    <3> HIDE DEF most
    <3>4. most <= Burst + (b.last - b.born) + b.movedBack
      BY <3>1, <3>2, <3>3, ReqAssumption DEF Fair
    <3> QED BY <3>4 DEF b, most
  <2> QED BY <2>1, <2>2 DEF WithinRate
<1> QED BY <1>1, <1>2, <1>3, PTL DEF ReqSpec, reqAll

--------------------------------------------------------------------------------
(* api-breaker: the arithmetic of a trip. *)

\* The count modulo the threshold, as far as unhealthy_response uses it: the
\* first multiple is the threshold itself.
LEMMA FirstMultiple ==
  ASSUME NEW n \in Nat \ {0}, n <= Failures
  PROVE  (n % Failures = 0) <=> (n = Failures)
BY BreakerAssumption

\* A further failure never lowers the number of trips it stands for.
LEMMA QuotientGrows ==
  ASSUME NEW n \in Nat
  PROVE  /\ n \div Failures \in Int /\ (n + 1) \div Failures \in Int
         /\ n \div Failures <= (n + 1) \div Failures
BY BreakerAssumption

\* A longer exponent gives a longer window.
LEMMA PowerGrows ==
  ASSUME NEW m \in Nat, NEW n \in Nat, m <= n
  PROVE  2 ^ m \in Nat /\ 2 ^ n \in Nat /\ 2 ^ m <= 2 ^ n
<1>1. IsFiniteSet(1..m) /\ Cardinality(1..m) = m /\ IsFiniteSet(1..n) /\ Cardinality(1..n) = n
  BY FS_Interval
<1>2. /\ IsFiniteSet(SUBSET (1..m)) /\ Cardinality(SUBSET (1..m)) = 2 ^ m
      /\ IsFiniteSet(SUBSET (1..n)) /\ Cardinality(SUBSET (1..n)) = 2 ^ n
  BY <1>1, FS_SUBSET
<1>3. SUBSET (1..m) \in SUBSET SUBSET (1..n)
  OBVIOUS
<1> DEFINE few == SUBSET (1..m)
           many == SUBSET (1..n)
<1> HIDE DEF few, many
<1>4. few \in SUBSET many /\ IsFiniteSet(many) /\ IsFiniteSet(few)
  BY <1>2, <1>3 DEF few, many
<1>5. Cardinality(few) <= Cardinality(many) /\ Cardinality(few) \in Nat /\ Cardinality(many) \in Nat
  BY <1>4, FS_Subset, FS_CardinalityType
<1> QED BY <1>2, <1>5 DEF few, many

\* breaker_secs: the window never gets shorter with a further failure.
LEMMA WindowGrows ==
  ASSUME NEW n \in Nat
  PROVE  BreakerSecs(n) \in Nat /\ BreakerSecs(n) <= BreakerSecs(n + 1) /\ BreakerSecs(n + 1) \in Nat
<1> DEFINE exponent(times) == IF times < 1 THEN 1 ELSE Least(times, MaxExponent)
           few == exponent(n \div Failures)
           many == exponent((n + 1) \div Failures)
<1>1. BreakerSecs(n) = Least(2 ^ few, MaxBreakerSec) /\ BreakerSecs(n + 1) = Least(2 ^ many, MaxBreakerSec)
  BY DEF BreakerSecs
<1>2. few \in Nat /\ many \in Nat /\ few <= many
  BY QuotientGrows, BreakerAssumption DEF Least
<1> HIDE DEF few, many
<1>3. 2 ^ few \in Nat /\ 2 ^ many \in Nat /\ 2 ^ few <= 2 ^ many
  BY <1>2, PowerGrows
<1> DEFINE p == 2 ^ few
           q == 2 ^ many
<1> HIDE DEF p, q
<1>4. p \in Nat /\ q \in Nat /\ p <= q
  BY <1>3 DEF p, q
<1>5. Least(p, MaxBreakerSec) \in Nat /\ Least(q, MaxBreakerSec) \in Nat /\
      Least(p, MaxBreakerSec) <= Least(q, MaxBreakerSec)
  BY <1>4, BreakerAssumption DEF Least
<1> QED BY <1>1, <1>5 DEF p, q

--------------------------------------------------------------------------------
(* api-breaker: the map of breakers. *)

\* What BreakerStates::entry makes of a map that holds at most MaxBreakerKeys.
Entered(shard, key, after) ==
  /\ WellFormed(after)
  /\ Cardinality(Tracked(after)) <= MaxBreakerKeys
  /\ key \in Tracked(after)
  /\ \A k \in Tracked(after) :
       /\ k \in Tracked(shard) => after.entries[k] = shard.entries[k]
       /\ k \notin Tracked(shard) => k = key /\ after.entries[k] = ClosedBreaker

\* BreakerStates::entry makes room before it inserts, and only for a new key.
LEMMA EntryShard ==
  ASSUME NEW key, WellFormed(breakers), Cardinality(Tracked(breakers)) <= MaxBreakerKeys
  PROVE  Entered(breakers, key, BreakerEntry(key))
<1> DEFINE room == IF key \notin Tracked(breakers) /\ Cardinality(Tracked(breakers)) >= MaxBreakerKeys
                   THEN EvictOldest(breakers) ELSE breakers
           touched == Touch(room, key)
           after == BreakerEntry(key)
<1>1. after = IF key \in Tracked(touched) THEN touched ELSE Put(touched, key, ClosedBreaker)
  BY DEF BreakerEntry
<1>2. IsFiniteSet(Tracked(breakers)) /\ Cardinality(Tracked(breakers)) \in Nat
  BY ListsCount, FS_CardinalityType DEF WellFormed
<1>3. /\ WellFormed(room)
      /\ Tracked(room) \subseteq Tracked(breakers)
      /\ \A k \in Tracked(room) : room.entries[k] = breakers.entries[k]
      /\ key \in Tracked(breakers) => room = breakers
      /\ Cardinality(Tracked(room)) <= MaxBreakerKeys
      /\ key \notin Tracked(breakers) => Cardinality(Tracked(room)) < MaxBreakerKeys
  <2>1. CASE key \notin Tracked(breakers) /\ Cardinality(Tracked(breakers)) >= MaxBreakerKeys
    <3>1. breakers.order # <<>>
      <4>1. Cardinality(Tracked(breakers)) = Len(breakers.order)
        BY ListsCount DEF WellFormed
      <4> QED BY <2>1, <4>1, BreakerAssumption
    <3>2. Head(breakers.order) \in Tracked(breakers)
      BY <3>1, HeadTracked
    <3> DEFINE oldest == Head(breakers.order)
    <3>3. room = Forget(breakers, oldest)
      BY <2>1, <3>1 DEF EvictOldest
    <3> HIDE DEF oldest, room
    <3>4. /\ WellFormed(room)
          /\ Tracked(room) = Tracked(breakers) \ {oldest}
          /\ \A k \in Tracked(room) : room.entries[k] = breakers.entries[k]
      BY <3>3, ForgetShard
    <3>5. Cardinality(Tracked(breakers) \ {oldest}) =
            IF oldest \in Tracked(breakers) THEN Cardinality(Tracked(breakers)) - 1
            ELSE Cardinality(Tracked(breakers))
      BY <1>2, FS_RemoveElement
    <3>6. Cardinality(Tracked(room)) = Cardinality(Tracked(breakers)) - 1
      BY <3>2, <3>4, <3>5 DEF oldest
    <3> QED BY <1>2, <2>1, <3>4, <3>6, BreakerAssumption
  <2>2. CASE ~(key \notin Tracked(breakers) /\ Cardinality(Tracked(breakers)) >= MaxBreakerKeys)
    <3>1. room = breakers
      BY <2>2
    <3> HIDE DEF room
    <3> QED BY <1>2, <2>2, <3>1, BreakerAssumption
  <2> QED BY <2>1, <2>2
<1> HIDE DEF room
<1>4. /\ touched = [entries |-> room.entries, order |-> touched.order]
      /\ Tracked(touched) = Tracked(room)
      /\ touched.entries = room.entries
      /\ Lists(touched.order, Tracked(room) \cup {key})
  BY <1>3, TouchShard
<1> HIDE DEF touched
<1>5. CASE key \in Tracked(touched)
  <2>1. after = touched /\ Tracked(room) \cup {key} = Tracked(room)
    BY <1>1, <1>4, <1>5
  <2> HIDE DEF after
  <2>2. WellFormed(after)
    <3>1. touched = [entries |-> touched.entries, order |-> touched.order]
      BY <1>4
    <3>2. touched.entries = [k \in Tracked(touched) |-> touched.entries[k]]
      BY <1>3, <1>4 DEF WellFormed
    <3>3. Lists(touched.order, Tracked(touched))
      BY <1>4, <2>1
    <3> QED BY <2>1, <3>1, <3>2, <3>3 DEF WellFormed
  <2> QED BY <1>3, <1>4, <1>5, <2>1, <2>2 DEF Entered, after
<1>6. CASE key \notin Tracked(touched)
  <2>1. after = Put(touched, key, ClosedBreaker)
    BY <1>1, <1>6
  <2> HIDE DEF after
  <2>2. /\ touched = [entries |-> touched.entries, order |-> touched.order]
        /\ Lists(touched.order, Tracked(touched) \cup {key})
    BY <1>4
  <2>3. Placed(touched, key, ClosedBreaker, after)
    BY <2>1, <2>2, PutShard
  <2>4. key \notin Tracked(breakers)
    BY <1>3, <1>4, <1>6
  <2>5. IsFiniteSet(Tracked(room))
    BY <1>2, <1>3, FS_Subset
  <2>6. Cardinality(Tracked(room) \cup {key}) =
          IF key \in Tracked(room) THEN Cardinality(Tracked(room)) ELSE Cardinality(Tracked(room)) + 1
    BY <2>5, FS_AddElement
  <2>7. Cardinality(Tracked(room)) \in Nat
    BY <2>5, FS_CardinalityType
  <2>8. Cardinality(Tracked(after)) <= MaxBreakerKeys
    BY <1>3, <1>4, <2>3, <2>4, <2>6, <2>7, BreakerAssumption DEF Placed
  <2> QED BY <1>3, <1>4, <2>3, <2>4, <2>8 DEF Entered, Placed, after
<1> QED BY <1>5, <1>6

--------------------------------------------------------------------------------
(* api-breaker: requests, breakers and what is known of their past. *)

breakerAll == <<breakerVars, clock>>

BreakerTypes ==
  /\ clock \in Nat
  /\ DOMAIN served = BreakerClients
  /\ \A r \in BreakerClients :
       served[r].pc \in {"ask", "inflight"} =>
         /\ served[r] = [pc |-> served[r].pc, key |-> served[r].key, now |-> served[r].now]
         /\ served[r].key \in Routes /\ served[r].now \in Nat

\* One breaker: tripped exactly from the threshold on, in the past.
Sound(state) ==
  /\ state = [unhealthy |-> state.unhealthy, healthy |-> state.healthy,
              lasttime |-> state.lasttime]
  /\ state.unhealthy \in Nat /\ state.healthy \in Nat
  /\ state.lasttime \in Nat \cup {NoTrip} /\ state.lasttime <= clock
  /\ (state.lasttime # NoTrip) <=> (state.unhealthy >= Failures)
  /\ state.healthy > 0 => state.lasttime # NoTrip
  /\ state.healthy < Successes

\* The breaker's own count is no longer than the streak of healthy responses it
\* stands for, and the window it computes covers every trip since it closed.
Backed(state, past) ==
  /\ past = [until |-> past.until, streak |-> past.streak]
  /\ past.until \in Int /\ past.streak \in Nat
  /\ state.healthy <= past.streak
  /\ state.lasttime = NoTrip => past.until = NoTrip
  /\ state.lasttime # NoTrip => past.until <= state.lasttime + BreakerSecs(state.unhealthy)

Forgotten == [until |-> NoTrip, streak |-> 0]

BreakersSound ==
  /\ WellFormed(breakers)
  /\ Tracked(breakers) \subseteq Routes
  /\ Cardinality(Tracked(breakers)) <= MaxBreakerKeys
  /\ DOMAIN history = Routes
  /\ \A k \in Tracked(breakers) :
       Sound(breakers.entries[k]) /\ Backed(breakers.entries[k], history[k])
  /\ \A k \in Routes \ Tracked(breakers) : history[k] = Forgotten

BreakerInv == BreakerTypes /\ BreakersSound

\* A new breaker, or one that has recovered.
LEMMA ClosedSound ==
  ASSUME clock \in Nat
  PROVE  Sound(ClosedBreaker) /\ Backed(ClosedBreaker, Forgotten)
BY BreakerAssumption DEF Sound, Backed, ClosedBreaker, Forgotten, NoTrip

\* An unhealthy response, also one that comes after a trip or a recovery.
LEMMA UnhealthySound ==
  ASSUME clock \in Nat, NEW state, Sound(state), NEW past, Backed(state, past),
         NEW after, after = AfterUnhealthy(state)
  PROVE  /\ Sound(after)
         /\ after.lasttime = NoTrip => state.lasttime = NoTrip
         /\ Backed(after,
              [until |-> IF after.unhealthy % Failures = 0
                         THEN Greatest(past.until, clock + BreakerSecs(after.unhealthy))
                         ELSE past.until,
               streak |-> 0])
<1> DEFINE n == state.unhealthy
           trips == (n + 1) % Failures = 0
           last == IF trips THEN clock ELSE state.lasttime
<1>1. n \in Nat /\ state.lasttime \in Nat \cup {NoTrip} /\ state.lasttime <= clock
      /\ ((state.lasttime # NoTrip) <=> (n >= Failures))
  BY DEF Sound
<1>2. after = [unhealthy |-> n + 1, healthy |-> 0, lasttime |-> last]
  BY DEF AfterUnhealthy, Sound
<1> HIDE DEF n, last
<1>3. after.unhealthy = n + 1 /\ after.healthy = 0 /\ after.lasttime = last
  BY <1>2
<1>4. n + 1 <= Failures => (trips <=> n + 1 = Failures)
  BY <1>1, FirstMultiple
<1> HIDE DEF trips
<1>5. last = IF trips THEN clock ELSE state.lasttime
  BY DEF last
<1>6. last \in Nat \cup {NoTrip} /\ last <= clock /\ ((last # NoTrip) <=> (n + 1 >= Failures))
  BY <1>1, <1>4, <1>5, BreakerAssumption DEF NoTrip
<1>7. Sound(after)
  BY <1>1, <1>2, <1>3, <1>6, BreakerAssumption DEF Sound
<1>8. last = NoTrip => state.lasttime = NoTrip /\ ~trips
  BY <1>1, <1>5 DEF NoTrip
<1> DEFINE w == BreakerSecs(n)
           v == BreakerSecs(n + 1)
           until == IF trips THEN Greatest(past.until, clock + v) ELSE past.until
<1>9. w \in Nat /\ v \in Nat /\ w <= v
  BY <1>1, WindowGrows
<1>10. /\ past.until \in Int /\ (state.lasttime = NoTrip => past.until = NoTrip)
       /\ (state.lasttime # NoTrip => past.until <= state.lasttime + w)
  BY DEF Backed, n
<1> HIDE DEF w, v
<1>11. until \in Int /\ (last = NoTrip => until = NoTrip) /\ (last # NoTrip => until <= last + v)
  BY <1>1, <1>5, <1>8, <1>9, <1>10 DEF Greatest, NoTrip
<1> DEFINE new == [until |-> IF after.unhealthy % Failures = 0
                             THEN Greatest(past.until, clock + BreakerSecs(after.unhealthy))
                             ELSE past.until,
                   streak |-> 0]
<1>12. new = [until |-> until, streak |-> 0]
  BY <1>3 DEF trips, v
<1> HIDE DEF new, until
<1>13. Backed(after, new)
  BY <1>3, <1>11, <1>12 DEF Backed, v
<1> QED BY <1>3, <1>7, <1>8, <1>13 DEF new

\* A healthy response: the breaker closes when the streak is long enough.
LEMMA HealthySound ==
  ASSUME clock \in Nat, NEW state, Sound(state), NEW past, Backed(state, past),
         NEW after, after = AfterHealthy(state)
  PROVE  /\ Sound(after)
         /\ Backed(after, [until |-> IF after.lasttime = NoTrip THEN NoTrip ELSE past.until,
                           streak |-> past.streak + 1])
         /\ state.lasttime # NoTrip /\ after.lasttime = NoTrip => past.streak + 1 >= Successes
<1> DEFINE new == [until |-> IF after.lasttime = NoTrip THEN NoTrip ELSE past.until,
                   streak |-> past.streak + 1]
<1>0. /\ past.streak \in Nat /\ past.until \in Int /\ state.healthy \in Nat
      /\ state.healthy <= past.streak
  BY DEF Backed, Sound
<1> DEFINE until == IF after.lasttime = NoTrip THEN NoTrip ELSE past.until
           streak == past.streak + 1
<1>a. new = [until |-> until, streak |-> streak] /\ streak \in Nat
  BY <1>0
<1> HIDE DEF new, until, streak
<1>1. /\ new.streak = past.streak + 1 /\ new.streak \in Nat
      /\ new.until = (IF after.lasttime = NoTrip THEN NoTrip ELSE past.until)
      /\ new = [until |-> new.until, streak |-> new.streak]
  BY <1>a DEF until, streak
<1> HIDE DEF new
<1>2. CASE state.lasttime = NoTrip
  <2>1. after = state
    BY <1>2 DEF AfterHealthy
  <2> QED BY <1>0, <1>1, <1>2, <2>1 DEF Sound, Backed, new, NoTrip
<1>3. CASE state.lasttime # NoTrip /\ state.healthy + 1 >= Successes
  <2>1. after = ClosedBreaker
    BY <1>0, <1>3, BreakerAssumption DEF AfterHealthy, Recovered
  <2>2. Sound(after)
    BY <2>1, ClosedSound
  <2>3. after.lasttime = NoTrip /\ after.healthy = 0
    BY <2>1 DEF ClosedBreaker
  <2>4. Backed(after, new)
    BY <1>0, <1>1, <2>3 DEF Backed, NoTrip
  <2>5. past.streak + 1 >= Successes
    BY <1>0, <1>3, BreakerAssumption
  <2> QED BY <2>2, <2>4, <2>5 DEF new
<1>4. CASE state.lasttime # NoTrip /\ ~(state.healthy + 1 >= Successes)
  <2>1. after = [unhealthy |-> state.unhealthy, healthy |-> state.healthy + 1,
                 lasttime |-> state.lasttime]
    BY <1>0, <1>4, BreakerAssumption DEF AfterHealthy, Sound
  <2>2. after.unhealthy = state.unhealthy /\ after.healthy = state.healthy + 1
        /\ after.lasttime = state.lasttime
    BY <2>1
  <2>3. Sound(after)
    BY <1>0, <1>4, <2>1, <2>2, BreakerAssumption DEF Sound
  <2>4. Backed(after, new)
    BY <1>0, <1>1, <1>4, <2>2 DEF Backed
  <2> QED BY <1>4, <2>2, <2>3, <2>4 DEF new
<1> QED BY <1>2, <1>3, <1>4

\* A map and a history a critical section may work on.
MapSound(shard, past) ==
  /\ WellFormed(shard)
  /\ Tracked(shard) \subseteq Routes
  /\ Cardinality(Tracked(shard)) <= MaxBreakerKeys
  /\ DOMAIN past = Routes
  /\ past = [k \in Routes |-> past[k]]
  /\ \A k \in Tracked(shard) : Sound(shard.entries[k]) /\ Backed(shard.entries[k], past[k])
  /\ \A k \in Routes \ Tracked(shard) : past[k] = Forgotten

\* BreakerStates::entry, whatever it drops to make room.
LEMMA EntrySound ==
  ASSUME BreakerInv, NEW key \in Routes, NEW shard, shard = BreakerEntry(key)
  PROVE  /\ MapSound(shard, Remembered(shard))
         /\ key \in Tracked(shard)
         /\ \A k \in Tracked(breakers) \cap Tracked(shard) : shard.entries[k] = breakers.entries[k]
<1>1. /\ WellFormed(breakers) /\ Tracked(breakers) \subseteq Routes
      /\ Cardinality(Tracked(breakers)) <= MaxBreakerKeys
      /\ \A k \in Tracked(breakers) :
           Sound(breakers.entries[k]) /\ Backed(breakers.entries[k], history[k])
      /\ \A k \in Routes \ Tracked(breakers) : history[k] = Forgotten
      /\ clock \in Nat
  BY DEF BreakerInv, BreakersSound, BreakerTypes
<1>2. Entered(breakers, key, shard)
  BY <1>1, EntryShard
<1> DEFINE past == Remembered(shard)
<1>3. /\ DOMAIN past = Routes /\ past = [k \in Routes |-> past[k]]
      /\ \A k \in Tracked(shard) \cap Routes : past[k] = history[k]
      /\ \A k \in Routes \ Tracked(shard) : past[k] = Forgotten
  BY DEF Remembered, Forgotten
<1> HIDE DEF past
<1>4. Tracked(shard) \subseteq Routes
  BY <1>1, <1>2 DEF Entered
<1>5. ASSUME NEW k \in Tracked(shard)
      PROVE  Sound(shard.entries[k]) /\ Backed(shard.entries[k], past[k])
  <2>1. past[k] = history[k]
    BY <1>3, <1>4
  <2>2. CASE k \in Tracked(breakers)
    <3>1. shard.entries[k] = breakers.entries[k]
      BY <1>2, <2>2 DEF Entered
    <3> QED BY <1>1, <2>1, <2>2, <3>1
  <2>3. CASE k \notin Tracked(breakers)
    <3>1. shard.entries[k] = ClosedBreaker
      BY <1>2, <2>3 DEF Entered
    <3>2. history[k] = Forgotten
      BY <1>1, <1>4, <2>3
    <3> QED BY <1>1, <2>1, <3>1, <3>2, ClosedSound
  <2> QED BY <2>2, <2>3
<1>6. MapSound(shard, past)
  BY <1>2, <1>3, <1>4, <1>5 DEF MapSound, Entered
<1>7. /\ key \in Tracked(shard)
      /\ \A k \in Tracked(breakers) \cap Tracked(shard) : shard.entries[k] = breakers.entries[k]
  BY <1>2 DEF Entered
<1> QED BY <1>6, <1>7 DEF past

\* The invariant in the state after a step that leaves such a map.
LEMMA MapSoundNext ==
  ASSUME MapSound(breakers', history'), clock' = clock
  PROVE  BreakersSound'
BY DEF MapSound, BreakersSound, Sound

\* is_request_allowed makes room for a breaker and may forget another one.
LEMMA AskSound ==
  ASSUME BreakerInv, NEW r \in BreakerClients, Ask(r)
  PROVE  /\ BreakersSound'
         /\ \A k \in Tracked(breakers) \cap Tracked(breakers') :
              breakers'.entries[k] = breakers.entries[k]
         /\ served'[r].pc = "inflight" => history'[served[r].key].until < served[r].now
<1> DEFINE key == served[r].key
           now == served[r].now
           shard == BreakerEntry(key)
<1>1. /\ breakers' = shard /\ history' = Remembered(shard) /\ clock' = clock
      /\ key \in Routes /\ now \in Nat
  BY DEF Ask, BreakerInv, BreakerTypes
<1>2. served'[r] = IF IsOpen(shard.entries[key], now) THEN ServedIdle
                   ELSE [served[r] EXCEPT !.pc = "inflight"]
  BY DEF Ask, BreakerInv, BreakerTypes
<1>3. served'[r].pc = "inflight" => ~IsOpen(shard.entries[key], now)
  BY <1>2 DEF ServedIdle
<1> HIDE DEF key, now, shard
<1>4. shard = BreakerEntry(key)
  BY DEF shard
<1>5. /\ MapSound(shard, Remembered(shard))
      /\ key \in Tracked(shard)
      /\ \A k \in Tracked(breakers) \cap Tracked(shard) : shard.entries[k] = breakers.entries[k]
  BY <1>1, <1>4, EntrySound
<1>6. BreakersSound'
  BY <1>1, <1>5, MapSoundNext
<1>7. ASSUME served'[r].pc = "inflight" PROVE history'[key].until < now
  <2> DEFINE state == shard.entries[key]
             past == history'[key]
  <2>1. Sound(state) /\ Backed(state, past)
    BY <1>1, <1>5 DEF MapSound
  <2>2. ~IsOpen(state, now)
    BY <1>3, <1>7
  <2> HIDE DEF state, past
  <2>3. state.unhealthy \in Nat /\ state.lasttime \in Nat \cup {NoTrip} /\ past.until \in Int
    BY <2>1 DEF Sound, Backed
  <2> DEFINE w == BreakerSecs(state.unhealthy)
  <2>4. w \in Nat
    BY <2>3, WindowGrows
  <2>5. (state.lasttime = NoTrip => past.until = NoTrip) /\ (state.lasttime # NoTrip => past.until <= state.lasttime + w)
    BY <2>1 DEF Backed
  <2>6. state.lasttime # NoTrip => ~(state.lasttime + w >= now)
    BY <2>2 DEF IsOpen
  <2> HIDE DEF w
  <2>7. past.until < now
    BY <1>1, <2>3, <2>4, <2>5, <2>6 DEF NoTrip
  <2> QED BY <2>7 DEF past
<1> QED BY <1>1, <1>5, <1>6, <1>7 DEF key, now

\* A response of a request that asked before a trip, a recovery or an eviction is
\* counted like any other.
LEMMA RespondSound ==
  ASSUME BreakerInv, NEW r \in BreakerClients,
         NEW verdict \in {"unhealthy", "healthy", "other"}, Respond(r, verdict)
  PROVE  /\ BreakersSound'
         /\ \A k \in Tracked(breakers) \cap Tracked(breakers') :
              breakers.entries[k].lasttime # NoTrip /\ breakers'.entries[k].lasttime = NoTrip
                => history'[k].streak >= Successes
<1> DEFINE key == served[r].key
           shard == BreakerEntry(key)
           before == shard.entries[key]
           after == CASE verdict = "unhealthy" -> AfterUnhealthy(before)
                      [] verdict = "healthy" -> AfterHealthy(before)
                      [] verdict = "other" -> before
           kept == Remembered(shard)
           past == kept[key]
           new == CASE verdict = "unhealthy" ->
                         [until |-> IF after.unhealthy % Failures = 0
                                    THEN Greatest(past.until, clock + BreakerSecs(after.unhealthy))
                                    ELSE past.until,
                          streak |-> 0]
                    [] verdict = "healthy" ->
                         [until |-> IF after.lasttime = NoTrip THEN NoTrip ELSE past.until,
                          streak |-> past.streak + 1]
                    [] verdict = "other" -> past
<1>1. /\ breakers' = Put(shard, key, after) /\ clock' = clock
      /\ key \in Routes /\ clock \in Nat
      /\ history' = [kept EXCEPT ![key] = new]
  BY DEF Respond, BreakerInv, BreakerTypes
<1>2. /\ MapSound(shard, kept)
      /\ key \in Tracked(shard)
      /\ \A k \in Tracked(breakers) \cap Tracked(shard) : shard.entries[k] = breakers.entries[k]
  BY <1>1, EntrySound
<1>3. Sound(before) /\ Backed(before, past)
  BY <1>2 DEF MapSound
<1> HIDE DEF key, shard, kept, before, past
<1>4. /\ Sound(after) /\ Backed(after, new)
      /\ before.lasttime # NoTrip /\ after.lasttime = NoTrip => new.streak >= Successes
  <2>1. CASE verdict = "unhealthy"
    <3>1. after = AfterUnhealthy(before)
      BY <2>1
    <3> HIDE DEF after
    <3>2. new = [until |-> IF after.unhealthy % Failures = 0
                           THEN Greatest(past.until, clock + BreakerSecs(after.unhealthy))
                           ELSE past.until,
                 streak |-> 0]
      BY <2>1
    <3> HIDE DEF new
    <3> QED BY <1>1, <1>3, <3>1, <3>2, UnhealthySound
  <2>2. CASE verdict = "healthy"
    <3>1. after = AfterHealthy(before)
      BY <2>2
    <3> HIDE DEF after
    <3>2. new = [until |-> IF after.lasttime = NoTrip THEN NoTrip ELSE past.until,
                 streak |-> past.streak + 1]
      BY <2>2
    <3>3. new.streak = past.streak + 1
      BY <3>2
    <3> HIDE DEF new
    <3> QED BY <1>1, <1>3, <3>1, <3>2, <3>3, HealthySound
  <2>3. CASE verdict = "other"
    <3>1. after = before /\ new = past
      BY <2>3
    <3> HIDE DEF after, new
    <3> QED BY <1>3, <3>1
  <2> QED BY <2>1, <2>2, <2>3
<1> HIDE DEF after, new
<1>5. Placed(shard, key, after, breakers')
  <2>1. Tracked(shard) \cup {key} = Tracked(shard)
    BY <1>2
  <2>2. shard = [entries |-> shard.entries, order |-> shard.order]
        /\ Lists(shard.order, Tracked(shard) \cup {key})
    BY <1>2, <2>1 DEF MapSound, WellFormed
  <2> QED BY <1>1, <2>2, PutShard
<1>6. /\ WellFormed(breakers') /\ Tracked(breakers') = Tracked(shard)
      /\ breakers'.entries[key] = after
      /\ \A k \in Tracked(shard) \ {key} : breakers'.entries[k] = shard.entries[k]
  BY <1>2, <1>5 DEF Placed
<1>7. /\ DOMAIN history' = Routes /\ history'[key] = new
      /\ \A k \in Routes \ {key} : history'[k] = kept[k]
      /\ history' = [k \in Routes |-> history'[k]]
  BY <1>1, <1>2 DEF MapSound
<1>8. MapSound(breakers', history')
  <2>1. ASSUME NEW k \in Tracked(breakers')
        PROVE  Sound(breakers'.entries[k]) /\ Backed(breakers'.entries[k], history'[k])
    <3>1. CASE k = key
      BY <1>4, <1>6, <1>7, <3>1
    <3>2. CASE k # key
      BY <1>2, <1>6, <1>7, <3>2 DEF MapSound
    <3> QED BY <3>1, <3>2
  <2>2. \A k \in Routes \ Tracked(breakers') : history'[k] = Forgotten
    BY <1>2, <1>6, <1>7 DEF MapSound
  <2>3. Tracked(breakers') \subseteq Routes /\ Cardinality(Tracked(breakers')) <= MaxBreakerKeys
    BY <1>2, <1>6 DEF MapSound
  <2> QED BY <1>6, <1>7, <2>1, <2>2, <2>3 DEF MapSound
<1>9. BreakersSound'
  BY <1>1, <1>8, MapSoundNext
<1>10. ASSUME NEW k \in Tracked(breakers) \cap Tracked(breakers'),
              breakers.entries[k].lasttime # NoTrip, breakers'.entries[k].lasttime = NoTrip
       PROVE  history'[k].streak >= Successes
  <2>1. breakers.entries[k] = shard.entries[k]
    BY <1>2, <1>6
  <2>2. k = key
    BY <1>6, <1>10, <2>1
  <2>3. before.lasttime # NoTrip /\ after.lasttime = NoTrip
    BY <1>6, <1>10, <2>1, <2>2 DEF before
  <2> QED BY <1>4, <1>7, <2>2, <2>3
<1> QED BY <1>9, <1>10

\* The requests of api-breaker stay typed.
LEMMA BreakerTypesNext ==
  ASSUME BreakerTypes, [BreakerNext \/ (ClockTicks /\ UNCHANGED breakerVars)]_breakerAll
  PROVE  BreakerTypes'
<1>1. CASE UNCHANGED breakerAll
  BY <1>1 DEF BreakerTypes, breakerAll, breakerVars
<1>2. CASE ClockTicks /\ UNCHANGED breakerVars
  BY <1>2 DEF BreakerTypes, breakerVars, ClockTicks
<1>3. ASSUME NEW r \in BreakerClients, NEW key \in Routes, BreakerArrive(r, key)
      PROVE  BreakerTypes'
  BY <1>3 DEF BreakerArrive, BreakerTypes
<1>4. ASSUME NEW r \in BreakerClients, Ask(r) PROVE BreakerTypes'
  <2> DEFINE open == IsOpen(BreakerEntry(served[r].key).entries[served[r].key], served[r].now)
  <2>1. /\ served' = [served EXCEPT ![r] = IF open THEN ServedIdle ELSE [@ EXCEPT !.pc = "inflight"]]
        /\ served[r].pc = "ask" /\ clock' = clock
    BY <1>4 DEF Ask
  <2> HIDE DEF open
  <2>2. [served[r] EXCEPT !.pc = "inflight"] =
          [pc |-> "inflight", key |-> served[r].key, now |-> served[r].now]
    BY <2>1 DEF BreakerTypes
  <2>3. served'[r] \in {ServedIdle, [pc |-> "inflight", key |-> served[r].key, now |-> served[r].now]}
    BY <2>1, <2>2 DEF BreakerTypes
  <2>4. DOMAIN served' = BreakerClients /\ \A q \in BreakerClients \ {r} : served'[q] = served[q]
    BY <2>1 DEF BreakerTypes
  <2> QED BY <2>1, <2>3, <2>4 DEF BreakerTypes, ServedIdle
<1>5. ASSUME NEW r \in BreakerClients, NEW verdict \in {"unhealthy", "healthy", "other"},
             Respond(r, verdict)
      PROVE  BreakerTypes'
  <2>1. served' = [served EXCEPT ![r] = ServedIdle] /\ clock' = clock
    BY <1>5 DEF Respond
  <2> QED BY <2>1 DEF BreakerTypes, ServedIdle
<1>6. ASSUME NEW r \in BreakerClients, NoResponse(r) PROVE BreakerTypes'
  BY <1>6 DEF NoResponse, BreakerTypes, ServedIdle
<1> QED BY <1>1, <1>2, <1>3, <1>4, <1>5, <1>6 DEF BreakerNext

\* A later clock leaves every breaker sound.
LEMMA BreakersSoundTicks ==
  ASSUME BreakerInv, UNCHANGED <<breakers, history>>, clock' \in Nat, clock' >= clock
  PROVE  BreakersSound'
<1>1. ASSUME NEW k \in Tracked(breakers) PROVE Sound(breakers.entries[k])'
  <2> DEFINE state == breakers.entries[k]
  <2>1. Sound(state) /\ state' = state /\ clock \in Nat
    BY DEF BreakerInv, BreakersSound, BreakerTypes
  <2>2. state.lasttime \in Int
    BY <2>1 DEF Sound, NoTrip
  <2>3. state.lasttime <= clock'
    BY <2>1, <2>2 DEF Sound
  <2> QED BY <2>1, <2>3 DEF Sound
<1> QED BY <1>1 DEF BreakerInv, BreakersSound

\* An empty map of breakers.
LEMMA BreakerInvInit == BreakerInit /\ clock = 0 => BreakerInv
<1> SUFFICES ASSUME BreakerInit, clock = 0 PROVE BreakerInv
  OBVIOUS
<1>1. BreakerTypes
  BY DEF BreakerInit, BreakerTypes, ServedIdle
<1>2. WellFormed(breakers) /\ Tracked(breakers) = {}
  <2>1. WellFormed(breakers)
    BY EmptyWellFormed DEF BreakerInit
  <2> QED BY <2>1 DEF BreakerInit, EmptyShard, Tracked
<1>3. Cardinality({}) <= MaxBreakerKeys
  BY FS_EmptySet, BreakerAssumption
<1> QED BY <1>1, <1>2, <1>3 DEF BreakerInv, BreakersSound, BreakerInit, Forgotten

\* Every step: the invariant, and what a step may do to a tripped breaker and to
\* a request that asks it.
LEMMA BreakerStep ==
  ASSUME BreakerInv, [BreakerNext \/ (ClockTicks /\ UNCHANGED breakerVars)]_breakerAll
  PROVE  /\ BreakerInv'
         /\ \A k \in Tracked(breakers) \cap Tracked(breakers') :
              (/\ breakers.entries[k].lasttime # NoTrip
               /\ breakers'.entries[k].lasttime = NoTrip)
              => history'[k].streak >= Successes
         /\ \A r \in BreakerClients :
              (served[r].pc = "ask" /\ served'[r].pc = "inflight")
              => history'[served[r].key].until < served[r].now
<1>1. BreakerTypes'
  BY BreakerTypesNext DEF BreakerInv
<1>2. CASE UNCHANGED breakerAll
  <2>1. BreakersSound'
    BY <1>2 DEF BreakerInv, BreakersSound, Sound, breakerAll, breakerVars
  <2> QED BY <1>1, <1>2, <2>1 DEF BreakerInv, breakerAll, breakerVars
<1>3. CASE ClockTicks /\ UNCHANGED breakerVars
  <2>1. BreakersSound'
    BY <1>3, BreakersSoundTicks DEF BreakerInv, BreakerTypes, breakerVars, ClockTicks
  <2> QED BY <1>1, <1>3, <2>1 DEF BreakerInv, breakerVars
<1>4. CASE \E r \in BreakerClients, key \in Routes : BreakerArrive(r, key)
  <2>1. PICK r \in BreakerClients, key \in Routes : BreakerArrive(r, key)
    BY <1>4
  <2>2. UNCHANGED <<breakers, history, clock>> /\ served'[r].pc = "ask"
        /\ \A q \in BreakerClients \ {r} : served'[q] = served[q]
    BY <2>1 DEF BreakerArrive, BreakerInv, BreakerTypes
  <2>3. BreakersSound'
    BY <2>2 DEF BreakerInv, BreakersSound, Sound
  <2> QED BY <1>1, <2>2, <2>3 DEF BreakerInv
<1>5. CASE \E r \in BreakerClients : Ask(r)
  <2>1. PICK r \in BreakerClients : Ask(r)
    BY <1>5
  <2>2. \A q \in BreakerClients \ {r} : served'[q] = served[q]
    BY <2>1 DEF Ask, BreakerInv, BreakerTypes
  <2>3. /\ BreakersSound'
        /\ \A k \in Tracked(breakers) \cap Tracked(breakers') :
             breakers'.entries[k] = breakers.entries[k]
        /\ served'[r].pc = "inflight" => history'[served[r].key].until < served[r].now
    BY <2>1, AskSound
  <2> QED BY <1>1, <2>2, <2>3 DEF BreakerInv
<1>6. CASE \E r \in BreakerClients, verdict \in {"unhealthy", "healthy", "other"} :
             Respond(r, verdict)
  <2>1. PICK r \in BreakerClients, verdict \in {"unhealthy", "healthy", "other"} :
               Respond(r, verdict)
    BY <1>6
  <2>2. served'[r].pc = "idle" /\ \A q \in BreakerClients \ {r} : served'[q] = served[q]
    BY <2>1 DEF Respond, BreakerInv, BreakerTypes, ServedIdle
  <2>3. /\ BreakersSound'
        /\ \A k \in Tracked(breakers) \cap Tracked(breakers') :
             breakers.entries[k].lasttime # NoTrip /\ breakers'.entries[k].lasttime = NoTrip
               => history'[k].streak >= Successes
    BY <2>1, RespondSound
  <2> QED BY <1>1, <2>2, <2>3 DEF BreakerInv
<1>7. CASE \E r \in BreakerClients : NoResponse(r)
  <2>1. PICK r \in BreakerClients : NoResponse(r)
    BY <1>7
  <2>2. UNCHANGED <<breakers, history, clock>> /\ served'[r].pc = "idle"
        /\ \A q \in BreakerClients \ {r} : served'[q] = served[q]
    BY <2>1 DEF NoResponse, BreakerInv, BreakerTypes, ServedIdle
  <2>3. BreakersSound'
    BY <2>2 DEF BreakerInv, BreakersSound, Sound
  <2> QED BY <1>1, <2>2, <2>3 DEF BreakerInv
<1> QED BY <1>2, <1>3, <1>4, <1>5, <1>6, <1>7 DEF BreakerNext

\* Late responses never leave a breaker tripped without its count or over the
\* threshold without a trip, and the map of breakers keeps to its capacity.
THEOREM BreakersConsistent == BreakerSpec => []BreakerConsistent
<1>1. BreakerInit /\ clock = 0 => BreakerInv
  BY BreakerInvInit
<1>2. BreakerInv /\ [BreakerNext \/ (ClockTicks /\ UNCHANGED breakerVars)]_breakerAll => BreakerInv'
  BY BreakerStep
<1>3. BreakerInv => BreakerConsistent
  <2> SUFFICES ASSUME BreakerInv PROVE BreakerConsistent
    OBVIOUS
  <2>1. Len(breakers.order) = Cardinality(Tracked(breakers))
    BY ListsCount DEF BreakerInv, BreakersSound, WellFormed
  <2> QED BY <2>1 DEF BreakerInv, BreakersSound, BreakerConsistent, Sound
<1> QED BY <1>1, <1>2, <1>3, PTL DEF BreakerSpec, breakerAll

\* A breaker closes only after the configured healthy responses in a row, and
\* until then no response shortens the window in which it turns requests away.
THEOREM RecoveryIsEarned == BreakerSpec => RecoveryEarned
<1>1. BreakerInit /\ clock = 0 => BreakerInv
  BY BreakerInvInit
<1>2. BreakerInv /\ [BreakerNext \/ (ClockTicks /\ UNCHANGED breakerVars)]_breakerAll => BreakerInv'
  BY BreakerStep
<1> DEFINE Earned ==
      /\ \A k \in Tracked(breakers) \cap Tracked(breakers') :
           (/\ breakers.entries[k].lasttime # NoTrip
            /\ breakers'.entries[k].lasttime = NoTrip)
           => history'[k].streak >= Successes
      /\ \A r \in BreakerClients :
           (served[r].pc = "ask" /\ served'[r].pc = "inflight")
           => history'[served[r].key].until < served[r].now
<1>3. BreakerInv /\ [BreakerNext \/ (ClockTicks /\ UNCHANGED breakerVars)]_breakerAll
        => [Earned]_breakerAll
  BY BreakerStep
<1> QED BY <1>1, <1>2, <1>3, PTL DEF BreakerSpec, breakerAll, RecoveryEarned

--------------------------------------------------------------------------------
(* limit-conn: the slots of a counter. *)

\* GuardsOn, Deciding and the part of Deciding that sleeps, for any requests c.
HeldIn(c, s) ==
  UNION {{<<r, i>> : i \in {j \in DOMAIN c[r].guards : c[r].guards[j].state = s}} :
         r \in Requests}
DecidingIn(c, s) == {r \in Requests : c[r].state = s /\ c[r].pc \in {"sleep", "reject"}}
SleepingIn(c, s) == {r \in Requests : c[r].state = s /\ c[r].pc = "sleep"}

\* Only request r differs between the requests c and d.
OnlyMoves(c, d, r) == \A q \in Requests \ {r} : d[q] = c[q]

\* A slot is a guard's place in the vector of its request.
LEMMA HeldMember ==
  ASSUME NEW c, NEW s, NEW x
  PROVE  x \in HeldIn(c, s) <=>
           \E r \in Requests : \E i \in DOMAIN c[r].guards :
             x = <<r, i>> /\ c[r].guards[i].state = s
BY DEF HeldIn

\* A step that leaves the guards alone.
LEMMA HeldSame ==
  ASSUME NEW c, NEW d, NEW r \in Requests, OnlyMoves(c, d, r), NEW s,
         d[r].guards = c[r].guards
  PROVE  HeldIn(d, s) = HeldIn(c, s)
<1>1. \A q \in Requests : d[q].guards = c[q].guards
  BY DEF OnlyMoves
<1>2. \A x : x \in HeldIn(d, s) <=> x \in HeldIn(c, s)
  <2> TAKE x
  <2> QED BY <1>1, HeldMember
<1> QED BY <1>2

\* Requests d hold one slot of state t more than requests c, and nothing else.
GainedSlot(c, d, s, t) ==
  /\ t # s => HeldIn(d, s) = HeldIn(c, s)
  /\ t = s => \E x : x \notin HeldIn(c, s) /\ HeldIn(d, s) = HeldIn(c, s) \cup {x}

\* GuardVec::push.
LEMMA HeldPushed ==
  ASSUME NEW c, NEW d, NEW r \in Requests, OnlyMoves(c, d, r), NEW s,
         NEW S, c[r].guards \in Seq(S), NEW g \in S,
         d[r].guards = Append(c[r].guards, g)
  PROVE  GainedSlot(c, d, s, g.state)
<1> DEFINE n == Len(c[r].guards)
           x == <<r, n + 1>>
<1>1. n \in Nat /\ DOMAIN c[r].guards = 1..n /\ DOMAIN d[r].guards = 1..(n + 1)
      /\ d[r].guards[n + 1] = g /\ \A i \in 1..n : d[r].guards[i] = c[r].guards[i]
  OBVIOUS
<1> HIDE DEF n
<1>2. ASSUME NEW y
      PROVE  y \in HeldIn(d, s) <=> y \in HeldIn(c, s) \/ (y = x /\ g.state = s)
  <2>1. ASSUME y \in HeldIn(d, s) PROVE y \in HeldIn(c, s) \/ (y = x /\ g.state = s)
    <3>1. PICK q \in Requests : \E i \in DOMAIN d[q].guards : y = <<q, i>> /\ d[q].guards[i].state = s
      BY <2>1, HeldMember
    <3>2. PICK i \in DOMAIN d[q].guards : y = <<q, i>> /\ d[q].guards[i].state = s
      BY <3>1
    <3>3. CASE q # r
      BY <3>2, <3>3, HeldMember DEF OnlyMoves
    <3>4. CASE q = r /\ i = n + 1
      BY <1>1, <3>2, <3>4
    <3>5. CASE q = r /\ i # n + 1
      <4>1. i \in 1..n
        BY <1>1, <3>5
      <4> QED BY <1>1, <3>2, <3>5, <4>1, HeldMember
    <3> QED BY <3>3, <3>4, <3>5
  <2>2. ASSUME y \in HeldIn(c, s) PROVE y \in HeldIn(d, s)
    <3>1. PICK q \in Requests : \E i \in DOMAIN c[q].guards : y = <<q, i>> /\ c[q].guards[i].state = s
      BY <2>2, HeldMember
    <3>2. PICK i \in DOMAIN c[q].guards : y = <<q, i>> /\ c[q].guards[i].state = s
      BY <3>1
    <3>3. i \in DOMAIN d[q].guards /\ d[q].guards[i] = c[q].guards[i]
      BY <1>1, <3>2 DEF OnlyMoves
    <3> QED BY <3>2, <3>3, HeldMember
  <2>3. ASSUME y = x, g.state = s PROVE y \in HeldIn(d, s)
    <3>1. n + 1 \in DOMAIN d[r].guards
      BY <1>1
    <3> QED BY <1>1, <2>3, <3>1, HeldMember
  <2> QED BY <2>1, <2>2, <2>3
<1>3. x \notin HeldIn(c, s)
  <2> SUFFICES ASSUME x \in HeldIn(c, s) PROVE FALSE
    OBVIOUS
  <2>1. PICK q \in Requests : \E i \in DOMAIN c[q].guards : x = <<q, i>> /\ c[q].guards[i].state = s
    BY HeldMember
  <2>2. PICK i \in DOMAIN c[q].guards : x = <<q, i>>
    BY <2>1
  <2>3. q = r /\ i = n + 1
    BY <2>2
  <2> QED BY <1>1, <2>2, <2>3
<1> HIDE DEF x
<1>4. g.state # s => HeldIn(d, s) = HeldIn(c, s)
  BY <1>2
<1>5. g.state = s => HeldIn(d, s) = HeldIn(c, s) \cup {x}
  BY <1>2
<1> QED BY <1>3, <1>4, <1>5 DEF GainedSlot

\* Requests d hold one slot of state t less than requests c, and nothing else.
LostSlot(c, d, s, t) ==
  /\ IsFiniteSet(HeldIn(d, s))
  /\ Cardinality(HeldIn(d, s)) =
       IF t = s THEN Cardinality(HeldIn(c, s)) - 1 ELSE Cardinality(HeldIn(c, s))

\* A guard leaves the front of a vector of n: the places of the others move up by
\* one, their number stays.
LEMMA HeldShifted ==
  ASSUME NEW c, NEW d, NEW r \in Requests, OnlyMoves(c, d, r), NEW s,
         NEW n \in Nat \ {0}, DOMAIN c[r].guards = 1..n, DOMAIN d[r].guards = 1..(n - 1),
         \A i \in 1..(n - 1) : d[r].guards[i] = c[r].guards[i + 1],
         IsFiniteSet(HeldIn(c, s))
  PROVE  LostSlot(c, d, s, c[r].guards[1].state)
<1> DEFINE rest == HeldIn(c, s) \ {<<r, 1>>}
           from(x) == IF x[1] = r THEN <<r, x[2] + 1>> ELSE x
           f == [x \in HeldIn(d, s) |-> from(x)]
<1>2. <<r, 1>> \in HeldIn(c, s) <=> c[r].guards[1].state = s
  <2>1. ASSUME <<r, 1>> \in HeldIn(c, s) PROVE c[r].guards[1].state = s
    <3>1. PICK q \in Requests : \E i \in DOMAIN c[q].guards : <<r, 1>> = <<q, i>> /\ c[q].guards[i].state = s
      BY <2>1, HeldMember
    <3>2. PICK i \in DOMAIN c[q].guards : <<r, 1>> = <<q, i>> /\ c[q].guards[i].state = s
      BY <3>1
    <3> QED BY <3>2
  <2>2. ASSUME c[r].guards[1].state = s PROVE <<r, 1>> \in HeldIn(c, s)
    <3>1. 1 \in DOMAIN c[r].guards
      OBVIOUS
    <3> QED BY <2>2, <3>1, HeldMember
  <2> QED BY <2>1, <2>2
<1>3. ASSUME NEW x \in HeldIn(d, s) PROVE from(x) \in rest
  <2>1. PICK q \in Requests : \E i \in DOMAIN d[q].guards : x = <<q, i>> /\ d[q].guards[i].state = s
    BY <1>3, HeldMember
  <2>2. PICK i \in DOMAIN d[q].guards : x = <<q, i>> /\ d[q].guards[i].state = s
    BY <2>1
  <2>3. CASE q = r
    <3>5. i \in 1..(n - 1) /\ i + 1 \in DOMAIN c[r].guards
      BY <2>2, <2>3
    <3>6. x[1] = r /\ x[2] = i
      BY <2>2, <2>3
    <3>1. i \in 1..(n - 1) /\ from(x) = <<r, i + 1>> /\ i + 1 \in DOMAIN c[r].guards
      BY <3>5, <3>6
    <3>2. c[r].guards[i + 1].state = s
      BY <2>2, <2>3, <3>1
    <3>3. <<r, i + 1>> \in HeldIn(c, s)
      BY <3>1, <3>2, HeldMember
    <3>4. <<r, i + 1>> # <<r, 1>>
      BY <3>1
    <3> QED BY <3>1, <3>3, <3>4
  <2>4. CASE q # r
    <3>1. from(x) = x /\ d[q] = c[q] /\ x # <<r, 1>>
      BY <2>2, <2>4 DEF OnlyMoves
    <3> QED BY <2>2, <3>1, HeldMember
  <2> QED BY <2>3, <2>4
<1>4. ASSUME NEW x \in HeldIn(d, s), NEW y \in HeldIn(d, s), from(x) = from(y)
      PROVE  x = y
  <2>1. PICK q \in Requests : \E i \in DOMAIN d[q].guards : x = <<q, i>>
    BY <1>4, HeldMember
  <2>2. PICK i \in DOMAIN d[q].guards : x = <<q, i>>
    BY <2>1
  <2>3. PICK p \in Requests : \E j \in DOMAIN d[p].guards : y = <<p, j>>
    BY <1>4, HeldMember
  <2>4. PICK j \in DOMAIN d[p].guards : y = <<p, j>>
    BY <2>3
  <2>5. (q = r => i \in Int) /\ (p = r => j \in Int)
    BY <2>2, <2>4
  <2>10. x[1] = q /\ x[2] = i /\ y[1] = p /\ y[2] = j
    BY <2>2, <2>4
  <2>6. from(x) = <<q, IF q = r THEN i + 1 ELSE i>>
    <3>1. CASE q = r
      BY <2>10, <3>1
    <3>2. CASE q # r
      BY <2>2, <2>10, <3>2
    <3> QED BY <3>1, <3>2
  <2>11. from(y) = <<p, IF p = r THEN j + 1 ELSE j>>
    <3>1. CASE p = r
      BY <2>10, <3>1
    <3>2. CASE p # r
      BY <2>4, <2>10, <3>2
    <3> QED BY <3>1, <3>2
  <2>7. q = p
    BY <1>4, <2>6, <2>11
  <2>8. CASE q = r
    BY <1>4, <2>2, <2>4, <2>5, <2>6, <2>11, <2>7, <2>8
  <2>9. CASE q # r
    BY <1>4, <2>2, <2>4, <2>6, <2>11, <2>7, <2>9
  <2> QED BY <2>8, <2>9
<1>5. ASSUME NEW y \in rest PROVE \E x \in HeldIn(d, s) : from(x) = y
  <2>1. PICK q \in Requests : \E i \in DOMAIN c[q].guards : y = <<q, i>> /\ c[q].guards[i].state = s
    BY <1>5, HeldMember
  <2>2. PICK i \in DOMAIN c[q].guards : y = <<q, i>> /\ c[q].guards[i].state = s
    BY <2>1
  <2>3. CASE q = r
    <3>1. i \in 1..n /\ i # 1
      BY <1>5, <2>2, <2>3
    <3>2. i - 1 \in DOMAIN d[r].guards /\ d[r].guards[i - 1].state = s
      BY <2>2, <2>3, <3>1
    <3>3. <<r, i - 1>> \in HeldIn(d, s)
      BY <3>2, HeldMember
    <3>4. from(<<r, i - 1>>) = y
      BY <2>2, <2>3, <3>1
    <3> QED BY <3>3, <3>4
  <2>4. CASE q # r
    <3>1. y \in HeldIn(d, s)
      BY <2>2, <2>4, HeldMember DEF OnlyMoves
    <3>2. from(y) = y
      BY <2>2, <2>4
    <3> QED BY <3>1, <3>2
  <2> QED BY <2>3, <2>4
<1> HIDE DEF from, rest
<1>6. f \in Bijection(HeldIn(d, s), rest)
  BY <1>3, <1>4, <1>5 DEF Bijection, Injection, Surjection, IsInjective
<1>7. ExistsBijection(HeldIn(d, s), rest)
  BY <1>6 DEF ExistsBijection
<1>8. IsFiniteSet(rest) /\ Cardinality(rest) =
        IF <<r, 1>> \in HeldIn(c, s) THEN Cardinality(HeldIn(c, s)) - 1 ELSE Cardinality(HeldIn(c, s))
  BY FS_RemoveElement DEF rest
<1>9. ExistsBijection(rest, HeldIn(d, s))
  BY <1>7, Fun_ExistsBijSymmetric
<1>10. IsFiniteSet(HeldIn(d, s)) /\ Cardinality(HeldIn(d, s)) = Cardinality(rest)
  BY <1>8, <1>9, FS_Bijection
<1> QED BY <1>2, <1>8, <1>10 DEF LostSlot

\* ConnGuard::release of the first guard.
LEMMA HeldPopped ==
  ASSUME NEW c, NEW d, NEW r \in Requests, OnlyMoves(c, d, r), NEW s,
         NEW S, c[r].guards \in Seq(S), c[r].guards # <<>>,
         d[r].guards = Tail(c[r].guards), IsFiniteSet(HeldIn(c, s))
  PROVE  LostSlot(c, d, s, Head(c[r].guards).state)
<1> DEFINE n == Len(c[r].guards)
<1>1. /\ n \in Nat \ {0} /\ DOMAIN c[r].guards = 1..n /\ DOMAIN d[r].guards = 1..(n - 1)
      /\ Head(c[r].guards) = c[r].guards[1]
      /\ \A i \in 1..(n - 1) : d[r].guards[i] = c[r].guards[i + 1]
  OBVIOUS
<1> HIDE DEF n
<1>2. LostSlot(c, d, s, c[r].guards[1].state)
  BY <1>1, HeldShifted
<1> QED BY <1>1, <1>2

\* A request that neither leaves nor joins the deciding ones of s.
LEMMA DecidingSame ==
  ASSUME NEW c, NEW d, NEW r \in Requests, OnlyMoves(c, d, r), NEW s,
         r \notin DecidingIn(c, s), r \notin DecidingIn(d, s)
  PROVE  DecidingIn(d, s) = DecidingIn(c, s) /\ SleepingIn(d, s) = SleepingIn(c, s)
<1>1. \A q \in Requests : q \in DecidingIn(d, s) <=> q \in DecidingIn(c, s)
  BY DEF DecidingIn, OnlyMoves
<1>2. r \notin SleepingIn(c, s) /\ r \notin SleepingIn(d, s)
  BY DEF DecidingIn, SleepingIn
<1>3. \A q \in Requests : q \in SleepingIn(d, s) <=> q \in SleepingIn(c, s)
  BY <1>2 DEF SleepingIn, OnlyMoves
<1>4. /\ DecidingIn(d, s) \subseteq Requests /\ DecidingIn(c, s) \subseteq Requests
      /\ SleepingIn(d, s) \subseteq Requests /\ SleepingIn(c, s) \subseteq Requests
  BY DEF DecidingIn, SleepingIn
<1> QED BY <1>1, <1>3, <1>4

\* The sleeping requests are among the deciding ones.
LEMMA SleepersFew ==
  ASSUME NEW c, NEW s, IsFiniteSet(DecidingIn(c, s))
  PROVE  /\ IsFiniteSet(SleepingIn(c, s))
         /\ Cardinality(SleepingIn(c, s)) \in Nat /\ Cardinality(DecidingIn(c, s)) \in Nat
         /\ Cardinality(SleepingIn(c, s)) <= Cardinality(DecidingIn(c, s))
<1>1. SleepingIn(c, s) \in SUBSET DecidingIn(c, s)
  BY DEF SleepingIn, DecidingIn
<1> QED BY <1>1, FS_Subset, FS_CardinalityType

\* Members join and leave one at a time.
LEMMA OneMore ==
  ASSUME NEW A, NEW B, NEW x, IsFiniteSet(A), x \notin A, B = A \cup {x}
  PROVE  IsFiniteSet(B) /\ Cardinality(A) \in Nat /\ Cardinality(B) = Cardinality(A) + 1
<1>1. Cardinality(A \cup {x}) = IF x \in A THEN Cardinality(A) ELSE Cardinality(A) + 1
  BY FS_AddElement
<1>2. IsFiniteSet(A \cup {x}) /\ Cardinality(A) \in Nat
  BY FS_AddElement, FS_CardinalityType
<1> QED BY <1>1, <1>2

\* One request leaves a finite group of requests.
LEMMA OneFewer ==
  ASSUME NEW A, NEW B, NEW x, IsFiniteSet(A), x \in A, B = A \ {x}
  PROVE  IsFiniteSet(B) /\ Cardinality(A) \in Nat /\ Cardinality(B) = Cardinality(A) - 1
<1>1. Cardinality(A \ {x}) = IF x \in A THEN Cardinality(A) - 1 ELSE Cardinality(A)
  BY FS_RemoveElement
<1>2. IsFiniteSet(A \ {x}) /\ Cardinality(A) \in Nat
  BY FS_RemoveElement, FS_CardinalityType
<1> QED BY <1>1, <1>2

\* n counts the slots of s exactly; those that will not be given back at once are
\* within some configured limit.
Counted(n, c, s) ==
  /\ IsFiniteSet(HeldIn(c, s)) /\ IsFiniteSet(DecidingIn(c, s))
  /\ n = Cardinality(HeldIn(c, s)) + Cardinality(DecidingIn(c, s))
  /\ \E limit \in Applied :
       Cardinality(HeldIn(c, s)) + Cardinality(SleepingIn(c, s)) <= limit.conn + limit.burst

\* Requests that do not touch s.
LEMMA CountedSame ==
  ASSUME NEW n, NEW c, NEW d, NEW r \in Requests, OnlyMoves(c, d, r), NEW s, Counted(n, c, s),
         HeldIn(d, s) = HeldIn(c, s), r \notin DecidingIn(c, s), r \notin DecidingIn(d, s)
  PROVE  Counted(n, d, s)
<1>1. DecidingIn(d, s) = DecidingIn(c, s) /\ SleepingIn(d, s) = SleepingIn(c, s)
  BY DecidingSame
<1> QED BY <1>1 DEF Counted

\* fetch_add and a pass: the slot goes to a guard.
LEMMA CountedPass ==
  ASSUME NEW n \in Int, NEW c, NEW d, NEW r \in Requests, OnlyMoves(c, d, r), NEW s, Counted(n, c, s),
         r \notin DecidingIn(c, s), r \notin DecidingIn(d, s),
         \E x : x \notin HeldIn(c, s) /\ HeldIn(d, s) = HeldIn(c, s) \cup {x},
         NEW limit \in Applied, n + 1 <= limit.conn + limit.burst
  PROVE  Counted(n + 1, d, s)
<1>1. DecidingIn(d, s) = DecidingIn(c, s) /\ SleepingIn(d, s) = SleepingIn(c, s)
  BY DecidingSame
<1>2. PICK x : x \notin HeldIn(c, s) /\ HeldIn(d, s) = HeldIn(c, s) \cup {x}
  OBVIOUS
<1>3. IsFiniteSet(HeldIn(c, s)) /\ IsFiniteSet(DecidingIn(c, s))
      /\ n = Cardinality(HeldIn(c, s)) + Cardinality(DecidingIn(c, s))
  BY DEF Counted
<1>4. IsFiniteSet(HeldIn(d, s)) /\ Cardinality(HeldIn(c, s)) \in Nat
      /\ Cardinality(HeldIn(d, s)) = Cardinality(HeldIn(c, s)) + 1
  BY <1>2, <1>3, OneMore
<1>5. /\ Cardinality(SleepingIn(c, s)) \in Nat /\ Cardinality(DecidingIn(c, s)) \in Nat
      /\ Cardinality(SleepingIn(c, s)) <= Cardinality(DecidingIn(c, s))
  BY <1>3, SleepersFew
<1>6. limit.conn \in Nat /\ limit.burst \in Nat
  BY ConnAssumption
<1>7. Cardinality(HeldIn(d, s)) + Cardinality(SleepingIn(d, s)) <= limit.conn + limit.burst
  BY <1>1, <1>3, <1>4, <1>5, <1>6
<1>8. n + 1 = Cardinality(HeldIn(d, s)) + Cardinality(DecidingIn(d, s))
  BY <1>1, <1>3, <1>4, <1>5
<1> QED BY <1>1, <1>3, <1>4, <1>7, <1>8 DEF Counted

\* fetch_add and a delay or a rejection: the request keeps the slot for now.
LEMMA CountedWait ==
  ASSUME NEW n \in Int, NEW c, NEW d, NEW r \in Requests, OnlyMoves(c, d, r), NEW s, Counted(n, c, s),
         r \notin DecidingIn(c, s), r \in DecidingIn(d, s), HeldIn(d, s) = HeldIn(c, s),
         NEW limit \in Applied,
         d[r].pc = "sleep" => n + 1 <= limit.conn + limit.burst
  PROVE  Counted(n + 1, d, s)
<1>1. DecidingIn(d, s) = DecidingIn(c, s) \cup {r}
  BY DEF DecidingIn, OnlyMoves
<1>2. IsFiniteSet(HeldIn(c, s)) /\ IsFiniteSet(DecidingIn(c, s))
      /\ n = Cardinality(HeldIn(c, s)) + Cardinality(DecidingIn(c, s))
  BY DEF Counted
<1>3. IsFiniteSet(DecidingIn(d, s)) /\ Cardinality(DecidingIn(c, s)) \in Nat
      /\ Cardinality(DecidingIn(d, s)) = Cardinality(DecidingIn(c, s)) + 1
  BY <1>1, <1>2, OneMore
<1>4. /\ IsFiniteSet(SleepingIn(c, s)) /\ Cardinality(SleepingIn(c, s)) \in Nat
      /\ Cardinality(SleepingIn(c, s)) <= Cardinality(DecidingIn(c, s))
      /\ Cardinality(HeldIn(c, s)) \in Nat
  BY <1>2, SleepersFew, FS_CardinalityType
<1>5. n + 1 = Cardinality(HeldIn(d, s)) + Cardinality(DecidingIn(d, s))
  BY <1>2, <1>3, <1>4
<1>6. CASE d[r].pc = "sleep"
  <2>1. SleepingIn(d, s) = SleepingIn(c, s) \cup {r} /\ r \notin SleepingIn(c, s)
    BY <1>6 DEF SleepingIn, DecidingIn, OnlyMoves
  <2>2. Cardinality(SleepingIn(d, s)) = Cardinality(SleepingIn(c, s)) + 1
    BY <1>4, <2>1, OneMore
  <2>3. limit.conn \in Nat /\ limit.burst \in Nat
    BY ConnAssumption
  <2>4. Cardinality(HeldIn(d, s)) + Cardinality(SleepingIn(d, s)) <= limit.conn + limit.burst
    BY <1>2, <1>3, <1>4, <1>6, <2>2, <2>3
  <2> QED BY <1>2, <1>3, <1>5, <2>4 DEF Counted
<1>7. CASE d[r].pc # "sleep"
  <2>1. SleepingIn(d, s) = SleepingIn(c, s)
    BY <1>7 DEF SleepingIn, DecidingIn, OnlyMoves
  <2> QED BY <1>2, <1>3, <1>5, <2>1 DEF Counted
<1> QED BY <1>6, <1>7

\* The sleep ends, or the request is dropped in it: the slot goes to the guard.
LEMMA CountedWoken ==
  ASSUME NEW n \in Int, NEW c, NEW d, NEW r \in Requests, OnlyMoves(c, d, r), NEW s, Counted(n, c, s),
         r \in SleepingIn(c, s), r \notin DecidingIn(d, s),
         \E x : x \notin HeldIn(c, s) /\ HeldIn(d, s) = HeldIn(c, s) \cup {x}
  PROVE  Counted(n, d, s)
<1>1. /\ r \in DecidingIn(c, s) /\ DecidingIn(d, s) = DecidingIn(c, s) \ {r}
      /\ SleepingIn(d, s) = SleepingIn(c, s) \ {r}
  BY DEF DecidingIn, SleepingIn, OnlyMoves
<1>2. PICK x : x \notin HeldIn(c, s) /\ HeldIn(d, s) = HeldIn(c, s) \cup {x}
  OBVIOUS
<1>3. IsFiniteSet(HeldIn(c, s)) /\ IsFiniteSet(DecidingIn(c, s)) /\ IsFiniteSet(SleepingIn(c, s))
      /\ n = Cardinality(HeldIn(c, s)) + Cardinality(DecidingIn(c, s))
  BY SleepersFew DEF Counted
<1>4. IsFiniteSet(HeldIn(d, s)) /\ Cardinality(HeldIn(c, s)) \in Nat
      /\ Cardinality(HeldIn(d, s)) = Cardinality(HeldIn(c, s)) + 1
  BY <1>2, <1>3, OneMore
<1>5. /\ IsFiniteSet(DecidingIn(d, s)) /\ Cardinality(DecidingIn(c, s)) \in Nat
      /\ Cardinality(DecidingIn(d, s)) = Cardinality(DecidingIn(c, s)) - 1
  BY <1>1, <1>3, OneFewer
<1>6. /\ Cardinality(SleepingIn(c, s)) \in Nat
      /\ Cardinality(SleepingIn(d, s)) = Cardinality(SleepingIn(c, s)) - 1
  BY <1>1, <1>3, OneFewer
<1>7. PICK limit \in Applied :
        Cardinality(HeldIn(c, s)) + Cardinality(SleepingIn(c, s)) <= limit.conn + limit.burst
  BY DEF Counted
<1>8. Cardinality(HeldIn(d, s)) + Cardinality(SleepingIn(d, s)) =
        Cardinality(HeldIn(c, s)) + Cardinality(SleepingIn(c, s))
  BY <1>4, <1>6
<1>9. n = Cardinality(HeldIn(d, s)) + Cardinality(DecidingIn(d, s))
  BY <1>3, <1>4, <1>5
<1> QED BY <1>4, <1>5, <1>7, <1>8, <1>9 DEF Counted

\* A rejected request gives its own slot back.
LEMMA CountedRejected ==
  ASSUME NEW n \in Int, NEW c, NEW d, NEW r \in Requests, OnlyMoves(c, d, r), NEW s, Counted(n, c, s),
         r \in DecidingIn(c, s), r \notin SleepingIn(c, s), r \notin DecidingIn(d, s),
         HeldIn(d, s) = HeldIn(c, s)
  PROVE  Counted(n - 1, d, s)
<1>1. DecidingIn(d, s) = DecidingIn(c, s) \ {r} /\ SleepingIn(d, s) = SleepingIn(c, s)
  BY DEF DecidingIn, SleepingIn, OnlyMoves
<1>2. IsFiniteSet(HeldIn(c, s)) /\ IsFiniteSet(DecidingIn(c, s)) /\ Cardinality(HeldIn(c, s)) \in Nat
      /\ n = Cardinality(HeldIn(c, s)) + Cardinality(DecidingIn(c, s))
  BY FS_CardinalityType DEF Counted
<1>3. /\ IsFiniteSet(DecidingIn(d, s)) /\ Cardinality(DecidingIn(c, s)) \in Nat
      /\ Cardinality(DecidingIn(d, s)) = Cardinality(DecidingIn(c, s)) - 1
  BY <1>1, <1>2, OneFewer
<1>4. n - 1 = Cardinality(HeldIn(d, s)) + Cardinality(DecidingIn(d, s))
  BY <1>2, <1>3
<1> QED BY <1>1, <1>2, <1>3, <1>4 DEF Counted

\* ConnGuard::release of a guard of t.
LEMMA CountedReleased ==
  ASSUME NEW n \in Int, NEW c, NEW d, NEW r \in Requests, OnlyMoves(c, d, r), NEW s, Counted(n, c, s),
         r \notin DecidingIn(c, s), r \notin DecidingIn(d, s),
         NEW t, LostSlot(c, d, s, t)
  PROVE  Counted(IF t = s THEN n - 1 ELSE n, d, s)
<1>1. DecidingIn(d, s) = DecidingIn(c, s) /\ SleepingIn(d, s) = SleepingIn(c, s)
  BY DecidingSame
<1>2. IsFiniteSet(HeldIn(c, s)) /\ IsFiniteSet(DecidingIn(c, s))
      /\ n = Cardinality(HeldIn(c, s)) + Cardinality(DecidingIn(c, s))
  BY DEF Counted
<1>3. Cardinality(HeldIn(c, s)) \in Nat /\ Cardinality(DecidingIn(c, s)) \in Nat
      /\ Cardinality(SleepingIn(c, s)) \in Nat
  BY <1>2, SleepersFew, FS_CardinalityType
<1>4. PICK limit \in Applied :
        Cardinality(HeldIn(c, s)) + Cardinality(SleepingIn(c, s)) <= limit.conn + limit.burst
  BY DEF Counted
<1>5. limit.conn \in Nat /\ limit.burst \in Nat
  BY ConnAssumption
<1>6. CASE t = s
  <2>1. IsFiniteSet(HeldIn(d, s)) /\ Cardinality(HeldIn(d, s)) = Cardinality(HeldIn(c, s)) - 1
    BY <1>6 DEF LostSlot
  <2>2. Cardinality(HeldIn(d, s)) + Cardinality(SleepingIn(d, s)) <= limit.conn + limit.burst
    BY <1>1, <1>3, <1>4, <1>5, <2>1
  <2>3. n - 1 = Cardinality(HeldIn(d, s)) + Cardinality(DecidingIn(d, s))
    BY <1>1, <1>2, <1>3, <2>1
  <2>4. Counted(n - 1, d, s)
    BY <1>1, <1>2, <2>1, <2>2, <2>3 DEF Counted
  <2> QED BY <1>6, <2>4
<1>7. CASE t # s
  <2>1. IsFiniteSet(HeldIn(d, s)) /\ Cardinality(HeldIn(d, s)) = Cardinality(HeldIn(c, s))
    BY <1>7 DEF LostSlot
  <2>2. Counted(n, d, s)
    BY <1>1, <1>2, <1>4, <2>1 DEF Counted
  <2> QED BY <1>7, <2>2
<1> QED BY <1>6, <1>7

--------------------------------------------------------------------------------
(* limit-conn: the requests, the counters and the map. *)

GuardsOf(n) == {[key |-> limit.key, state |-> s] : limit \in Applied, s \in 1..n}

\* A request while n counters exist.
ConnRequest(q, n) ==
  /\ q = [pc |-> q.pc, limits |-> q.limits, state |-> q.state, guards |-> q.guards]
  /\ q.limits \in Seq(Applied)
  /\ q.guards \in Seq(GuardsOf(n))
  /\ q.pc \in {"idle", "lookup", "count", "sleep", "reject", "inflight", "drop"}
  /\ q.pc \in {"lookup", "count", "sleep", "reject"} => q.limits # <<>>
  /\ q.pc \in {"count", "sleep", "reject"} => q.state \in 1..n
  /\ q.pc = "idle" => q.guards = <<>>

ConnTypes ==
  /\ counts \in Seq(Int)
  /\ DOMAIN conn = Requests
  /\ \A r \in Requests : ConnRequest(conn[r], Len(counts))

\* An entry of the map is the index of a counter; the map is bounded.
CountersMapped ==
  /\ WellFormed(conns)
  /\ Capped(Tracked(conns))
  /\ \A k \in Tracked(conns) : conns.entries[k] \in 1..Len(counts)

AllCounted == \A s \in 1..Len(counts) : Counted(counts[s], conn, s)

ConnInv == ConnTypes /\ CountersMapped /\ AllCounted

\* conn' after a step of r that leaves it as next.
LEMMA RequestMoves ==
  ASSUME ConnTypes, NEW r \in Requests, NEW next, conn' = [conn EXCEPT ![r] = next]
  PROVE  OnlyMoves(conn, conn', r) /\ conn'[r] = next /\ DOMAIN conn' = Requests
BY DEF OnlyMoves, ConnTypes

\* The types survive a step of one request, whatever it does to its counter.
LEMMA ConnTypesNext ==
  ASSUME ConnTypes, NEW r \in Requests, NEW next,
         OnlyMoves(conn, conn', r), conn'[r] = next, DOMAIN conn' = Requests,
         counts' \in Seq(Int), Len(counts') = Len(counts), ConnRequest(next, Len(counts))
  PROVE  ConnTypes'
<1>2. ASSUME NEW q \in Requests PROVE ConnRequest(conn'[q], Len(counts'))
  <2>1. CASE q = r
    BY <2>1
  <2>2. CASE q # r
    BY <2>2 DEF OnlyMoves, ConnTypes
  <2> QED BY <2>1, <2>2
<1> QED BY <1>2 DEF ConnTypes

\* next is q with its slot in a guard.
Guarded(q, n, next) ==
  /\ ConnRequest(next, n)
  /\ next.state = 0
  /\ next.pc \in {"inflight", "lookup", "drop"}
  /\ \E g \in GuardsOf(n) : g.state = q.state /\ next.guards = Append(q.guards, g)

\* The guard of the limit at the head of the limits is made with the slot it
\* stands for, also when the request is dropped in its sleep.
LEMMA HoldingRequest ==
  ASSUME NEW n, NEW q, ConnRequest(q, n), q.pc \in {"count", "sleep"}
  PROVE  Guarded(q, n, Holding(q)) /\ Guarded(q, n, [Holding(q) EXCEPT !.pc = "drop"])
<1> DEFINE g == [key |-> Head(q.limits).key, state |-> q.state]
           pc == IF Tail(q.limits) = <<>> THEN "inflight" ELSE "lookup"
           more == Tail(q.limits)
           guards == Append(q.guards, g)
<1>1. Holding(q) = [pc |-> pc, limits |-> more, state |-> 0, guards |-> guards]
  BY DEF Holding
<1>2. q.limits \in Seq(Applied) /\ q.limits # <<>> /\ q.state \in 1..n /\ q.guards \in Seq(GuardsOf(n))
  BY DEF ConnRequest
<1>3. Head(q.limits) \in Applied /\ more \in Seq(Applied)
  BY <1>2
<1>4. g \in GuardsOf(n)
  BY <1>2, <1>3 DEF GuardsOf
<1>5. guards \in Seq(GuardsOf(n))
  BY <1>2, <1>4
<1>6. pc \in {"inflight", "lookup"} /\ (pc = "lookup" => more # <<>>) /\ g.state = q.state
  OBVIOUS
<1> DEFINE next == Holding(q)
<1> HIDE DEF pc, more, guards, g, next
<1>7. next = [pc |-> pc, limits |-> more, state |-> 0, guards |-> guards]
  BY <1>1 DEF next
<1>8. next.pc = pc /\ next.limits = more /\ next.state = 0 /\ next.guards = guards
  BY <1>7
<1>9. ConnRequest(next, n)
  BY <1>3, <1>5, <1>6, <1>7, <1>8 DEF ConnRequest
<1> DEFINE dropped == [next EXCEPT !.pc = "drop"]
<1>10. dropped = [pc |-> "drop", limits |-> more, state |-> 0, guards |-> guards]
  BY <1>7
<1> HIDE DEF dropped
<1>11. dropped.pc = "drop" /\ dropped.limits = more /\ dropped.state = 0 /\ dropped.guards = guards
  BY <1>10
<1>12. ConnRequest(dropped, n)
  BY <1>3, <1>5, <1>10, <1>11 DEF ConnRequest
<1>13. Guarded(q, n, next)
  BY <1>4, <1>6, <1>8, <1>9 DEF Guarded, guards
<1>14. Guarded(q, n, dropped)
  BY <1>4, <1>6, <1>11, <1>12 DEF Guarded, guards
<1> QED BY <1>13, <1>14 DEF next, dropped

\* A counter that a request adds delta to.
LEMMA CounterChanges ==
  ASSUME counts \in Seq(Int), NEW t \in 1..Len(counts), NEW m \in Int,
         counts' = [counts EXCEPT ![t] = m]
  PROVE  /\ counts' \in Seq(Int) /\ Len(counts') = Len(counts)
         /\ \A s \in 1..Len(counts) : counts'[s] = IF s = t THEN m ELSE counts[s]
OBVIOUS

\* What ConnTypes says of one request.
LEMMA RequestTyped ==
  ASSUME ConnInv, NEW r \in Requests
  PROVE  ConnRequest(conn[r], Len(counts)) /\ counts \in Seq(Int) /\ Len(counts) \in Nat
BY DEF ConnInv, ConnTypes

\* Requests whose slot moves into a guard, at the counter and at all others.
LEMMA GuardedCounts ==
  ASSUME NEW c, NEW d, NEW r \in Requests, OnlyMoves(c, d, r), NEW n, ConnRequest(c[r], n),
         NEW next, d[r] = next, Guarded(c[r], n, next), NEW s
  PROVE  r \notin DecidingIn(d, s) /\ GainedSlot(c, d, s, c[r].state)
<1>1. c[r].guards \in Seq(GuardsOf(n))
  BY DEF ConnRequest
<1>2. PICK g \in GuardsOf(n) : g.state = c[r].state /\ next.guards = Append(c[r].guards, g)
  BY DEF Guarded
<1>3. r \notin DecidingIn(d, s)
  BY DEF DecidingIn, Guarded
<1>4. d[r].guards = Append(c[r].guards, g)
  BY <1>2
<1>5. GainedSlot(c, d, s, g.state)
  BY <1>1, <1>4, HeldPushed
<1> QED BY <1>2, <1>3, <1>5

\* The decision follows from the count the request has seen, although others may
\* have changed the counter since the lookup.
LEMMA FetchAddCounts ==
  ASSUME ConnInv, NEW r \in Requests, FetchAdd(r)
  PROVE  ConnInv'
<1> DEFINE q == conn[r]
           t == q.state
           n == counts[t]
           limit == Head(q.limits)
           choice == Decide(n + 1, limit)
           next == CASE choice = "Pass" -> Holding(q)
                     [] choice = "Delay" -> [q EXCEPT !.pc = "sleep"]
                     [] choice = "Reject" -> [q EXCEPT !.pc = "reject"]
<1>1. /\ q.pc = "count" /\ counts' = [counts EXCEPT ![t] = n + 1]
      /\ conn' = [conn EXCEPT ![r] = next] /\ UNCHANGED conns
  <2>1. conn' = [conn EXCEPT ![r] = next]
    BY DEF FetchAdd, CountSeen
  <2>2. counts' = [counts EXCEPT ![t] = n + 1]
    BY DEF FetchAdd
  <2> QED BY <2>1, <2>2 DEF FetchAdd
<1>2. ConnRequest(q, Len(counts)) /\ counts \in Seq(Int) /\ Len(counts) \in Nat
  BY RequestTyped
<1>3. t \in 1..Len(counts) /\ limit \in Applied /\ q.limits # <<>> /\ q.limits \in Seq(Applied)
      /\ q = [pc |-> q.pc, limits |-> q.limits, state |-> q.state, guards |-> q.guards]
      /\ q.guards \in Seq(GuardsOf(Len(counts)))
  BY <1>1, <1>2 DEF ConnRequest
<1>4. n \in Int /\ limit.conn \in Nat /\ limit.burst \in Nat
  BY <1>2, <1>3, ConnAssumption
<1>5. /\ choice \in {"Pass", "Delay", "Reject"}
      /\ choice # "Reject" => n + 1 <= limit.conn + limit.burst
  BY <1>4 DEF Decide
<1> HIDE DEF choice
<1> DEFINE sleeps == [pc |-> "sleep", limits |-> q.limits, state |-> q.state, guards |-> q.guards]
           rejects == [pc |-> "reject", limits |-> q.limits, state |-> q.state, guards |-> q.guards]
<1>6. /\ choice = "Pass" => next = Holding(q)
      /\ choice = "Delay" => next = sleeps
      /\ choice = "Reject" => next = rejects
  BY <1>3
<1>7. Guarded(q, Len(counts), Holding(q))
  BY <1>1, <1>2, HoldingRequest
<1> HIDE DEF next
<1>8. OnlyMoves(conn, conn', r) /\ conn'[r] = next /\ DOMAIN conn' = Requests
  BY <1>1, RequestMoves DEF ConnInv
<1>9. /\ counts' \in Seq(Int) /\ Len(counts') = Len(counts)
      /\ \A s \in 1..Len(counts) : counts'[s] = IF s = t THEN n + 1 ELSE counts[s]
  <2>1. n + 1 \in Int
    BY <1>4
  <2> HIDE DEF n, t
  <2> QED BY <1>1, <1>2, <1>3, <2>1, CounterChanges
<1>10. /\ choice # "Pass" => next.guards = q.guards /\ next.state = t
       /\ choice = "Delay" => next.pc = "sleep"
       /\ choice = "Reject" => next.pc = "reject"
  BY <1>5, <1>6
<1>11. ConnRequest(next, Len(counts))
  <2>1. CASE choice = "Pass"
    BY <1>6, <1>7, <2>1 DEF Guarded
  <2>2. CASE choice = "Delay"
    BY <1>3, <1>6, <2>2 DEF ConnRequest
  <2>3. CASE choice = "Reject"
    BY <1>3, <1>6, <2>3 DEF ConnRequest
  <2> QED BY <1>5, <2>1, <2>2, <2>3
<1>12. ConnTypes'
  BY <1>8, <1>9, <1>11, ConnTypesNext DEF ConnInv
<1>13. ASSUME NEW s \in 1..Len(counts) PROVE Counted(counts'[s], conn', s)
  <2>1. Counted(counts[s], conn, s) /\ counts[s] \in Int
    BY <1>2 DEF ConnInv, AllCounted
  <2>2. r \notin DecidingIn(conn, s)
    BY <1>1 DEF DecidingIn
  <2>3. CASE choice = "Pass"
    <3>4. conn'[r] = Holding(q)
      BY <1>6, <1>8, <2>3
    <3>5. r \notin DecidingIn(conn', s) /\ GainedSlot(conn, conn', s, t)
      BY <1>2, <1>7, <1>8, <3>4, GuardedCounts
    <3>1. /\ r \notin DecidingIn(conn', s)
          /\ t # s => HeldIn(conn', s) = HeldIn(conn, s)
          /\ t = s => \E x : x \notin HeldIn(conn, s) /\ HeldIn(conn', s) = HeldIn(conn, s) \cup {x}
      BY <3>5 DEF GainedSlot
    <3>2. CASE s = t
      <4>1. Counted(counts[s] + 1, conn', s)
        BY <1>3, <1>5, <1>8, <2>1, <2>2, <2>3, <3>1, <3>2, CountedPass
      <4> QED BY <1>9, <3>2, <4>1
    <3>3. CASE s # t
      <4>1. Counted(counts[s], conn', s)
        BY <1>8, <2>1, <2>2, <3>1, <3>3, CountedSame
      <4> QED BY <1>9, <3>3, <4>1
    <3> QED BY <3>2, <3>3
  <2>4. CASE choice # "Pass"
    <3>4. conn'[r].guards = conn[r].guards
      BY <1>8, <1>10, <2>4
    <3>1. HeldIn(conn', s) = HeldIn(conn, s)
      BY <1>8, <3>4, HeldSame
    <3>2. CASE s = t
      <4>1. r \in DecidingIn(conn', s)
        BY <1>5, <1>8, <1>10, <2>4, <3>2 DEF DecidingIn
      <4>2. conn'[r].pc = "sleep" => counts[s] + 1 <= limit.conn + limit.burst
        BY <1>5, <1>8, <1>10, <2>4, <3>2
      <4>3. Counted(counts[s] + 1, conn', s)
        BY <1>3, <1>8, <2>1, <2>2, <3>1, <4>1, <4>2, CountedWait
      <4> QED BY <1>9, <3>2, <4>3
    <3>3. CASE s # t
      <4>1. r \notin DecidingIn(conn', s)
        BY <1>8, <1>10, <2>4, <3>3 DEF DecidingIn
      <4>2. Counted(counts[s], conn', s)
        BY <1>8, <2>1, <2>2, <3>1, <4>1, CountedSame
      <4> QED BY <1>9, <3>3, <4>2
    <3> QED BY <3>2, <3>3
  <2> QED BY <2>3, <2>4
<1>14. AllCounted' /\ CountersMapped'
  BY <1>1, <1>9, <1>13 DEF AllCounted, CountersMapped, ConnInv
<1> QED BY <1>12, <1>14 DEF ConnInv

\* The sleep ends or the request is dropped in it: no slot is lost either way.
LEMMA WakeCounts ==
  ASSUME ConnInv, NEW r \in Requests, conn[r].pc = "sleep",
         NEW next, Guarded(conn[r], Len(counts), next),
         conn' = [conn EXCEPT ![r] = next], UNCHANGED <<conns, counts>>
  PROVE  ConnInv'
<1> DEFINE t == conn[r].state
<1>1. ConnRequest(conn[r], Len(counts)) /\ counts \in Seq(Int) /\ Len(counts) \in Nat
  BY RequestTyped
<1>2. OnlyMoves(conn, conn', r) /\ conn'[r] = next /\ DOMAIN conn' = Requests
  BY RequestMoves DEF ConnInv
<1>3. ConnTypes'
  <2>1. counts' \in Seq(Int) /\ Len(counts') = Len(counts) /\ ConnRequest(next, Len(counts))
    BY <1>1 DEF Guarded
  <2> QED BY <1>2, <2>1, ConnTypesNext DEF ConnInv
<1>4. ASSUME NEW s \in 1..Len(counts) PROVE Counted(counts'[s], conn', s)
  <2>1. Counted(counts[s], conn, s) /\ counts[s] \in Int /\ counts'[s] = counts[s]
    BY <1>1 DEF ConnInv, AllCounted
  <2>2. r \notin DecidingIn(conn', s) /\ GainedSlot(conn, conn', s, t)
    BY <1>1, <1>2, GuardedCounts
  <2>3. CASE s = t
    <3>1. r \in SleepingIn(conn, s)
      BY <2>3 DEF SleepingIn
    <3>2. \E x : x \notin HeldIn(conn, s) /\ HeldIn(conn', s) = HeldIn(conn, s) \cup {x}
      BY <2>2, <2>3 DEF GainedSlot
    <3> QED BY <1>2, <2>1, <2>2, <3>1, <3>2, CountedWoken
  <2>4. CASE s # t
    <3>1. r \notin DecidingIn(conn, s) /\ HeldIn(conn', s) = HeldIn(conn, s)
      BY <2>2, <2>4 DEF DecidingIn, GainedSlot
    <3> QED BY <1>2, <2>1, <2>2, <3>1, CountedSame
  <2> QED BY <2>3, <2>4
<1> QED BY <1>3, <1>4 DEF ConnInv, AllCounted, CountersMapped

\* Updates of a request, field by field.
LEMMA RequestUpdates ==
  ASSUME NEW q, q = [pc |-> q.pc, limits |-> q.limits, state |-> q.state, guards |-> q.guards],
         NEW a, NEW b
  PROVE  /\ [q EXCEPT !.pc = a, !.limits = b] =
              [pc |-> a, limits |-> b, state |-> q.state, guards |-> q.guards]
         /\ [q EXCEPT !.pc = a, !.state = b] =
              [pc |-> a, limits |-> q.limits, state |-> b, guards |-> q.guards]
         /\ [q EXCEPT !.guards = a] =
              [pc |-> q.pc, limits |-> q.limits, state |-> q.state, guards |-> a]
<1> DEFINE pc == q.pc
           limits == q.limits
           state == q.state
           guards == q.guards
<1> HIDE DEF pc, limits, state, guards
<1>0. q = [pc |-> pc, limits |-> limits, state |-> state, guards |-> guards]
  BY DEF pc, limits, state, guards
<1> DEFINE p == [pc |-> a, limits |-> limits, state |-> state, guards |-> guards]
<1>1. [q EXCEPT !.pc = a] = p
  BY <1>0
<1>2. [p EXCEPT !.limits = b] = [pc |-> a, limits |-> b, state |-> state, guards |-> guards]
  OBVIOUS
<1>3. [p EXCEPT !.state = b] = [pc |-> a, limits |-> limits, state |-> b, guards |-> guards]
  OBVIOUS
<1>4. [q EXCEPT !.guards = a] = [pc |-> pc, limits |-> limits, state |-> state, guards |-> a]
  BY <1>0
<1> HIDE DEF p
<1>5. [q EXCEPT !.pc = a, !.limits = b] = [p EXCEPT !.limits = b]
  BY <1>1, Zenon
<1>6. [q EXCEPT !.pc = a, !.state = b] = [p EXCEPT !.state = b]
  BY <1>1, Zenon
<1> QED BY <1>2, <1>3, <1>4, <1>5, <1>6, Zenon DEF pc, limits, state, guards

\* The rejected request gives back its own slot, and only that.
LEMMA RejectCounts ==
  ASSUME ConnInv, NEW r \in Requests, RejectReleases(r)
  PROVE  ConnInv'
<1> DEFINE q == conn[r]
           t == q.state
           n == counts[t]
           next == [pc |-> "drop", limits |-> q.limits, state |-> 0, guards |-> q.guards]
<1>1. ConnRequest(q, Len(counts)) /\ counts \in Seq(Int) /\ Len(counts) \in Nat
  BY RequestTyped
<1>2. q.pc = "reject" /\ counts' = [counts EXCEPT ![t] = n - 1] /\ UNCHANGED conns
  BY DEF RejectReleases, GivenBack
<1>3. conn' = [conn EXCEPT ![r] = next]
  <2>1. conn' = [conn EXCEPT ![r] = [q EXCEPT !.pc = "drop", !.state = 0]]
    BY DEF RejectReleases, ConnInv, ConnTypes
  <2>3. q = [pc |-> q.pc, limits |-> q.limits, state |-> q.state, guards |-> q.guards]
    BY <1>1 DEF ConnRequest
  <2>2. [q EXCEPT !.pc = "drop", !.state = 0] = next
    BY <2>3, RequestUpdates, Zenon
  <2> QED BY <2>1, <2>2
<1>4. t \in 1..Len(counts) /\ n \in Int /\ n - 1 \in Int /\ ConnRequest(next, Len(counts))
  BY <1>1, <1>2 DEF ConnRequest
<1>5. next.guards = q.guards /\ next.state = 0 /\ next.pc = "drop"
  OBVIOUS
<1> HIDE DEF next, n, t
<1>6. /\ counts' \in Seq(Int) /\ Len(counts') = Len(counts)
      /\ \A s \in 1..Len(counts) : counts'[s] = IF s = t THEN n - 1 ELSE counts[s]
  BY <1>1, <1>2, <1>4, CounterChanges
<1>7. OnlyMoves(conn, conn', r) /\ conn'[r] = next /\ DOMAIN conn' = Requests
  BY <1>3, RequestMoves DEF ConnInv
<1>8. ConnTypes'
  BY <1>4, <1>6, <1>7, ConnTypesNext DEF ConnInv
<1>9. ASSUME NEW s \in 1..Len(counts) PROVE Counted(counts'[s], conn', s)
  <2>1. Counted(counts[s], conn, s) /\ counts[s] \in Int
    BY <1>1 DEF ConnInv, AllCounted
  <2>2. conn'[r].guards = conn[r].guards /\ r \notin DecidingIn(conn', s)
    BY <1>5, <1>7 DEF DecidingIn
  <2>3. HeldIn(conn', s) = HeldIn(conn, s)
    BY <1>7, <2>2, HeldSame
  <2>4. CASE s = t
    <3>1. r \in DecidingIn(conn, s) /\ r \notin SleepingIn(conn, s)
      BY <1>2, <2>4 DEF DecidingIn, SleepingIn, t
    <3>2. Counted(counts[s] - 1, conn', s)
      BY <1>7, <2>1, <2>2, <2>3, <3>1, CountedRejected
    <3> QED BY <1>6, <2>4, <3>2 DEF n
  <2>5. CASE s # t
    <3>1. r \notin DecidingIn(conn, s)
      BY <2>5 DEF DecidingIn, t
    <3>2. Counted(counts[s], conn', s)
      BY <1>7, <2>1, <2>2, <2>3, <3>1, CountedSame
    <3> QED BY <1>6, <2>5, <3>2
  <2> QED BY <2>4, <2>5
<1> QED BY <1>2, <1>6, <1>8, <1>9 DEF ConnInv, AllCounted, CountersMapped

\* Steps that take and give no slot: arrival, the end of a request, and the last
\* step of one that holds nothing.
LEMMA IdleCounts ==
  ASSUME ConnInv, NEW r \in Requests, NEW next,
         OnlyMoves(conn, conn', r), conn'[r] = next, DOMAIN conn' = Requests,
         ConnRequest(next, Len(counts)), next.guards = conn[r].guards,
         conn[r].pc \notin {"sleep", "reject"}, next.pc \notin {"sleep", "reject"},
         UNCHANGED <<conns, counts>>
  PROVE  ConnInv'
<1>1. ConnRequest(conn[r], Len(counts)) /\ counts \in Seq(Int) /\ Len(counts) \in Nat
  BY RequestTyped
<1>3. ConnTypes'
  <2>1. counts' \in Seq(Int) /\ Len(counts') = Len(counts)
    BY <1>1
  <2> QED BY <2>1, ConnTypesNext DEF ConnInv
<1>4. ASSUME NEW s \in 1..Len(counts) PROVE Counted(counts'[s], conn', s)
  <2>1. Counted(counts[s], conn, s) /\ counts'[s] = counts[s]
    BY DEF ConnInv, AllCounted
  <2>4. conn'[r].guards = conn[r].guards
    OBVIOUS
  <2>2. r \notin DecidingIn(conn', s) /\ r \notin DecidingIn(conn, s)
    BY DEF DecidingIn
  <2>3. HeldIn(conn', s) = HeldIn(conn, s)
    BY <2>4, HeldSame
  <2> QED BY <2>1, <2>2, <2>3, CountedSame
<1> QED BY <1>3, <1>4 DEF ConnInv, AllCounted, CountersMapped

\* A request that arrives at limit-conn holds nothing yet.
LEMMA ArriveCounts ==
  ASSUME ConnInv, NEW r \in Requests, NEW limits \in Selections, ConnArrive(r, limits)
  PROVE  ConnInv'
<1> DEFINE next == [pc |-> "lookup", limits |-> limits, state |-> 0, guards |-> <<>>]
<1>1. ConnRequest(conn[r], Len(counts))
  BY RequestTyped
<1>2. [ConnIdle EXCEPT !.pc = "lookup", !.limits = limits] = next
  <2>1. /\ ConnIdle = [pc |-> ConnIdle.pc, limits |-> ConnIdle.limits,
                        state |-> ConnIdle.state, guards |-> ConnIdle.guards]
        /\ ConnIdle.state = 0 /\ ConnIdle.guards = <<>>
    BY DEF ConnIdle
  <2>2. [ConnIdle EXCEPT !.pc = "lookup", !.limits = limits] =
          [pc |-> "lookup", limits |-> limits, state |-> ConnIdle.state, guards |-> ConnIdle.guards]
    BY <2>1, RequestUpdates, Zenon
  <2> QED BY <2>1, <2>2, Zenon
<1>3. conn' = [conn EXCEPT ![r] = next] /\ UNCHANGED <<conns, counts>> /\ conn[r].pc = "idle"
  BY <1>2 DEF ConnArrive
<1>4. limits \in Seq(Applied) /\ limits # <<>>
  BY ConnAssumption
<1>5. conn[r].guards = <<>>
  BY <1>1, <1>3 DEF ConnRequest
<1>6. next.guards = <<>> /\ next.pc = "lookup" /\ <<>> \in Seq(GuardsOf(Len(counts)))
  OBVIOUS
<1>7. ConnRequest(next, Len(counts))
  BY <1>4, <1>6 DEF ConnRequest
<1> HIDE DEF next
<1>8. OnlyMoves(conn, conn', r) /\ conn'[r] = next /\ DOMAIN conn' = Requests
  BY <1>3, RequestMoves DEF ConnInv
<1> QED BY <1>3, <1>5, <1>6, <1>7, <1>8, IdleCounts

\* The end of a request, finished or cancelled: its guards are about to be dropped.
LEMMA EndCounts ==
  ASSUME ConnInv, NEW r \in Requests, RequestEnds(r)
  PROVE  ConnInv'
<1> DEFINE q == conn[r]
           next == [pc |-> "drop", limits |-> q.limits, state |-> q.state, guards |-> q.guards]
<1>1. ConnRequest(q, Len(counts))
  BY RequestTyped
<1>2. conn' = [conn EXCEPT ![r] = [q EXCEPT !.pc = "drop"]] /\ q.pc = "inflight"
      /\ UNCHANGED <<conns, counts>>
  BY DEF RequestEnds, ConnInv, ConnTypes
<1>3. [q EXCEPT !.pc = "drop"] = next
  BY <1>1 DEF ConnRequest
<1>4. ConnRequest(next, Len(counts)) /\ next.guards = q.guards /\ next.pc = "drop"
  BY <1>1 DEF ConnRequest
<1> HIDE DEF next
<1>5. OnlyMoves(conn, conn', r) /\ conn'[r] = next /\ DOMAIN conn' = Requests
  BY <1>2, <1>3, RequestMoves DEF ConnInv
<1> QED BY <1>2, <1>4, <1>5, IdleCounts

\* ConnGuard::release takes one slot from the counter the guard was made for, also
\* when the map has dropped that counter.
LEMMA ReleaseCounts ==
  ASSUME ConnInv, NEW r \in Requests, Release(r)
  PROVE  ConnInv'
<1> DEFINE q == conn[r]
<1>1. ConnRequest(q, Len(counts)) /\ counts \in Seq(Int) /\ Len(counts) \in Nat
  BY RequestTyped
<1>2. q.pc = "drop" /\ UNCHANGED conns
  BY DEF Release
<1>3. CASE q.guards = <<>>
  <2>1. conn' = [conn EXCEPT ![r] = ConnIdle] /\ UNCHANGED counts
    BY <1>3 DEF Release
  <2>2. ConnIdle.guards = <<>> /\ ConnIdle.pc = "idle" /\ ConnRequest(ConnIdle, Len(counts))
    BY DEF ConnIdle, ConnRequest
  <2>3. OnlyMoves(conn, conn', r) /\ conn'[r] = ConnIdle /\ DOMAIN conn' = Requests
    BY <2>1, RequestMoves DEF ConnInv
  <2> QED BY <1>2, <1>3, <2>1, <2>2, <2>3, IdleCounts
<1>4. CASE q.guards # <<>>
  <2> DEFINE t == Head(q.guards).state
             n == counts[t]
             next == [pc |-> q.pc, limits |-> q.limits, state |-> q.state, guards |-> Tail(q.guards)]
  <2>1. counts' = [counts EXCEPT ![t] = n - 1]
    BY <1>4 DEF Release
  <2>2. conn' = [conn EXCEPT ![r] = next]
    <3>3. conn' = [conn EXCEPT ![r].guards = Tail(@)]
      BY <1>4 DEF Release
    <3>1. conn' = [conn EXCEPT ![r] = [q EXCEPT !.guards = Tail(q.guards)]]
      BY <3>3
    <3>4. q = [pc |-> q.pc, limits |-> q.limits, state |-> q.state, guards |-> q.guards]
      BY <1>1 DEF ConnRequest
    <3>2. [q EXCEPT !.guards = Tail(q.guards)] = next
      BY <3>4, RequestUpdates, Zenon
    <3> QED BY <3>1, <3>2
  <2>3. q.guards \in Seq(GuardsOf(Len(counts)))
    BY <1>1 DEF ConnRequest
  <2>4. Head(q.guards) \in GuardsOf(Len(counts)) /\ Tail(q.guards) \in Seq(GuardsOf(Len(counts)))
    BY <1>4, <2>3
  <2>5. t \in 1..Len(counts)
    BY <2>4 DEF GuardsOf
  <2>6. n \in Int /\ n - 1 \in Int
    BY <1>1, <2>5
  <2>7. ConnRequest(next, Len(counts))
    BY <1>1, <1>2, <2>4 DEF ConnRequest
  <2>8. next.guards = Tail(q.guards) /\ next.pc = "drop"
    BY <1>2
  <2> HIDE DEF next, n, t
  <2>9. /\ counts' \in Seq(Int) /\ Len(counts') = Len(counts)
        /\ \A s \in 1..Len(counts) : counts'[s] = IF s = t THEN n - 1 ELSE counts[s]
    BY <1>1, <2>1, <2>5, <2>6, CounterChanges
  <2>10. OnlyMoves(conn, conn', r) /\ conn'[r] = next /\ DOMAIN conn' = Requests
    BY <2>2, RequestMoves DEF ConnInv
  <2>11. ConnTypes'
    BY <2>7, <2>9, <2>10, ConnTypesNext DEF ConnInv
  <2>12. ASSUME NEW s \in 1..Len(counts) PROVE Counted(counts'[s], conn', s)
    <3>1. Counted(counts[s], conn, s) /\ counts[s] \in Int
      BY <1>1 DEF ConnInv, AllCounted
    <3>2. r \notin DecidingIn(conn, s) /\ r \notin DecidingIn(conn', s)
      BY <1>2, <2>8, <2>10 DEF DecidingIn
    <3>3. IsFiniteSet(HeldIn(conn, s))
      BY <3>1 DEF Counted
    <3>4. conn'[r].guards = Tail(conn[r].guards)
      BY <2>8, <2>10
    <3>5. LostSlot(conn, conn', s, Head(conn[r].guards).state)
      BY <1>4, <2>3, <2>10, <3>3, <3>4, HeldPopped
    <3>6. Counted(IF t = s THEN counts[s] - 1 ELSE counts[s], conn', s)
      BY <2>10, <3>1, <3>2, <3>5, CountedReleased DEF t
    <3>7. counts'[s] = IF t = s THEN counts[s] - 1 ELSE counts[s]
      BY <2>9 DEF n
    <3> QED BY <3>6, <3>7
  <2> QED BY <1>2, <2>9, <2>11, <2>12 DEF ConnInv, AllCounted, CountersMapped
<1> QED BY <1>3, <1>4

\* A counter nobody has counted itself at yet.
LEMMA FreshCounted ==
  ASSUME NEW c, NEW n \in Nat, \A r \in Requests : ConnRequest(c[r], n), Applied # {}
  PROVE  Counted(0, c, n + 1)
<1> DEFINE s == n + 1
<1>1. HeldIn(c, s) = {}
  <2> SUFFICES ASSUME NEW x, x \in HeldIn(c, s) PROVE FALSE
    OBVIOUS
  <2>1. PICK r \in Requests : \E i \in DOMAIN c[r].guards : c[r].guards[i].state = s
    BY HeldMember
  <2>2. PICK i \in DOMAIN c[r].guards : c[r].guards[i].state = s
    BY <2>1
  <2>3. c[r].guards \in Seq(GuardsOf(n))
    BY DEF ConnRequest
  <2>4. c[r].guards[i] \in GuardsOf(n)
    BY <2>2, <2>3
  <2>5. c[r].guards[i].state \in 1..n
    BY <2>4 DEF GuardsOf
  <2> QED BY <2>2, <2>5
<1>2. DecidingIn(c, s) = {}
  <2>1. ASSUME NEW r \in Requests, c[r].pc \in {"sleep", "reject"} PROVE c[r].state # s
    <3>1. c[r].state \in 1..n
      BY <2>1 DEF ConnRequest
    <3> QED BY <3>1
  <2> QED BY <2>1 DEF DecidingIn
<1>3. SleepingIn(c, s) = {}
  BY <1>2 DEF DecidingIn, SleepingIn
<1>4. IsFiniteSet({}) /\ Cardinality({}) = 0
  BY FS_EmptySet
<1>5. PICK limit \in Applied : limit.conn \in Nat /\ limit.burst \in Nat
  BY ConnAssumption
<1>6. 0 + 0 <= limit.conn + limit.burst
  BY <1>5
<1> HIDE DEF s
<1>7. Counted(0, c, s)
  BY <1>1, <1>2, <1>3, <1>4, <1>5, <1>6 DEF Counted
<1> QED BY <1>7 DEF s

\* More counters leave a request typed.
LEMMA RequestGrows ==
  ASSUME NEW n \in Nat, NEW q, ConnRequest(q, n)
  PROVE  ConnRequest(q, n + 1)
<1>1. GuardsOf(n) \subseteq GuardsOf(n + 1)
  BY DEF GuardsOf
<1>2. q.guards \in Seq(GuardsOf(n))
  BY DEF ConnRequest
<1>3. q.guards \in Seq(GuardsOf(n + 1))
  BY <1>1, <1>2
<1>4. q.state \in 1..n => q.state \in 1..(n + 1)
  OBVIOUS
<1> QED BY <1>3, <1>4 DEF ConnRequest

\* get_or_insert_counter takes no slot; the sweep may drop the entry of any
\* counter that is idle, never a counter.
LEMMA LookupCounts ==
  ASSUME ConnInv, NEW r \in Requests, GetOrInsertCounter(r)
  PROVE  ConnInv'
<1> DEFINE q == conn[r]
           n == Len(counts)
           key == Head(q.limits).key
           admitted == Admit(conns, key, ZeroCount, ConnOnMiss)
           shard == admitted.shard
           slot == admitted.slot
           next(t) == [pc |-> "count", limits |-> q.limits, state |-> t, guards |-> q.guards]
<1>1. ConnRequest(q, n) /\ counts \in Seq(Int) /\ n \in Nat /\ q.pc = "lookup"
  BY RequestTyped DEF GetOrInsertCounter
<1>2. WellFormed(conns) /\ Capped(Tracked(conns)) /\ ConnOnMiss \in {"Restore", "PushBack"}
  BY DEF ConnInv, CountersMapped, ConnOnMiss
<1>3. Admitted(conns, key, ZeroCount, admitted)
  BY <1>2, AdmitShard
<1>4. /\ slot \in Tracked(shard)
         => /\ conns' = shard
            /\ conn' = [conn EXCEPT ![r].pc = "count", ![r].state = shard.entries[slot]]
            /\ UNCHANGED counts
      /\ slot \notin Tracked(shard)
         => /\ conns' = Put(shard, slot, n + 1)
            /\ counts' = Append(counts, 0)
            /\ conn' = [conn EXCEPT ![r].pc = "count", ![r].state = n + 1]
  BY DEF GetOrInsertCounter
<1>5. \A k \in Tracked(shard) : shard.entries[k] \in 1..n
  BY <1>3 DEF Admitted, ConnInv, CountersMapped
<1> HIDE DEF admitted, n
<1>6. ASSUME NEW t, conn' = [conn EXCEPT ![r].pc = "count", ![r].state = t]
      PROVE  OnlyMoves(conn, conn', r) /\ conn'[r] = next(t) /\ DOMAIN conn' = Requests
  <2>1. conn' = [conn EXCEPT ![r] = [q EXCEPT !.pc = "count", !.state = t]]
    BY <1>6 DEF ConnInv, ConnTypes
  <2>2. q = [pc |-> q.pc, limits |-> q.limits, state |-> q.state, guards |-> q.guards]
    BY <1>1 DEF ConnRequest
  <2>3. [q EXCEPT !.pc = "count", !.state = t] = next(t)
    BY <2>2, RequestUpdates, Zenon
  <2>4. conn' = [conn EXCEPT ![r] = next(t)]
    BY <2>1, <2>3
  <2> HIDE DEF next
  <2> QED BY <2>4, RequestMoves DEF ConnInv
<1>7. \A t : next(t).pc = "count" /\ next(t).guards = q.guards /\ next(t).state = t
  OBVIOUS
<1>8. ASSUME NEW m \in Nat, ConnRequest(q, m), NEW t \in 1..m PROVE ConnRequest(next(t), m)
  BY <1>1, <1>8 DEF ConnRequest
<1>9. CASE slot \in Tracked(shard)
  <2> DEFINE t == shard.entries[slot]
  <2>1. t \in 1..n
    BY <1>5, <1>9
  <2>2. OnlyMoves(conn, conn', r) /\ conn'[r] = next(t) /\ DOMAIN conn' = Requests
    BY <1>4, <1>6, <1>9
  <2>3. ConnRequest(next(t), n)
    BY <1>1, <1>8, <2>1
  <2>4. conns' = shard /\ UNCHANGED counts
    BY <1>4, <1>9
  <2>5. next(t).pc = "count" /\ next(t).guards = q.guards
    BY <1>7
  <2> HIDE DEF next, t
  <2>6. ConnTypes'
    BY <1>1, <2>2, <2>3, <2>4, ConnTypesNext DEF ConnInv, n
  <2>7. ASSUME NEW s \in 1..n PROVE Counted(counts'[s], conn', s)
    <3>1. Counted(counts[s], conn, s) /\ counts'[s] = counts[s]
      BY <2>4 DEF ConnInv, AllCounted, n
    <3>2. conn'[r].guards = conn[r].guards
      BY <2>2, <2>5
    <3>3. r \notin DecidingIn(conn, s) /\ r \notin DecidingIn(conn', s)
      BY <1>1, <2>2, <2>5 DEF DecidingIn
    <3>4. HeldIn(conn', s) = HeldIn(conn, s)
      BY <2>2, <3>2, HeldSame
    <3> QED BY <2>2, <3>1, <3>3, <3>4, CountedSame
  <2>8. WellFormed(shard) /\ Capped(Tracked(shard))
    <3>1. Tracked(shard) \cup {slot} = Tracked(shard)
      BY <1>9
    <3> QED BY <1>3, <1>9, <3>1 DEF Admitted
  <2>9. CountersMapped'
    BY <1>5, <2>4, <2>8 DEF CountersMapped, n
  <2>10. AllCounted'
    BY <2>4, <2>7 DEF AllCounted, n
  <2> QED BY <2>6, <2>9, <2>10 DEF ConnInv
<1>10. CASE slot \notin Tracked(shard)
  <2> DEFINE t == n + 1
  <2>1. OnlyMoves(conn, conn', r) /\ conn'[r] = next(t) /\ DOMAIN conn' = Requests
    BY <1>4, <1>6, <1>10
  <2>2. counts' = Append(counts, 0) /\ conns' = Put(shard, slot, t)
    BY <1>4, <1>10
  <2>3. /\ counts' \in Seq(Int) /\ Len(counts') = t /\ t \in Nat /\ counts'[t] = 0
        /\ \A s \in 1..n : counts'[s] = counts[s]
    BY <1>1, <2>2 DEF n
  <2>4. \A p \in Requests : ConnRequest(conn[p], n)
    BY DEF ConnInv, ConnTypes, n
  <2>5. \A p \in Requests : ConnRequest(conn[p], t)
    BY <1>1, <2>4, RequestGrows
  <2>6. ConnRequest(next(t), t)
    BY <1>1, <1>8, <2>3, <2>5
  <2>7. next(t).pc = "count" /\ next(t).guards = q.guards
    BY <1>7
  <2> HIDE DEF next
  <2>8. ConnTypes'
    <3>1. \A p \in Requests : ConnRequest(conn'[p], t)
      BY <2>1, <2>5, <2>6 DEF OnlyMoves
    <3> QED BY <2>1, <2>3, <3>1 DEF ConnTypes
  <2>9. ASSUME NEW s \in 1..t PROVE Counted(counts'[s], conn', s)
    <3>1. Counted(counts'[s], conn, s)
      <4>1. CASE s \in 1..n
        BY <2>3, <4>1 DEF ConnInv, AllCounted, n
      <4>2. CASE s = t
        <5>1. Applied # {}
          BY <1>1 DEF ConnRequest
        <5>2. Counted(0, conn, t)
          BY <1>1, <2>4, <5>1, FreshCounted
        <5> QED BY <2>3, <4>2, <5>2
      <4> QED BY <1>1, <4>1, <4>2
    <3>2. conn'[r].guards = conn[r].guards
      BY <2>1, <2>7
    <3>3. r \notin DecidingIn(conn, s) /\ r \notin DecidingIn(conn', s)
      BY <1>1, <2>1, <2>7 DEF DecidingIn
    <3>4. HeldIn(conn', s) = HeldIn(conn, s)
      BY <2>1, <3>2, HeldSame
    <3> QED BY <2>1, <3>1, <3>3, <3>4, CountedSame
  <2>10. Written(conns, slot, t, conns')
    BY <1>3, <2>2, AdmitAndPut
  <2>11. CountersMapped'
    <3>1. ASSUME NEW k \in Tracked(conns') PROVE conns'.entries[k] \in 1..t
      <4>1. CASE k = slot
        BY <1>1, <2>3, <2>10, <4>1 DEF Written
      <4>2. CASE k # slot
        <5>1. conns'.entries[k] \in 1..n
          BY <2>10, <4>2 DEF Written, ConnInv, CountersMapped, n
        <5> QED BY <1>1, <5>1
      <4> QED BY <4>1, <4>2
    <3> QED BY <2>3, <2>10, <3>1 DEF CountersMapped, Written
  <2>12. AllCounted'
    BY <2>3, <2>9 DEF AllCounted
  <2> QED BY <2>8, <2>11, <2>12 DEF ConnInv
<1> QED BY <1>9, <1>10

\* An empty map of counters.
LEMMA ConnInvInit == ConnInit => ConnInv
<1> SUFFICES ASSUME ConnInit PROVE ConnInv
  OBVIOUS
<1>1. counts \in Seq(Int) /\ Len(counts) = 0
  BY DEF ConnInit
<1>2. ConnRequest(ConnIdle, 0)
  BY DEF ConnRequest, ConnIdle
<1>3. ConnTypes
  BY <1>1, <1>2 DEF ConnInit, ConnTypes
<1>4. WellFormed(conns) /\ Capped(Tracked(conns))
  BY EmptyWellFormed DEF ConnInit
<1>5. Tracked(conns) = {}
  BY DEF ConnInit, EmptyShard, Tracked
<1> QED BY <1>1, <1>3, <1>4, <1>5 DEF ConnInv, CountersMapped, AllCounted

\* Every step of a limit-conn request keeps the counters equal to what is held.
LEMMA ConnInvNext ==
  ASSUME ConnInv, [ConnNext]_connVars
  PROVE  ConnInv'
<1>1. CASE UNCHANGED connVars
  BY <1>1 DEF connVars, ConnInv, ConnTypes, CountersMapped, AllCounted
<1>2. ASSUME NEW r \in Requests, NEW limits \in Selections, ConnArrive(r, limits) PROVE ConnInv'
  BY <1>2, ArriveCounts
<1>3. ASSUME NEW r \in Requests, GetOrInsertCounter(r) PROVE ConnInv'
  BY <1>3, LookupCounts
<1>4. ASSUME NEW r \in Requests, FetchAdd(r) PROVE ConnInv'
  BY <1>4, FetchAddCounts
<1>5. ASSUME NEW r \in Requests, SleepEnds(r) PROVE ConnInv'
  <2>1. ConnRequest(conn[r], Len(counts))
    BY RequestTyped
  <2>2. /\ conn[r].pc = "sleep" /\ conn' = [conn EXCEPT ![r] = Holding(conn[r])]
        /\ UNCHANGED <<conns, counts>>
    BY <1>5 DEF SleepEnds
  <2>3. Guarded(conn[r], Len(counts), Holding(conn[r]))
    BY <2>1, <2>2, HoldingRequest
  <2> QED BY <2>2, <2>3, WakeCounts
<1>6. ASSUME NEW r \in Requests, Cancel(r) PROVE ConnInv'
  <2> DEFINE next == [Holding(conn[r]) EXCEPT !.pc = "drop"]
  <2>1. ConnRequest(conn[r], Len(counts))
    BY RequestTyped
  <2>2. /\ conn[r].pc = "sleep" /\ conn' = [conn EXCEPT ![r] = next]
        /\ UNCHANGED <<conns, counts>>
    BY <1>6 DEF Cancel
  <2>3. Guarded(conn[r], Len(counts), next)
    BY <2>1, <2>2, HoldingRequest
  <2> HIDE DEF next
  <2> QED BY <2>2, <2>3, WakeCounts
<1>7. ASSUME NEW r \in Requests, RejectReleases(r) PROVE ConnInv'
  BY <1>7, RejectCounts
<1>8. ASSUME NEW r \in Requests, RequestEnds(r) PROVE ConnInv'
  BY <1>8, EndCounts
<1>9. ASSUME NEW r \in Requests, Release(r) PROVE ConnInv'
  BY <1>9, ReleaseCounts
<1> QED BY <1>1, <1>2, <1>3, <1>4, <1>5, <1>6, <1>7, <1>8, <1>9 DEF ConnNext

\* No path of a request leaks a slot or returns one twice, no counter admits more
\* than some limit's conn + burst at a time, and the map keeps to its capacity.
THEOREM SlotsAreCounted == ConnSpec => []CountsExact
<1>1. ConnInit => ConnInv
  BY ConnInvInit
<1>2. ConnInv /\ [ConnNext]_connVars => ConnInv'
  BY ConnInvNext
<1>3. ConnInv => CountsExact
  <2> SUFFICES ASSUME ConnInv PROVE CountsExact
    OBVIOUS
  <2>1. Bounded(conns)
    BY CappedBounded DEF ConnInv, CountersMapped
  <2>2. ASSUME NEW s \in DOMAIN counts
        PROVE  /\ counts[s] = Cardinality(GuardsOn(s)) + Cardinality(Deciding(s))
               /\ \E limits \in Selections : \E i \in DOMAIN limits :
                    Cardinality(GuardsOn(s)) <= limits[i].conn + limits[i].burst
    <3>1. Counted(counts[s], conn, s)
      BY <2>2 DEF ConnInv, ConnTypes, AllCounted
    <3>2. GuardsOn(s) = HeldIn(conn, s) /\ Deciding(s) = DecidingIn(conn, s)
      BY DEF GuardsOn, HeldIn, Deciding, DecidingIn
    <3>3. PICK limit \in Applied :
            Cardinality(HeldIn(conn, s)) + Cardinality(SleepingIn(conn, s)) <= limit.conn + limit.burst
      BY <3>1 DEF Counted
    <3>4. PICK limits \in Selections : \E i \in DOMAIN limits : limit = limits[i]
      BY <3>3 DEF Applied
    <3>5. PICK i \in DOMAIN limits : limit = limits[i]
      BY <3>4
    <3>6. IsFiniteSet(HeldIn(conn, s)) /\ IsFiniteSet(DecidingIn(conn, s))
          /\ counts[s] = Cardinality(HeldIn(conn, s)) + Cardinality(DecidingIn(conn, s))
      BY <3>1 DEF Counted
    <3>7. Cardinality(HeldIn(conn, s)) \in Nat /\ Cardinality(SleepingIn(conn, s)) \in Nat
          /\ limit.conn \in Nat /\ limit.burst \in Nat
      BY <3>6, SleepersFew, FS_CardinalityType, ConnAssumption
    <3>8. Cardinality(HeldIn(conn, s)) <= limit.conn + limit.burst
      BY <3>3, <3>7
    <3> QED BY <3>2, <3>5, <3>6, <3>8
  <2> QED BY <2>1, <2>2 DEF CountsExact
<1> QED BY <1>1, <1>2, <1>3, PTL DEF ConnSpec

\* A counter belongs to one key of the map: the overflow key's is nobody else's.
StatesApart ==
  \A j, k \in Tracked(conns) : conns.entries[j] = conns.entries[k] => j = k

\* get_or_insert_counter makes a new counter for a new entry, and only for it.
LEMMA LookupApart ==
  ASSUME ConnInv, StatesApart, NEW r \in Requests, GetOrInsertCounter(r)
  PROVE  StatesApart'
<1> DEFINE n == Len(counts)
           key == Head(conn[r].limits).key
           admitted == Admit(conns, key, ZeroCount, ConnOnMiss)
           shard == admitted.shard
           slot == admitted.slot
<1>1. WellFormed(conns) /\ Capped(Tracked(conns)) /\ ConnOnMiss \in {"Restore", "PushBack"}
      /\ n \in Nat /\ \A k \in Tracked(conns) : conns.entries[k] \in 1..n
  BY DEF ConnInv, CountersMapped, ConnOnMiss, ConnTypes
<1>2. Admitted(conns, key, ZeroCount, admitted)
  BY <1>1, AdmitShard
<1>3. \/ conns' = shard
      \/ slot \notin Tracked(shard) /\ conns' = Put(shard, slot, n + 1)
  BY DEF GetOrInsertCounter
<1> HIDE DEF admitted, n
<1>4. \A k \in Tracked(shard) : k \in Tracked(conns) /\ shard.entries[k] = conns.entries[k]
  BY <1>2 DEF Admitted
<1>5. CASE conns' = shard
  <2> HIDE DEF shard
  <2> QED BY <1>4, <1>5 DEF StatesApart
<1>6. CASE slot \notin Tracked(shard) /\ conns' = Put(shard, slot, n + 1)
  <2>1. Written(conns, slot, n + 1, conns')
    BY <1>2, <1>6, AdmitAndPut
  <2> HIDE DEF shard, slot
  <2>2. conns'.entries[slot] = n + 1 /\ slot \in Tracked(conns')
        /\ \A k \in Tracked(conns') \ {slot} : k \in Tracked(conns) /\ conns'.entries[k] = conns.entries[k]
    BY <2>1 DEF Written
  <2>3. \A k \in Tracked(conns') \ {slot} : conns'.entries[k] # n + 1
    BY <1>1, <2>2
  <2>4. ASSUME NEW j \in Tracked(conns'), NEW k \in Tracked(conns'), conns'.entries[j] = conns'.entries[k]
        PROVE  j = k
    <3>1. CASE j = slot \/ k = slot
      BY <2>2, <2>3, <2>4, <3>1
    <3>2. CASE j # slot /\ k # slot
      BY <2>2, <2>4, <3>2 DEF StatesApart
    <3> QED BY <3>1, <3>2
  <2> QED BY <2>4 DEF StatesApart
<1> QED BY <1>3, <1>5, <1>6

\* Only a lookup changes the map of counters.
LEMMA StatesApartNext ==
  ASSUME ConnInv, StatesApart, [ConnNext]_connVars
  PROVE  StatesApart'
<1>1. CASE conns' = conns
  BY <1>1 DEF StatesApart
<1>2. ASSUME NEW r \in Requests, GetOrInsertCounter(r)
      PROVE  StatesApart'
  BY <1>2, LookupApart
<1> QED BY <1>1, <1>2 DEF ConnNext, connVars, ConnArrive, FetchAdd, SleepEnds, RejectReleases,
                          Cancel, RequestEnds, Release

\* Shard::admit sends a key to the overflow state only after a sweep that left
\* the shard full.
LEMMA OverflowSwept ==
  ASSUME NEW shard, NEW key, NEW evictable, NEW onMiss, key # Overflow,
         Admit(shard, key, evictable, onMiss).slot = Overflow
  PROVE  /\ Full(shard)
         /\ Admit(shard, key, evictable, onMiss).shard = Touch(Sweep(shard, evictable, onMiss), Overflow)
<1> DEFINE known == key \in Tracked(shard)
           swept == IF ~known /\ Full(shard) THEN Sweep(shard, evictable, onMiss) ELSE shard
           slot == IF known \/ ~Full(swept) THEN key ELSE Overflow
<1>1. Admit(shard, key, evictable, onMiss) = [shard |-> Touch(swept, slot), slot |-> slot]
  BY DEF Admit
<1>2. slot = Overflow /\ Admit(shard, key, evictable, onMiss).shard = Touch(swept, slot)
  BY <1>1
<1>3. ~known /\ Full(swept)
  BY <1>2
<1>4. Full(shard) /\ swept = Sweep(shard, evictable, onMiss)
  BY <1>3
<1> HIDE DEF swept, slot
<1> QED BY <1>2, <1>4

\* A lookup that ends at the overflow state and retires nothing.
LEMMA LookupOverflows ==
  ASSUME ConnInv, StatesApart, NEW r \in Requests, GetOrInsertCounter(r),
         Head(conn[r].limits).key # Overflow,
         Overflow \in Tracked(conns'),
         conn'[r].state = conns'.entries[Overflow],
         \A k \in Tracked(conns) : k \in Tracked(conns') /\ conns'.entries[k] = conns.entries[k]
  PROVE  /\ Full(conns)
         /\ Tracked(conns) \subseteq Tracked(Sweep(conns, ZeroCount, "PushBack"))
<1> DEFINE n == Len(counts)
           key == Head(conn[r].limits).key
           admitted == Admit(conns, key, ZeroCount, ConnOnMiss)
           shard == admitted.shard
           slot == admitted.slot
<1>1. WellFormed(conns) /\ Capped(Tracked(conns)) /\ ConnOnMiss = "PushBack"
      /\ n \in Nat /\ \A k \in Tracked(conns) : conns.entries[k] \in 1..n
  BY DEF ConnInv, CountersMapped, ConnOnMiss, ConnTypes
<1>2. Admitted(conns, key, ZeroCount, admitted)
  BY <1>1, AdmitShard
<1>3. DOMAIN conn = Requests /\ conn[r] = [pc |-> conn[r].pc, limits |-> conn[r].limits,
                                           state |-> conn[r].state, guards |-> conn[r].guards]
  BY DEF ConnInv, ConnTypes, ConnRequest
<1>4. \/ slot \in Tracked(shard) /\ conns' = shard /\ conn'[r].state = shard.entries[slot]
      \/ slot \notin Tracked(shard) /\ conns' = Put(shard, slot, n + 1) /\ conn'[r].state = n + 1
  <2>1. \/ /\ slot \in Tracked(shard) /\ conns' = shard
           /\ conn' = [conn EXCEPT ![r].pc = "count", ![r].state = shard.entries[slot]]
        \/ /\ slot \notin Tracked(shard) /\ conns' = Put(shard, slot, n + 1)
           /\ conn' = [conn EXCEPT ![r].pc = "count", ![r].state = n + 1]
    BY DEF GetOrInsertCounter
  <2> HIDE DEF admitted, shard, slot, n
  <2>2. ASSUME NEW t, conn' = [conn EXCEPT ![r].pc = "count", ![r].state = t]
        PROVE  conn'[r].state = t
    <3>1. conn' = [conn EXCEPT ![r] = [conn[r] EXCEPT !.pc = "count", !.state = t]]
      BY <1>3, <2>2, Zenon
    <3> QED BY <1>3, <3>1
  <2> QED BY <2>1, <2>2
<1>5. \A k \in Tracked(shard) : k \in Tracked(conns) /\ shard.entries[k] = conns.entries[k]
  BY <1>2 DEF Admitted
<1> HIDE DEF n, admitted
<1>6. slot = Overflow /\ Tracked(conns) \subseteq Tracked(shard)
  <2>1. CASE slot \in Tracked(shard) /\ conns' = shard /\ conn'[r].state = shard.entries[slot]
    <3> HIDE DEF slot, shard
    <3>1. conns.entries[slot] = conns.entries[Overflow] /\ slot \in Tracked(conns) /\ Overflow \in Tracked(conns)
      BY <1>5, <2>1
    <3> QED BY <2>1, <3>1 DEF StatesApart
  <2>2. CASE slot \notin Tracked(shard) /\ conns' = Put(shard, slot, n + 1) /\ conn'[r].state = n + 1
    <3>1. Written(conns, slot, n + 1, conns')
      BY <1>2, <2>2, AdmitAndPut
    <3>2. /\ shard = [entries |-> shard.entries, order |-> shard.order]
          /\ Lists(shard.order, Tracked(shard) \cup {slot})
      BY <1>2 DEF Admitted
    <3> HIDE DEF slot, shard
    <3>3. Placed(shard, slot, n + 1, conns')
      BY <2>2, <3>2, PutShard
    <3>4. conns'.entries[slot] = n + 1 /\ Tracked(conns') = Tracked(shard) \cup {slot}
          /\ \A k \in Tracked(conns') \ {slot} : k \in Tracked(conns) /\ conns'.entries[k] = conns.entries[k]
      BY <3>1, <3>3 DEF Written, Placed
    <3>5. slot = Overflow
      BY <1>1, <2>2, <3>4
    <3>6. slot \notin Tracked(conns)
      BY <1>1, <3>4
    <3> QED BY <3>4, <3>5, <3>6
  <2> QED BY <1>4, <2>1, <2>2
<1>7. Full(conns) /\ shard = Touch(Sweep(conns, ZeroCount, ConnOnMiss), Overflow)
  <2> HIDE DEF key
  <2>1. key # Overflow /\ Admit(conns, key, ZeroCount, ConnOnMiss).slot = Overflow
    BY <1>6 DEF admitted, key
  <2> QED BY <2>1, OverflowSwept DEF admitted
<1> HIDE DEF shard, slot
<1>8. WellFormed(Sweep(conns, ZeroCount, "PushBack"))
  BY <1>1, SweepThins DEF Thinned
<1>9. Tracked(Touch(Sweep(conns, ZeroCount, "PushBack"), Overflow)) = Tracked(Sweep(conns, ZeroCount, "PushBack"))
  BY <1>8, TouchShard
<1> QED BY <1>1, <1>6, <1>7, <1>9

\* Only a request's own lookup takes it from "lookup" to "count".
LEMMA LookupStep ==
  ASSUME ConnInv, [ConnNext]_connVars, NEW r \in Requests,
         conn[r].pc = "lookup", conn'[r].pc = "count"
  PROVE  GetOrInsertCounter(r)
<1>1. DOMAIN conn = Requests
  BY DEF ConnInv, ConnTypes
<1>2. ASSUME NEW q \in Requests, q # r, conn'[r] = conn[r]
      PROVE  FALSE
  BY <1>2
<1>3. PICK q \in Requests :
        \/ \E limits \in Selections : ConnArrive(q, limits)
        \/ GetOrInsertCounter(q) \/ FetchAdd(q) \/ SleepEnds(q) \/ RejectReleases(q)
        \/ Cancel(q) \/ RequestEnds(q) \/ Release(q)
  BY DEF ConnNext, connVars
<1>4. q # r => conn'[r] = conn[r]
  <2> SUFFICES ASSUME q # r PROVE conn'[r] = conn[r]
    OBVIOUS
  <2>1. CASE \E limits \in Selections : ConnArrive(q, limits)
    BY <1>1, <2>1 DEF ConnArrive
  <2>2. CASE GetOrInsertCounter(q)
    BY <1>1, <2>2 DEF GetOrInsertCounter
  <2>3. CASE FetchAdd(q)
    BY <1>1, <2>3 DEF FetchAdd
  <2>4. CASE SleepEnds(q) \/ RejectReleases(q) \/ Cancel(q) \/ RequestEnds(q) \/ Release(q)
    BY <1>1, <2>4 DEF SleepEnds, RejectReleases, Cancel, RequestEnds, Release
  <2> QED BY <1>3, <2>1, <2>2, <2>3, <2>4
<1>5. q = r
  BY <1>2, <1>4
<1> QED BY <1>3, <1>5 DEF ConnArrive, FetchAdd, SleepEnds, RejectReleases, Cancel, RequestEnds, Release

\* The sweep before an overflow has met as many busy counters as it may examine.
LEMMA BusyOverflow ==
  ASSUME ConnInv, Full(conns),
         Tracked(conns) \subseteq Tracked(Sweep(conns, ZeroCount, "PushBack"))
  PROVE  Cardinality({k \in Tracked(conns) : counts[conns.entries[k]] > 0}) >=
           IF Budget < RegularMax THEN Budget ELSE RegularMax
<1> DEFINE m == IF Budget < RegularMax THEN Budget ELSE RegularMax
           busy == {k \in Tracked(conns) : counts[conns.entries[k]] > 0}
           front == {conns.order[i] : i \in 1..m}
<1>1. WellFormed(conns) /\ Lists(conns.order, Tracked(conns))
  BY DEF ConnInv, CountersMapped, WellFormed
<1>2. /\ IsFiniteSet(Tracked(conns)) /\ Len(conns.order) \in Nat
      /\ Cardinality(Tracked(conns)) = Len(conns.order)
  BY <1>1, ListsCount
<1>3. m \in Nat /\ m <= Budget /\ m <= Len(conns.order)
  BY <1>2, ShardAssumption DEF Full
<1> HIDE DEF m
<1>4. IsFiniteSet(front) /\ Cardinality(front) = m /\ front \subseteq Tracked(conns)
  BY <1>1, <1>3, FrontCount
<1>5. \A i \in 1..Len(conns.order) : i <= Budget => conns.order[i] \notin ZeroCount
  BY <1>1, SweepBusy
<1>6. \A k \in Tracked(conns) : counts[conns.entries[k]] \in Nat
  <2> TAKE k \in Tracked(conns)
  <2> DEFINE s == conns.entries[k]
  <2>1. Counted(counts[s], conn, s)
    BY DEF ConnInv, CountersMapped, AllCounted
  <2> HIDE DEF s
  <2>2. counts[s] = Cardinality(HeldIn(conn, s)) + Cardinality(DecidingIn(conn, s))
        /\ IsFiniteSet(HeldIn(conn, s)) /\ IsFiniteSet(DecidingIn(conn, s))
    BY <2>1 DEF Counted
  <2>3. Cardinality(HeldIn(conn, s)) \in Nat /\ Cardinality(DecidingIn(conn, s)) \in Nat
    BY <2>2, FS_CardinalityType
  <2>4. counts[s] \in Nat
    BY <2>2, <2>3
  <2> QED BY <2>4 DEF s
<1>7. front \subseteq busy
  <2> SUFFICES ASSUME NEW k \in front PROVE k \in busy
    OBVIOUS
  <2>1. PICK i \in 1..m : k = conns.order[i]
    OBVIOUS
  <2>2. i \in 1..Len(conns.order) /\ i <= Budget
    BY <1>2, <1>3, <2>1, ShardAssumption
  <2>3. k \notin ZeroCount /\ k \in Tracked(conns)
    BY <1>4, <1>5, <2>1, <2>2
  <2>4. counts[conns.entries[k]] # 0
    BY <2>3 DEF ZeroCount
  <2> QED BY <1>6, <2>3, <2>4
<1> HIDE DEF front, busy
<1>8. busy \subseteq Tracked(conns)
  BY DEF busy
<1>9. IsFiniteSet(busy)
  BY <1>2, <1>8, FS_Subset
<1>10. Cardinality(front) <= Cardinality(busy) /\ Cardinality(busy) \in Nat
  BY <1>7, <1>9, FS_Subset, FS_CardinalityType
<1> QED BY <1>3, <1>4, <1>10 DEF busy, m

\* A key is sent to the shared overflow state only when the sweep found an idle
\* entry to retire or met as many busy ones as it may examine.
THEOREM OverflowIsForced == ConnSpec => OverflowOnlyWhenBusy
<1>1. ConnInit => ConnInv /\ StatesApart
  <2>1. ConnInit => StatesApart
    BY DEF ConnInit, StatesApart, EmptyShard, Tracked
  <2> QED BY <2>1, ConnInvInit
<1>2. ConnInv /\ StatesApart /\ [ConnNext]_connVars => (ConnInv /\ StatesApart)'
  BY ConnInvNext, StatesApartNext
<1>3. ASSUME ConnInv, StatesApart, [ConnNext]_connVars
      PROVE  [\A r \in Requests :
               (/\ conn[r].pc = "lookup" /\ conn'[r].pc = "count"
                /\ Head(conn[r].limits).key # Overflow
                /\ Overflow \in Tracked(conns')
                /\ conn'[r].state = conns'.entries[Overflow]
                /\ \A k \in Tracked(conns) :
                     k \in Tracked(conns') /\ conns'.entries[k] = conns.entries[k])
               => Cardinality({k \in Tracked(conns) : counts[conns.entries[k]] > 0}) >=
                    IF Budget < RegularMax THEN Budget ELSE RegularMax]_connVars
  <2> SUFFICES ASSUME NEW r \in Requests, conn[r].pc = "lookup", conn'[r].pc = "count",
                      Head(conn[r].limits).key # Overflow,
                      Overflow \in Tracked(conns'),
                      conn'[r].state = conns'.entries[Overflow],
                      \A k \in Tracked(conns) :
                        k \in Tracked(conns') /\ conns'.entries[k] = conns.entries[k]
               PROVE  Cardinality({k \in Tracked(conns) : counts[conns.entries[k]] > 0}) >=
                        IF Budget < RegularMax THEN Budget ELSE RegularMax
    OBVIOUS
  <2>1. GetOrInsertCounter(r)
    BY <1>3, LookupStep
  <2>2. Full(conns) /\ Tracked(conns) \subseteq Tracked(Sweep(conns, ZeroCount, "PushBack"))
    BY <1>3, <2>1, LookupOverflows
  <2> QED BY <1>3, <2>2, BusyOverflow
<1> QED BY <1>1, <1>2, <1>3, PTL DEF ConnSpec, OverflowOnlyWhenBusy

--------------------------------------------------------------------------------
(* limit-count. *)

countAll == <<countVars, clock>>

\* The last n of a key's events are no older than low.
Recent(events, n, low) ==
  n <= Len(events) /\ \A m \in (Len(events) - n + 1)..Len(events) : events[m] >= low

\* SlidingWindow::prune stops at the first event that is young enough: the recent
\* ones stay, also when they are not in the order of their readings.
LEMMA KeptRecent ==
  ASSUME NEW events \in Seq(Nat), NEW now \in Nat, NEW n \in Nat, NEW low \in Int,
         Recent(events, n, low), now - low < Window
  PROVE  Kept(events, now) \in Seq(Nat) /\ Recent(Kept(events, now), n, low)
<1> DEFINE fresh == {i \in DOMAIN events : Since(now, events[i]) < Window}
           first == CHOOSE i \in fresh : \A j \in fresh : i <= j
<1>1. Kept(events, now) = IF fresh = {} THEN <<>> ELSE SubSeq(events, first, Len(events))
  BY DEF Kept
<1>2. n <= Len(events) /\ \A m \in (Len(events) - n + 1)..Len(events) : events[m] >= low
  BY DEF Recent
<1>3. \A m \in (Len(events) - n + 1)..Len(events) : m \in fresh
  <2> TAKE m \in (Len(events) - n + 1)..Len(events)
  <2>1. m \in 1..Len(events) /\ events[m] \in Nat /\ events[m] >= low
    BY <1>2
  <2> QED BY <2>1, CountAssumption DEF Since, AtLeastZero
<1>4. fresh \subseteq 1..Len(events)
  OBVIOUS
<1>5. CASE fresh = {}
  <2>1. n = 0
    BY <1>2, <1>3, <1>5
  <2> QED BY <1>1, <1>5, <2>1 DEF Recent
<1>6. CASE fresh # {}
  <2> HIDE DEF fresh
  <2>0. fresh \in SUBSET Nat
    BY <1>4
  <2>1. \E i \in fresh : \A j \in fresh : i <= j
    BY <1>6, <2>0, LeastMember
  <2>7. first \in fresh /\ \A j \in fresh : first <= j
    BY <2>1
  <2> HIDE DEF first
  <2> DEFINE kept == SubSeq(events, first, Len(events))
  <2>2. first \in 1..Len(events) /\ Len(events) \in Nat
    BY <1>4, <2>7
  <2>3. /\ kept \in Seq(Nat) /\ Len(kept) = Len(events) - first + 1
        /\ \A m \in 1..Len(kept) : kept[m] = events[first + m - 1]
    BY <2>2
  <2> HIDE DEF kept
  <2>4. n = 0 \/ first <= Len(events) - n + 1
    <3> SUFFICES ASSUME n # 0 PROVE first <= Len(events) - n + 1
      OBVIOUS
    <3>1. Len(events) - n + 1 \in (Len(events) - n + 1)..Len(events)
      BY <2>2
    <3>2. Len(events) - n + 1 \in fresh
      BY <1>3, <3>1
    <3> QED BY <2>7, <3>2
  <2>5. n <= Len(kept)
    BY <2>2, <2>3, <2>4
  <2>6. ASSUME NEW m \in (Len(kept) - n + 1)..Len(kept)
        PROVE  kept[m] >= low
    <3>1. m \in 1..Len(kept) /\ first + m - 1 \in (Len(events) - n + 1)..Len(events)
      BY <2>2, <2>3, <2>5
    <3> QED BY <1>2, <2>3, <3>1
  <2> QED BY <1>1, <1>6, <2>3, <2>5, <2>6 DEF Recent, kept
<1> QED BY <1>5, <1>6

\* SlidingWindow::observe: the event joins the recent ones; the cap on a key's
\* history leaves as many as the limit can ask for.
LEMMA ObservedRecent ==
  ASSUME NEW events \in Seq(Nat), NEW now \in Nat, NEW n \in Nat, NEW low \in Int,
         Recent(events, n, low), now - low < Window, now >= low,
         NEW m \in Nat, m <= n + 1, m <= Limit + 1
  PROVE  Observed(events, now) \in Seq(Nat) /\ Recent(Observed(events, now), m, low)
<1> DEFINE kept == Kept(events, now)
           rest == IF Len(kept) >= MaxEvents THEN Tail(kept) ELSE kept
<1>1. kept \in Seq(Nat) /\ n <= Len(kept)
      /\ \A i \in (Len(kept) - n + 1)..Len(kept) : kept[i] >= low
  BY KeptRecent DEF Recent
<1>2. Observed(events, now) = Append(rest, now)
  BY DEF Observed
<1> HIDE DEF kept
<1>3. /\ rest \in Seq(Nat) /\ m - 1 <= Len(rest) /\ Len(rest) \in Nat
      /\ \A i \in (Len(rest) - m + 2)..Len(rest) : i >= 1 => rest[i] >= low
  <2>1. CASE Len(kept) >= MaxEvents
    <3>1. rest = Tail(kept) /\ kept # <<>>
      BY <1>1, <2>1, CountAssumption
    <3>2. rest \in Seq(Nat) /\ Len(rest) = Len(kept) - 1 /\ \A i \in 1..Len(rest) : rest[i] = kept[i + 1]
      BY <1>1, <3>1
    <3> HIDE DEF rest
    <3>3. Len(kept) \in Nat /\ m - 1 <= Len(rest)
      BY <1>1, <2>1, <3>2, CountAssumption
    <3>4. ASSUME NEW i \in (Len(rest) - m + 2)..Len(rest), i >= 1
          PROVE  rest[i] >= low
      <4>1. i \in 1..Len(rest) /\ i + 1 \in (Len(kept) - n + 1)..Len(kept)
        BY <3>2, <3>3, <3>4
      <4> QED BY <1>1, <3>2, <4>1
    <3> QED BY <3>2, <3>3, <3>4
  <2>2. CASE ~(Len(kept) >= MaxEvents)
    <3>1. rest = kept
      BY <2>2
    <3> HIDE DEF rest
    <3>2. Len(kept) \in Nat
      BY <1>1
    <3>3. ASSUME NEW i \in (Len(kept) - m + 2)..Len(kept), i >= 1
          PROVE  kept[i] >= low
      <4>1. i \in (Len(kept) - n + 1)..Len(kept)
        BY <3>2, <3>3
      <4> QED BY <1>1, <4>1
    <3> QED BY <1>1, <3>1, <3>2, <3>3
  <2> QED BY <2>1, <2>2
<1> HIDE DEF rest
<1> DEFINE after == Append(rest, now)
<1>4. /\ after \in Seq(Nat) /\ Len(after) = Len(rest) + 1 /\ after[Len(rest) + 1] = now
      /\ \A i \in 1..Len(rest) : after[i] = rest[i]
  BY <1>3
<1> HIDE DEF after
<1>5. m <= Len(after)
  BY <1>3, <1>4
<1>6. ASSUME NEW i \in (Len(after) - m + 1)..Len(after)
      PROVE  after[i] >= low
  <2>1. i \in 1..Len(rest) \cup {Len(rest) + 1} /\ (i # Len(rest) + 1 => i \in (Len(rest) - m + 2)..Len(rest))
    BY <1>3, <1>4, <1>5
  <2>2. CASE i = Len(rest) + 1
    BY <1>4, <2>2
  <2>3. CASE i # Len(rest) + 1
    <3>1. i \in 1..Len(rest) /\ i \in (Len(rest) - m + 2)..Len(rest) /\ i >= 1
      BY <1>3, <2>1, <2>3
    <3>2. rest[i] >= low
      BY <1>3, <3>1
    <3> QED BY <1>4, <3>1, <3>2
  <2> QED BY <2>2, <2>3
<1> QED BY <1>2, <1>4, <1>5, <1>6 DEF Recent, after

\* The requests of one slot let pass from the j-th on, and those let pass before
\* the i-th in its window.
Later(past, j) == {i \in j..Len(past) : past[i].slot = past[j].slot}
Around(past, i) ==
  {j \in 1..i : past[j].slot = past[i].slot /\ past[i].at - past[j].at < Window - MaxSkew}

Past(past, time) ==
  /\ past \in Seq({past[i] : i \in DOMAIN past})
  /\ \A i \in 1..Len(past) : past[i].at \in Nat /\ past[i].at <= time

\* The map remembers what it let pass less than a window ago: the key's most recent
\* events are at least as many, up to what the limit can tell apart.
Remembers(shard, past, time) ==
  \A j \in 1..Len(past) :
    time - past[j].at < Window - MaxSkew =>
      /\ past[j].slot \in Tracked(shard)
      /\ Recent(shard.entries[past[j].slot], Least(Cardinality(Later(past, j)), Limit + 1),
                past[j].at - MaxSkew)

CountTypes ==
  /\ clock \in Nat
  /\ DOMAIN counted = CountClients
  /\ \A r \in CountClients : counted[r].pc = "observe" =>
       counted[r].now \in Nat /\ counted[r].now <= clock /\ clock - counted[r].now <= MaxSkew

WindowTypes ==
  /\ WellFormed(windows)
  /\ Capped(Tracked(windows))
  /\ \A k \in Tracked(windows) : windows.entries[k] \in Seq(Nat)

WithinLimit(past) == \A i \in 1..Len(past) : Cardinality(Around(past, i)) <= Limit

CountInv ==
  /\ CountTypes
  /\ WindowTypes
  /\ Past(passed, clock)
  /\ Remembers(windows, passed, clock)
  /\ WithinLimit(passed)

\* One more request let pass.
Extends(past, slot, time, after) ==
  /\ Len(past) \in Nat /\ Len(after) = Len(past) + 1
  /\ after[Len(past) + 1].slot = slot /\ after[Len(past) + 1].at = time
  /\ \A i \in 1..Len(past) : after[i] = past[i]

\* The history of requests let pass after one more.
LEMMA PastGrows ==
  ASSUME NEW past, NEW time \in Nat, Past(past, time), NEW slot
  PROVE  LET after == Append(past, [slot |-> slot, at |-> time]) IN
         Extends(past, slot, time, after) /\ Past(after, time)
<1> DEFINE e == [slot |-> slot, at |-> time]
           after == Append(past, e)
           S == {past[i] : i \in DOMAIN past} \cup {e}
<1>1. past \in Seq(S)
  BY DEF Past
<1>2. e \in S
  OBVIOUS
<1>3. e.slot = slot /\ e.at = time
  OBVIOUS
<1> HIDE DEF e, S
<1>4. /\ after \in Seq(S) /\ Len(past) \in Nat /\ Len(after) = Len(past) + 1
      /\ after[Len(past) + 1] = e /\ \A i \in 1..Len(past) : after[i] = past[i]
      /\ DOMAIN after = 1..Len(after)
  BY <1>1, <1>2
<1> HIDE DEF after
<1>5. Extends(past, slot, time, after)
  BY <1>3, <1>4 DEF Extends
<1>6. after \in Seq({after[i] : i \in DOMAIN after})
  <2> DEFINE T == {after[i] : i \in DOMAIN after}
  <2>1. \A i \in 1..Len(after) : after[i] \in T
    BY <1>4
  <2>2. after = [i \in 1..Len(after) |-> after[i]] /\ Len(after) \in Nat
    BY <1>4
  <2> HIDE DEF T
  <2>3. after \in Seq(T)
    BY <2>1, <2>2
  <2> QED BY <2>3 DEF T
<1>7. \A i \in 1..Len(after) : after[i].at \in Nat /\ after[i].at <= time
  <2> TAKE i \in 1..Len(after)
  <2>1. CASE i = Len(past) + 1
    BY <1>3, <1>4, <2>1
  <2>2. CASE i # Len(past) + 1
    <3>1. i \in 1..Len(past)
      BY <1>4, <2>2
    <3> QED BY <1>4, <3>1 DEF Past
  <2> QED BY <2>1, <2>2
<1> QED BY <1>5, <1>6, <1>7 DEF Past, after, e

\* A history is finite.
LEMMA LaterFinite ==
  ASSUME NEW past, Len(past) \in Nat, NEW j \in 1..Len(past)
  PROVE  IsFiniteSet(Later(past, j)) /\ Cardinality(Later(past, j)) \in Nat
<1>1. IsFiniteSet(1..Len(past)) /\ Later(past, j) \subseteq 1..Len(past)
  BY FS_Interval DEF Later
<1> QED BY <1>1, FS_Subset, FS_CardinalityType

\* A request let pass counts for those before it in its slot, and only there.
LEMMA LaterGrows ==
  ASSUME NEW past, NEW slot, NEW time, NEW after, Extends(past, slot, time, after),
         NEW j \in 1..Len(past)
  PROVE  Cardinality(Later(after, j)) =
           Cardinality(Later(past, j)) + (IF past[j].slot = slot THEN 1 ELSE 0)
<1> DEFINE last == Len(past) + 1
<1>1. /\ Len(past) \in Nat /\ Len(after) = last /\ after[last].slot = slot
      /\ \A i \in 1..Len(past) : after[i] = past[i]
  BY DEF Extends
<1>2. IsFiniteSet(Later(past, j)) /\ Cardinality(Later(past, j)) \in Nat
  BY <1>1, LaterFinite
<1>3. last \notin Later(past, j)
  BY <1>1 DEF Later
<1>4. CASE past[j].slot = slot
  <2>1. Later(after, j) = Later(past, j) \cup {last}
    BY <1>1, <1>4 DEF Later
  <2>2. Cardinality(Later(past, j) \cup {last}) =
          IF last \in Later(past, j) THEN Cardinality(Later(past, j)) ELSE Cardinality(Later(past, j)) + 1
    BY <1>2, FS_AddElement
  <2> QED BY <1>3, <1>4, <2>1, <2>2
<1>5. CASE past[j].slot # slot
  <2>1. Later(after, j) = Later(past, j)
    BY <1>1, <1>5 DEF Later
  <2> QED BY <1>2, <1>5, <2>1
<1> QED BY <1>4, <1>5

\* The last request let pass has none after it.
LEMMA LastLater ==
  ASSUME NEW past, NEW slot, NEW time, NEW after, Extends(past, slot, time, after)
  PROVE  Cardinality(Later(after, Len(past) + 1)) = 1
<1>1. Len(past) \in Nat /\ Len(after) = Len(past) + 1
  BY DEF Extends
<1>2. Later(after, Len(past) + 1) = {Len(past) + 1}
  BY <1>1 DEF Later
<1> QED BY <1>2, FS_Singleton

\* What the critical section of check_rate_limit does to the windows: the slot's
\* events are the observed ones, and a key whose last event is recent stays.
Recorded(shard, slot, now, after) ==
  /\ WellFormed(after)
  /\ Capped(Tracked(after))
  /\ slot \in Tracked(after)
  /\ after.entries[slot] \in Seq(Nat)
  /\ \A k \in Tracked(after) : after.entries[k] \in Seq(Nat)
  /\ \A n, m \in Nat, low \in Int :
       /\ n > 0 => slot \in Tracked(shard) /\ Recent(shard.entries[slot], n, low)
       /\ now - low < Window /\ now >= low /\ m <= n + 1 /\ m <= Limit + 1
       => Recent(after.entries[slot], m, low)
  /\ \A k \in Tracked(shard) \ {slot}, n \in Nat, low \in Int :
       n > 0 /\ Recent(shard.entries[k], n, low) /\ now - low < Window
       => k \in Tracked(after) /\ after.entries[k] = shard.entries[k]

\* sliding_stale never takes a key with a recent event: its last event is recent.
LEMMA RecentNotStale ==
  ASSUME NEW k \in Tracked(windows), windows.entries[k] \in Seq(Nat), NEW n \in Nat \ {0},
         NEW low \in Int, Recent(windows.entries[k], n, low),
         NEW now \in Nat, now - low < Window
  PROVE  k \notin Stale(now)
<1> DEFINE events == windows.entries[k]
<1>1. k \in Stale(now) => events = <<>> \/ Since(now, events[Len(events)]) >= MaxWindow
  BY DEF Stale
<1> HIDE DEF events
<1>2. events \in Seq(Nat) /\ n <= Len(events)
      /\ \A m \in (Len(events) - n + 1)..Len(events) : events[m] >= low
  BY DEF Recent, events
<1>3. Len(events) \in Nat /\ Len(events) >= 1 /\ events # <<>>
  BY <1>2
<1>4. Len(events) \in (Len(events) - n + 1)..Len(events)
  BY <1>3
<1>5. events[Len(events)] >= low /\ events[Len(events)] \in Nat
  BY <1>2, <1>3, <1>4
<1>6. Since(now, events[Len(events)]) < MaxWindow
  BY <1>5, CountAssumption DEF Since, AtLeastZero
<1>7. Since(now, events[Len(events)]) \in Nat
  BY <1>5 DEF Since, AtLeastZero
<1> QED BY <1>1, <1>3, <1>6, <1>7, CountAssumption

\* Shard::admit, SlidingWindow::observe and the write behind the entry.
LEMMA ObserveRecords ==
  ASSUME WindowTypes, NEW key, NEW now \in Nat
  PROVE  LET admitted == Admit(windows, key, Stale(now), "Restore")
             shard == admitted.shard
             slot == admitted.slot
             events == Observed(IF slot \in Tracked(shard) THEN shard.entries[slot] ELSE <<>>, now)
         IN Recorded(windows, slot, now, Put(shard, slot, events))
<1> DEFINE admitted == Admit(windows, key, Stale(now), "Restore")
           shard == admitted.shard
           slot == admitted.slot
           old == IF slot \in Tracked(shard) THEN shard.entries[slot] ELSE <<>>
           events == Observed(old, now)
           after == Put(shard, slot, events)
<1>1. WellFormed(windows) /\ Capped(Tracked(windows))
      /\ \A k \in Tracked(windows) : windows.entries[k] \in Seq(Nat)
  BY DEF WindowTypes
<1>2. Admitted(windows, key, Stale(now), admitted)
  BY <1>1, AdmitShard
<1> HIDE DEF admitted
<1>3. /\ Tracked(shard) \subseteq Tracked(windows)
      /\ Tracked(windows) \ Stale(now) \subseteq Tracked(shard)
      /\ \A k \in Tracked(shard) : shard.entries[k] = windows.entries[k]
      /\ shard = [entries |-> shard.entries, order |-> shard.order]
      /\ Lists(shard.order, Tracked(shard) \cup {slot})
      /\ Capped(Tracked(shard) \cup {slot})
  BY <1>2 DEF Admitted
<1> HIDE DEF shard, slot
<1>4. old \in Seq(Nat) /\ (slot \in Tracked(shard) => old = windows.entries[slot])
  <2>1. CASE slot \in Tracked(shard)
    BY <1>1, <1>3, <2>1
  <2>2. CASE slot \notin Tracked(shard)
    <3>1. old = <<>>
      BY <2>2
    <3> QED BY <2>2, <3>1
  <2> QED BY <2>1, <2>2
<1> HIDE DEF old
<1>5. Placed(shard, slot, events, after)
  BY <1>3, PutShard
<1> HIDE DEF after
<1>6. ASSUME NEW n \in Nat, NEW m \in Nat, NEW low \in Int,
             n > 0 => slot \in Tracked(windows) /\ Recent(windows.entries[slot], n, low),
             now - low < Window, now >= low, m <= n + 1, m <= Limit + 1
      PROVE  events \in Seq(Nat) /\ Recent(events, m, low)
  <2>1. Recent(old, n, low)
    <3>1. CASE n > 0
      <4>1. slot \in Tracked(windows) /\ windows.entries[slot] \in Seq(Nat) /\ n \in Nat \ {0}
            /\ Recent(windows.entries[slot], n, low)
        BY <1>1, <1>6, <3>1
      <4>2. slot \notin Stale(now)
        BY <1>6, <4>1, RecentNotStale
      <4>3. slot \in Tracked(shard)
        BY <1>3, <4>1, <4>2
      <4> QED BY <1>4, <4>1, <4>3
    <3>2. CASE n = 0
      <4>1. Len(old) \in Nat
        BY <1>4
      <4> QED BY <3>2, <4>1 DEF Recent
    <3> QED BY <3>1, <3>2
  <2> QED BY <1>4, <1>6, <2>1, ObservedRecent
<1>7. events \in Seq(Nat)
  <2>1. 0 \in Nat /\ now \in Int /\ now - now < Window /\ now >= now /\ 0 <= 0 + 1 /\ 0 <= Limit + 1
    BY CountAssumption
  <2> QED BY <2>1, <1>6
<1> HIDE DEF events
<1>8. /\ WellFormed(after) /\ Tracked(after) = Tracked(shard) \cup {slot}
      /\ after.entries[slot] = events
      /\ \A k \in Tracked(shard) \ {slot} : after.entries[k] = shard.entries[k]
  BY <1>5 DEF Placed
<1>9. \A k \in Tracked(after) : after.entries[k] \in Seq(Nat)
  <2> TAKE k \in Tracked(after)
  <2>1. CASE k = slot
    BY <1>7, <1>8, <2>1
  <2>2. CASE k # slot
    <3>1. k \in Tracked(windows) /\ after.entries[k] = windows.entries[k]
      BY <1>3, <1>8, <2>2
    <3> QED BY <1>1, <3>1
  <2> QED BY <2>1, <2>2
<1>10. ASSUME NEW k \in Tracked(windows) \ {slot}, NEW n \in Nat, NEW low \in Int,
              n > 0, Recent(windows.entries[k], n, low), now - low < Window
       PROVE  k \in Tracked(after) /\ after.entries[k] = windows.entries[k]
  <2>1. k \in Tracked(windows) /\ windows.entries[k] \in Seq(Nat) /\ n \in Nat \ {0}
    BY <1>1, <1>10
  <2>2. k \notin Stale(now)
    BY <1>10, <2>1, RecentNotStale
  <2> QED BY <1>3, <1>8, <1>10, <2>1, <2>2
<1>11. Recorded(windows, slot, now, after)
  BY <1>3, <1>6, <1>7, <1>8, <1>9, <1>10 DEF Recorded
<1> QED BY <1>11 DEF after, events, old, slot, shard, admitted

\* The windows after a critical section remember what was let pass before it and,
\* with it, the request itself if it is let pass.
LEMMA RemembersNext ==
  ASSUME NEW shard, NEW past, NEW time \in Nat, NEW slot, NEW now \in Nat, NEW after, NEW next,
         Remembers(shard, past, time), Past(past, time), Recorded(shard, slot, now, after),
         now <= time, time - now <= MaxSkew,
         next = past \/ Extends(past, slot, time, next)
  PROVE  Remembers(after, next, time)
<1> SUFFICES ASSUME NEW j \in 1..Len(next), time - next[j].at < Window - MaxSkew
             PROVE  /\ next[j].slot \in Tracked(after)
                    /\ Recent(after.entries[next[j].slot],
                              Least(Cardinality(Later(next, j)), Limit + 1), next[j].at - MaxSkew)
  BY DEF Remembers
<1> DEFINE k == next[j].slot
           low == next[j].at - MaxSkew
           size == Cardinality(Later(next, j))
           m == Least(size, Limit + 1)
<1>1. Len(past) \in Nat
  BY DEF Past
<1>2. \A n, q \in Nat, l \in Int :
       /\ n > 0 => slot \in Tracked(shard) /\ Recent(shard.entries[slot], n, l)
       /\ now - l < Window /\ now >= l /\ q <= n + 1 /\ q <= Limit + 1
       => Recent(after.entries[slot], q, l)
  BY DEF Recorded
<1>3. \A i \in Tracked(shard) \ {slot}, n \in Nat, l \in Int :
       n > 0 /\ Recent(shard.entries[i], n, l) /\ now - l < Window
       => i \in Tracked(after) /\ after.entries[i] = shard.entries[i]
  BY DEF Recorded
<1>4. slot \in Tracked(after)
  BY DEF Recorded
<1>5. CASE j \in 1..Len(past)
  <2> DEFINE before == Cardinality(Later(past, j))
             n == Least(before, Limit + 1)
  <2>1. /\ next[j] = past[j]
        /\ size = before + (IF next # past /\ k = slot THEN 1 ELSE 0)
        /\ next[j].at \in Nat /\ next[j].at <= time
    <3>0. before \in Nat
      BY <1>1, <1>5, LaterFinite
    <3>1. CASE next = past
      BY <1>5, <3>0, <3>1 DEF Past
    <3>2. CASE next # past /\ Extends(past, slot, time, next)
      <4>1. next[j] = past[j]
        BY <1>5, <3>2 DEF Extends
      <4>2. size = before + (IF past[j].slot = slot THEN 1 ELSE 0)
        BY <1>5, <3>2, LaterGrows
      <4> QED BY <1>5, <3>2, <4>1, <4>2 DEF Past
    <3> QED BY <3>1, <3>2
  <2>2. before \in Nat /\ before > 0
    <3>1. IsFiniteSet(Later(past, j)) /\ before \in Nat
      BY <1>1, <1>5, LaterFinite
    <3>2. j \in Later(past, j)
      BY <1>1, <1>5 DEF Later
    <3>3. before # 0
      BY <3>1, <3>2, FS_EmptySet
    <3> QED BY <3>1, <3>3
  <2>3. k \in Tracked(shard) /\ Recent(shard.entries[k], n, low)
    BY <1>5, <2>1 DEF Remembers
  <2> HIDE DEF before, size, k
  <2>4. n \in Nat /\ n > 0 /\ m \in Nat /\ m <= n + 1 /\ m <= Limit + 1 /\ (k # slot => m = n)
    BY <2>1, <2>2, CountAssumption DEF Least
  <2>5. low \in Int /\ now - low < Window /\ now >= low
    <3> DEFINE at == next[j].at
    <3>1. /\ at \in Nat /\ at <= time /\ time - at < Window - MaxSkew
          /\ MaxSkew \in Nat /\ Window \in Nat /\ now \in Nat /\ time \in Nat
      BY <2>1, CountAssumption
    <3> HIDE DEF at
    <3>2. at - MaxSkew \in Int /\ now - (at - MaxSkew) < Window /\ now >= at - MaxSkew
      BY <3>1
    <3> QED BY <3>2 DEF at
  <2> HIDE DEF n, m, low
  <2>6. CASE k = slot
    <3>1. Recent(after.entries[slot], m, low)
      BY <1>2, <2>3, <2>4, <2>5, <2>6
    <3> QED BY <1>4, <2>6, <3>1 DEF k, low, m, size
  <2>7. CASE k # slot
    <3>1. k \in Tracked(after) /\ after.entries[k] = shard.entries[k]
      BY <1>3, <2>3, <2>4, <2>5, <2>7
    <3>2. Recent(after.entries[k], m, low)
      BY <2>3, <2>4, <2>7, <3>1
    <3> QED BY <3>1, <3>2 DEF k, low, m, size
  <2> QED BY <2>6, <2>7
<1>6. CASE j \notin 1..Len(past)
  <2>1. Extends(past, slot, time, next)
    BY <1>6
  <2>2. j = Len(past) + 1 /\ k = slot /\ next[j].at = time
    BY <1>1, <1>6, <2>1 DEF Extends
  <2>3. size = 1
    BY <2>1, <2>2, LastLater
  <2> HIDE DEF size
  <2>4. m = 1
    BY <2>3, CountAssumption DEF Least
  <2>5. low \in Int /\ now - low < Window /\ now >= low
    BY <2>2, CountAssumption
  <2> HIDE DEF low
  <2>6. 0 \in Nat /\ 1 \in Nat /\ 1 <= 0 + 1 /\ 1 <= Limit + 1 /\ ~(0 > 0)
    BY CountAssumption
  <2>7. Recent(after.entries[slot], 1, low)
    BY <1>2, <2>5, <2>6
  <2> QED BY <1>4, <2>2, <2>4, <2>7 DEF low, size
<1> QED BY <1>5, <1>6

\* A request is let pass only when the observed window is within the limit: so
\* are the requests let pass in its window.
LEMMA WithinLimitNext ==
  ASSUME NEW past, NEW time \in Nat, NEW slot, NEW after, NEW next,
         Extends(past, slot, time, next), Past(next, time), WithinLimit(past),
         Remembers(after, next, time), after.entries[slot] \in Seq(Nat),
         Len(after.entries[slot]) <= Limit
  PROVE  WithinLimit(next)
<1> DEFINE last == Len(past) + 1
<1>1. /\ Len(past) \in Nat /\ Len(next) = last /\ next[last].slot = slot /\ next[last].at = time
      /\ \A i \in 1..Len(past) : next[i] = past[i]
  BY DEF Extends
<1>2. ASSUME NEW i \in 1..Len(past)
      PROVE  Cardinality(Around(next, i)) <= Limit
  <2>1. \A j \in 1..i : j \in 1..Len(past)
    BY <1>1
  <2>2. Around(next, i) = Around(past, i)
    BY <1>1, <2>1 DEF Around
  <2> QED BY <2>2 DEF WithinLimit
<1>3. Cardinality(Around(next, last)) <= Limit
  <2> DEFINE around == Around(next, last)
  <2>1. around \in SUBSET Nat /\ last \in around /\ around \subseteq 1..last
    BY <1>1, CountAssumption DEF Around
  <2>2. around # {}
    BY <2>1
  <2>3. \E f \in around : \A j \in around : f <= j
    BY <2>1, <2>2, LeastMember
  <2>4. PICK f \in around : \A j \in around : f <= j
    BY <2>3
  <2>5. f \in 1..last /\ next[f].slot = slot /\ time - next[f].at < Window - MaxSkew
    BY <1>1, <2>4 DEF Around
  <2>6. around \subseteq Later(next, f)
    <3> SUFFICES ASSUME NEW j \in around PROVE j \in Later(next, f)
      OBVIOUS
    <3>1. j \in 1..last /\ next[j].slot = slot
      BY <1>1 DEF Around
    <3>2. f <= j
      BY <2>4
    <3> QED BY <1>1, <2>5, <3>1, <3>2 DEF Later
  <2> HIDE DEF around
  <2>7. IsFiniteSet(Later(next, f)) /\ Cardinality(Later(next, f)) \in Nat
    BY <1>1, <2>5, LaterFinite
  <2>8. Recent(after.entries[slot], Least(Cardinality(Later(next, f)), Limit + 1), next[f].at - MaxSkew)
    BY <1>1, <2>5 DEF Remembers
  <2>9. Least(Cardinality(Later(next, f)), Limit + 1) <= Len(after.entries[slot])
    BY <2>8 DEF Recent
  <2>10. Len(after.entries[slot]) \in Nat
    OBVIOUS
  <2>11. Cardinality(Later(next, f)) <= Limit
    BY <2>7, <2>9, <2>10, CountAssumption DEF Least
  <2>12. Cardinality(around) <= Cardinality(Later(next, f)) /\ Cardinality(around) \in Nat
    BY <2>6, <2>7, FS_Subset, FS_CardinalityType
  <2>13. Cardinality(around) <= Limit
    BY <2>7, <2>11, <2>12, CountAssumption
  <2> QED BY <2>13 DEF around
<1>4. \A i \in 1..Len(next) : i = last \/ i \in 1..Len(past)
  BY <1>1
<1> QED BY <1>2, <1>3, <1>4 DEF WithinLimit

\* The critical section of check_rate_limit.
LEMMA ObserveKeeps ==
  ASSUME CountInv, NEW r \in CountClients, Observe(r)
  PROVE  /\ WindowTypes' /\ Past(passed', clock) /\ Remembers(windows', passed', clock)
         /\ WithinLimit(passed')
<1> DEFINE now == counted[r].now
           admitted == Admit(windows, Head(counted[r].keys), Stale(now), "Restore")
           shard == admitted.shard
           slot == admitted.slot
           events == Observed(IF slot \in Tracked(shard) THEN shard.entries[slot] ELSE <<>>, now)
<1>1. /\ windows' = Put(shard, slot, events)
      /\ \/ passed' = passed
         \/ Len(events) <= Limit /\ passed' = Append(passed, [slot |-> slot, at |-> clock])
  BY DEF Observe
<1>2. /\ clock \in Nat /\ now \in Nat /\ now <= clock /\ clock - now <= MaxSkew
  BY DEF Observe, CountInv, CountTypes
<1>3. WindowTypes /\ Past(passed, clock) /\ Remembers(windows, passed, clock) /\ WithinLimit(passed)
  BY DEF CountInv
<1>4. Recorded(windows, slot, now, Put(shard, slot, events))
  BY <1>2, <1>3, ObserveRecords
<1>5. windows'.entries[slot] = events
  <2>1. Admitted(windows, Head(counted[r].keys), Stale(now), admitted)
    BY <1>3, AdmitShard DEF WindowTypes
  <2> HIDE DEF admitted, events
  <2>2. Written(windows, slot, events, Put(shard, slot, events))
    BY <2>1, AdmitAndPut
  <2> QED BY <1>1, <2>2 DEF Written
<1> HIDE DEF now, admitted, shard, slot, events
<1>6. Recorded(windows, slot, now, windows')
  BY <1>1, <1>4
<1>7. WindowTypes'
  BY <1>6 DEF Recorded, WindowTypes
<1>8. CASE passed' = passed
  <2>1. Remembers(windows', passed', clock)
    BY <1>2, <1>3, <1>6, <1>8, RemembersNext
  <2> QED BY <1>3, <1>7, <1>8, <2>1
<1>9. CASE Len(events) <= Limit /\ passed' = Append(passed, [slot |-> slot, at |-> clock])
  <2>1. Extends(passed, slot, clock, passed') /\ Past(passed', clock)
    BY <1>2, <1>3, <1>9, PastGrows
  <2>2. Remembers(windows', passed', clock)
    BY <1>2, <1>3, <1>6, <2>1, RemembersNext
  <2>3. windows'.entries[slot] \in Seq(Nat) /\ Len(windows'.entries[slot]) <= Limit
    BY <1>5, <1>6, <1>9 DEF Recorded
  <2>4. WithinLimit(passed')
    BY <1>2, <1>3, <2>1, <2>2, <2>3, WithinLimitNext
  <2> QED BY <1>7, <2>1, <2>2, <2>4
<1> QED BY <1>1, <1>8, <1>9

\* A request uses its reading before it is older than MaxSkew.
LEMMA CountTypesNext ==
  ASSUME CountInv, [CountNext \/ CountTicks]_countAll
  PROVE  CountTypes'
<1> USE DEF CountInv
<1>1. CASE UNCHANGED countAll
  BY <1>1 DEF CountTypes, countAll, countVars
<1>2. CASE CountTicks
  BY <1>2, CountAssumption DEF CountTypes, CountTicks, countVars, ClockTicks
<1>3. ASSUME NEW r \in CountClients, NEW keys \in CountLimits, CountArrive(r, keys)
      PROVE  CountTypes'
  BY <1>3 DEF CountTypes, CountArrive, CountIdle
<1>4. ASSUME NEW r \in CountClients, CheckRateLimit(r)
      PROVE  CountTypes'
  BY <1>4, CountAssumption DEF CountTypes, CheckRateLimit
<1>5. ASSUME NEW r \in CountClients, Observe(r)
      PROVE  CountTypes'
  <2>1. counted' = [counted EXCEPT ![r] = CountIdle] \/
        counted' = [counted EXCEPT ![r] =
                         IF Tail(@.keys) = <<>> THEN CountIdle
                         ELSE [CountIdle EXCEPT !.pc = "check", !.keys = Tail(counted[r].keys)]]
    BY <1>5 DEF Observe
  <2>2. clock' = clock
    BY <1>5 DEF Observe
  <2> DEFINE gone == CountIdle
             on == [CountIdle EXCEPT !.pc = "check", !.keys = Tail(counted[r].keys)]
  <2>4. gone.pc # "observe" /\ on.pc # "observe"
    BY DEF CountIdle
  <2>5. DOMAIN counted = CountClients
    BY DEF CountTypes
  <2> HIDE DEF gone, on
  <2>6. counted' = [counted EXCEPT ![r] = gone] \/ counted' = [counted EXCEPT ![r] = on]
    BY <2>1 DEF gone, on
  <2>3. counted'[r].pc # "observe" /\ DOMAIN counted' = CountClients
        /\ \A q \in CountClients \ {r} : counted'[q] = counted[q]
    BY <2>4, <2>5, <2>6
  <2> QED BY <2>2, <2>3 DEF CountTypes
<1> QED BY <1>1, <1>2, <1>3, <1>4, <1>5 DEF CountNext

\* Time that passes makes nothing recent.
LEMMA RemembersTicks ==
  ASSUME NEW shard, NEW past, NEW time \in Nat, Past(past, time), Remembers(shard, past, time),
         NEW then, then = time + 1
  PROVE  Past(past, then) /\ Remembers(shard, past, then)
<1>1. \A j \in 1..Len(past) : past[j].at \in Nat /\ past[j].at <= time
  BY DEF Past
<1>2. Past(past, then)
  BY <1>1 DEF Past
<1>3. \A j \in 1..Len(past) : then - past[j].at < Window - MaxSkew => time - past[j].at < Window - MaxSkew
  BY <1>1, CountAssumption
<1>4. Remembers(shard, past, then)
  <2> DEFINE Held(j) == /\ past[j].slot \in Tracked(shard)
                        /\ Recent(shard.entries[past[j].slot],
                                  Least(Cardinality(Later(past, j)), Limit + 1), past[j].at - MaxSkew)
  <2>1. \A j \in 1..Len(past) : time - past[j].at < Window - MaxSkew => Held(j)
    BY DEF Remembers
  <2> HIDE DEF Held
  <2>2. \A j \in 1..Len(past) : then - past[j].at < Window - MaxSkew => Held(j)
    BY <1>3, <2>1
  <2> QED BY <2>2 DEF Remembers, Held
<1> QED BY <1>2, <1>4

\* Arrivals, readings, critical sections and time keep the windows complete.
LEMMA CountInvNext ==
  ASSUME CountInv, [CountNext \/ CountTicks]_countAll
  PROVE  CountInv'
<1>1. CountTypes'
  BY CountTypesNext
<1>2. CASE UNCHANGED countAll
  BY <1>1, <1>2 DEF CountInv, WindowTypes, countAll, countVars
<1>3. CASE CountTicks
  <2>1. windows' = windows /\ passed' = passed /\ clock' = clock + 1
    BY <1>3 DEF CountTicks, countVars, ClockTicks
  <2>2. Past(passed, clock + 1) /\ Remembers(windows, passed, clock + 1)
    <3>1. clock \in Nat /\ Past(passed, clock) /\ Remembers(windows, passed, clock)
      BY DEF CountInv, CountTypes
    <3> QED BY <3>1, RemembersTicks
  <2> QED BY <1>1, <2>1, <2>2 DEF CountInv, WindowTypes
<1>4. ASSUME NEW r \in CountClients, NEW keys \in CountLimits, CountArrive(r, keys)
      PROVE  CountInv'
  BY <1>1, <1>4 DEF CountArrive, CountInv, WindowTypes
<1>5. ASSUME NEW r \in CountClients, CheckRateLimit(r)
      PROVE  CountInv'
  BY <1>1, <1>5 DEF CheckRateLimit, CountInv, WindowTypes
<1>6. ASSUME NEW r \in CountClients, Observe(r)
      PROVE  CountInv'
  <2>1. clock' = clock
    BY <1>6 DEF Observe
  <2> QED BY <1>1, <1>6, <2>1, ObserveKeeps DEF CountInv
<1> QED BY <1>2, <1>3, <1>4, <1>5, <1>6 DEF CountNext

\* An empty map of windows.
LEMMA CountInvInit == CountInit /\ clock = 0 => CountInv
<1> SUFFICES ASSUME CountInit, clock = 0 PROVE CountInv
  OBVIOUS
<1>1. CountTypes
  BY DEF CountInit, CountTypes, CountIdle
<1>2. WellFormed(windows) /\ Capped(Tracked(windows))
  BY EmptyWellFormed DEF CountInit
<1>3. Tracked(windows) = {}
  BY DEF CountInit, EmptyShard, Tracked
<1>4. passed = <<>> /\ Len(passed) = 0 /\ 1..Len(passed) = {} /\ DOMAIN passed = {}
  BY DEF CountInit
<1>5. passed \in Seq({passed[i] : i \in DOMAIN passed})
  BY <1>4
<1>6. Past(passed, clock) /\ Remembers(windows, passed, clock) /\ WithinLimit(passed)
  BY <1>4, <1>5 DEF Past, Remembers, WithinLimit
<1> QED BY <1>1, <1>2, <1>3, <1>6 DEF CountInv, WindowTypes

\* Whatever the interleaving of clock readings and critical sections, at most the
\* limit of requests of one key is let pass in any period that is shorter than
\* the window by more than a request may lag behind its reading, and the map of
\* windows keeps to its capacity.
THEOREM WindowsSlide == CountSpec => []SlidingExact
<1>1. CountInit /\ clock = 0 => CountInv
  BY CountInvInit
<1>2. CountInv /\ [CountNext \/ CountTicks]_countAll => CountInv'
  BY CountInvNext
<1>3. CountInv => SlidingExact
  <2> SUFFICES ASSUME CountInv PROVE SlidingExact
    OBVIOUS
  <2>1. Bounded(windows)
    BY CappedBounded DEF CountInv, WindowTypes
  <2>2. DOMAIN passed = 1..Len(passed)
    BY DEF CountInv, Past
  <2>3. \A i \in 1..Len(passed) : Cardinality(Around(passed, i)) <= Limit
    BY DEF CountInv, WithinLimit
  <2> QED BY <2>1, <2>2, <2>3 DEF SlidingExact, Around
<1> QED BY <1>1, <1>2, <1>3, PTL DEF CountSpec, countAll

--------------------------------------------------------------------------------
(* limit-count: named groups across reloads. *)

\* A configuration of some snapshot that passed the validators.
CountConfig(c) ==
  /\ c \in UNION {Range(snapshot) : snapshot \in Range(CountSnapshots)}
  /\ count_config_valid(c)

\* The plugin instances something holds: a snapshot, a candidate or a request.
Under(r) == inFlight[r].pc \in {"count", "end"}
Held == Range(serving) \cup Range(building) \cup {inFlight[r].instance : r \in {q \in DOMAIN inFlight : Under(q)}}

\* An instance of a group has the state the registry has for the group; one without a
\* group has a state of its own.
InstanceSound(inst) ==
  /\ CountConfig(inst.config)
  /\ inst.state \in 1 .. Len(rates)
  /\ \A n \in inst.config.group : n \in DOMAIN groups /\ groups[n] = inst.state
  /\ inst.config.group = {} => \A n \in DOMAIN groups : groups[n] # inst.state
InstancesSound == \A inst \in Held : InstanceSound(inst)

RegistrySound ==
  /\ \E S : rates \in Seq(S)
  /\ \A n \in DOMAIN groups : groups[n] \in 1 .. Len(rates)
  /\ \A m, n \in DOMAIN groups : groups[m] = groups[n] => m = n

FlightsSound ==
  /\ DOMAIN inFlight = DOMAIN CountRequests
  /\ \A r \in DOMAIN inFlight :
       /\ inFlight[r].pc \in {"new", "count", "end", "done"}
       /\ inFlight[r] = [pc |-> inFlight[r].pc, instance |-> inFlight[r].instance, limits |-> inFlight[r].limits]
       /\ ~Under(r) => inFlight[r].instance = NoInstance
       /\ inFlight[r].pc = "count" /\ inFlight[r].instance.config.group # {} =>
            \E limit : inFlight[r].limits = <<limit>> /\ limit.count \in Nat

SnapshotsSound ==
  /\ countAt \in 0 .. Len(CountSnapshots)
  /\ countAt = 0 => /\ serving = <<>> /\ verdicts = <<>>
                    /\ \A s \in DOMAIN rates : rates[s] = <<>>
                    /\ \A r \in DOMAIN inFlight : inFlight[r].pc = "new"
  /\ countAt # 0 => /\ DOMAIN serving = DOMAIN CountSnapshots[countAt]
                    /\ \A x \in DOMAIN serving : serving[x].config = CountSnapshots[countAt][x]
  /\ building # <<>> => countAt < Len(CountSnapshots)
  /\ \A x \in DOMAIN building : x \in DOMAIN Candidate /\ building[x].config = Candidate[x]

\* The verdicts on one counter in a list, those that let a request pass under a
\* limit, and those up to one of them.
CounterOf(told, group, at) == {i \in DOMAIN told : told[i].config.group = group /\ told[i].at = at}
PassedOf(told, group, at, limit) ==
  {j \in CounterOf(told, group, at) : told[j].allowed /\ told[j].limit = limit}
UpTo(told, i) == {j \in CounterOf(told, told[i].config.group, told[i].at) : j <= i}

\* The counter of a lasting group has counted its verdicts, let no more pass than a
\* limit allows, and told each request its place.
CountOf(seen, at) == IF at \in DOMAIN seen THEN seen[at] ELSE 0
CountersSound ==
  \A n \in DOMAIN groups : Lasting({n}) =>
    \A at : CountOf(rates[groups[n]], at) = Cardinality(CounterOf(verdicts, {n}, at))
PassedSound ==
  \A n : Lasting({n}) =>
    \A at : \A limit \in Nat : Cardinality(PassedOf(verdicts, {n}, at, limit)) <= limit
Remaining(limit, place) == IF place > limit THEN 0 ELSE limit - place
PlacesSound ==
  \A n : Lasting({n}) => \A i \in DOMAIN verdicts : verdicts[i].config.group = {n} =>
    verdicts[i].remaining = Remaining(verdicts[i].limit, Cardinality(UpTo(verdicts, i)))

VerdictsSound ==
  /\ \E S : verdicts \in Seq(S)
  /\ \A i \in DOMAIN verdicts :
       CountConfig(verdicts[i].config) /\ (verdicts[i].config.group # {} => verdicts[i].limit \in Nat)

GroupInv ==
  /\ InstancesSound /\ RegistrySound /\ FlightsSound /\ SnapshotsSound
  /\ VerdictsSound /\ CountersSound /\ PassedSound /\ PlacesSound

\* A configuration names at most one group and its limits are numbers.
LEMMA ConfigTyped ==
  ASSUME NEW c, CountConfig(c)
  PROVE  /\ \A g, h \in c.group : g = h
         /\ \A m \in c.main : m.count \in Nat
         /\ c.missing \in {"allow", "deny", "default"}
         /\ c.group # {} => c.rules = <<>> /\ c.main # {}
<1>1. PICK snapshot \in Range(CountSnapshots) : c \in Range(snapshot)
  BY DEF CountConfig
<1>2. PICK route \in DOMAIN snapshot : c = snapshot[route]
  BY <1>1 DEF Range
<1>3. c.group # {} => c.rules = <<>> /\ c.main # {}
  <2>1. count_config_valid(c)
    BY ZenonT(30) DEF CountConfig
  <2>2. (c.main = {}) # (c.rules = <<>>) /\ ~(c.group # {} /\ c.rules # <<>>)
    BY ONLY <2>1, ZenonT(30) DEF count_config_valid
  <2> QED BY ONLY <2>2
<1>4. (\A g, h \in c.group : g = h) /\ (\A m \in c.main : m.count \in Nat)
      /\ c.missing \in {"allow", "deny", "default"}
  BY <1>1, <1>2, GroupAssumption
<1> QED BY <1>3, <1>4

\* What an appended element adds.
LEMMA Appended ==
  ASSUME NEW S, NEW s \in Seq(S), NEW e
  PROVE  /\ Append(s, e) \in Seq(S \cup {e}) /\ DOMAIN Append(s, e) = DOMAIN s \cup {Len(s) + 1}
         /\ DOMAIN s = 1 .. Len(s) /\ Len(s) \in Nat /\ Len(s) + 1 \notin DOMAIN s
         /\ Append(s, e)[Len(s) + 1] = e
         /\ \A i \in DOMAIN s : Append(s, e)[i] = s[i]
<1>1. s \in Seq(S \cup {e})
  OBVIOUS
<1>2. Append(s, e) \in Seq(S \cup {e}) /\ Len(Append(s, e)) = Len(s) + 1
  BY <1>1
<1>3. DOMAIN s = 1 .. Len(s) /\ Len(s) \in Nat /\ DOMAIN Append(s, e) = 1 .. Len(s) + 1
  BY <1>1, <1>2
<1>4. Append(s, e)[Len(s) + 1] = e /\ \A i \in 1 .. Len(s) : Append(s, e)[i] = s[i]
  BY <1>1
<1> QED BY <1>2, <1>3, <1>4

\* A verdict is added to its own counter.
LEMMA CounterGrows ==
  ASSUME NEW S, NEW vs \in Seq(S), NEW e, NEW group, NEW at
  PROVE  /\ IsFiniteSet(CounterOf(vs, group, at))
         /\ e.config.group = group /\ e.at = at =>
              /\ CounterOf(Append(vs, e), group, at) = CounterOf(vs, group, at) \cup {Len(vs) + 1}
              /\ Cardinality(CounterOf(Append(vs, e), group, at)) = Cardinality(CounterOf(vs, group, at)) + 1
         /\ ~(e.config.group = group /\ e.at = at) =>
              CounterOf(Append(vs, e), group, at) = CounterOf(vs, group, at)
<1>1. /\ DOMAIN Append(vs, e) = DOMAIN vs \cup {Len(vs) + 1}
      /\ DOMAIN vs = 1 .. Len(vs) /\ Len(vs) \in Nat /\ Len(vs) + 1 \notin DOMAIN vs
      /\ Append(vs, e)[Len(vs) + 1] = e
      /\ \A i \in DOMAIN vs : Append(vs, e)[i] = vs[i]
  BY Appended
<1>2. IsFiniteSet(CounterOf(vs, group, at))
  <2>1. IsFiniteSet(DOMAIN vs)
    BY <1>1, FS_Interval
  <2>2. CounterOf(vs, group, at) \in SUBSET DOMAIN vs
    BY DEF CounterOf
  <2> QED BY <2>1, <2>2, FS_Subset
<1> DEFINE more == Append(vs, e)
<1> HIDE DEF more
<1>3. e.config.group = group /\ e.at = at =>
        CounterOf(more, group, at) = CounterOf(vs, group, at) \cup {Len(vs) + 1}
  BY <1>1 DEF CounterOf, more
<1>4. ~(e.config.group = group /\ e.at = at) => CounterOf(more, group, at) = CounterOf(vs, group, at)
  BY <1>1 DEF CounterOf, more
<1>5. Len(vs) + 1 \notin CounterOf(vs, group, at)
  BY <1>1 DEF CounterOf
<1>6. Cardinality(CounterOf(vs, group, at) \cup {Len(vs) + 1}) = Cardinality(CounterOf(vs, group, at)) + 1
  BY <1>2, <1>5, FS_AddElement
<1> QED BY <1>2, <1>3, <1>4, <1>6 DEF more

\* One that lets a request pass is added to those under its limit.
LEMMA PassedGrows ==
  ASSUME NEW S, NEW vs \in Seq(S), NEW e, NEW group, NEW at, NEW limit
  PROVE  /\ e.allowed /\ e.limit = limit /\ e.config.group = group /\ e.at = at =>
              /\ PassedOf(Append(vs, e), group, at, limit) \subseteq CounterOf(Append(vs, e), group, at)
              /\ IsFiniteSet(CounterOf(Append(vs, e), group, at))
         /\ ~(e.allowed /\ e.limit = limit /\ e.config.group = group /\ e.at = at) =>
              PassedOf(Append(vs, e), group, at, limit) = PassedOf(vs, group, at, limit)
<1>1. /\ DOMAIN Append(vs, e) = DOMAIN vs \cup {Len(vs) + 1} /\ Len(vs) + 1 \notin DOMAIN vs
      /\ Append(vs, e)[Len(vs) + 1] = e
      /\ \A i \in DOMAIN vs : Append(vs, e)[i] = vs[i]
      /\ Append(vs, e) \in Seq(S \cup {e})
  BY Appended
<1>2. IsFiniteSet(CounterOf(Append(vs, e), group, at))
  BY <1>1, CounterGrows
<1> DEFINE more == Append(vs, e)
<1> HIDE DEF more
<1>3. ~(e.allowed /\ e.limit = limit /\ e.config.group = group /\ e.at = at) =>
        PassedOf(more, group, at, limit) = PassedOf(vs, group, at, limit)
  BY <1>1 DEF PassedOf, CounterOf, more
<1>4. PassedOf(more, group, at, limit) \subseteq CounterOf(more, group, at)
  BY DEF PassedOf
<1> QED BY <1>2, <1>3, <1>4 DEF more

\* The place of a verdict is given once and for all.
LEMMA PlacesStay ==
  ASSUME NEW S, NEW vs \in Seq(S), NEW e
  PROVE  /\ \A i \in DOMAIN vs : UpTo(Append(vs, e), i) = UpTo(vs, i)
         /\ UpTo(Append(vs, e), Len(vs) + 1) = CounterOf(Append(vs, e), e.config.group, e.at)
<1>1. /\ DOMAIN Append(vs, e) = DOMAIN vs \cup {Len(vs) + 1} /\ Len(vs) + 1 \notin DOMAIN vs
      /\ DOMAIN vs = 1 .. Len(vs) /\ Len(vs) \in Nat
      /\ Append(vs, e)[Len(vs) + 1] = e
      /\ \A i \in DOMAIN vs : Append(vs, e)[i] = vs[i]
  BY Appended
<1> DEFINE more == Append(vs, e)
<1> HIDE DEF more
<1>2. ASSUME NEW i \in DOMAIN vs PROVE UpTo(more, i) = UpTo(vs, i)
  <2>1. more[i] = vs[i] /\ ~(Len(vs) + 1 <= i)
    BY <1>1 DEF more
  <2> QED BY <1>1, <2>1 DEF UpTo, CounterOf, more
<1>3. UpTo(more, Len(vs) + 1) = CounterOf(more, e.config.group, e.at)
  <2>1. more[Len(vs) + 1] = e /\ \A j \in DOMAIN more : j <= Len(vs) + 1
    BY <1>1 DEF more
  <2> QED BY <2>1 DEF UpTo, CounterOf
<1> QED BY <1>2, <1>3 DEF more

\* What group_state gives a configuration: the state of its group while something
\* holds it, a new one otherwise.  No other entry changes, and only dead ones go.
StateGiven(c, made) ==
  /\ \/ /\ made.rates = rates
        /\ \E n \in c.group : n \in DOMAIN groups /\ made.state = groups[n]
     \/ made.rates = Append(rates, <<>>) /\ made.state = Len(rates) + 1
  /\ \A n \in c.group : n \in DOMAIN made.groups /\ made.groups[n] = made.state
  /\ \A n \in DOMAIN made.groups : n \notin c.group => n \in DOMAIN groups /\ made.groups[n] = groups[n]
  /\ \A n \in DOMAIN groups : Alive(groups[n]) =>
        /\ n \in DOMAIN made.groups
        /\ made.groups[n] = groups[n]
        /\ n \in c.group => made.rates = rates

LEMMA GroupStateGives ==
  ASSUME NEW c, CountConfig(c)
  PROVE  StateGiven(c, GroupState(c))
<1> DEFINE registry == IF c.group = {} THEN groups ELSE Reclaimed(groups)
           found == UpgradedState(registry, c.group)
           state == IF found = {} THEN Len(rates) + 1 ELSE CHOOSE s \in found : TRUE
           given == [g \in DOMAIN registry \cup c.group |-> IF g \in c.group THEN state ELSE registry[g]]
           observed == IF found = {} THEN Append(rates, <<>>) ELSE rates
<1>1. GroupState(c) = [state |-> state, groups |-> given, rates |-> observed]
  BY DEF GroupState
<1>2. /\ GroupState(c).state = state
      /\ GroupState(c).groups = given
      /\ GroupState(c).rates = observed
  BY <1>1
<1>3. /\ DOMAIN registry \subseteq DOMAIN groups
      /\ \A n \in DOMAIN registry : registry[n] = groups[n]
      /\ \A n \in DOMAIN groups : Alive(groups[n]) => n \in DOMAIN registry
  BY DEF Reclaimed
<1>4. \A g, h \in c.group : g = h
  BY ConfigTyped
<1> HIDE DEF registry
<1>5. /\ \A s \in found : \E n \in c.group : n \in DOMAIN groups /\ s = groups[n]
      /\ \A n \in c.group : n \in DOMAIN groups /\ Alive(groups[n]) => found = {groups[n]}
  <2>1. ASSUME NEW s \in found PROVE \E n \in c.group : n \in DOMAIN groups /\ s = groups[n]
    BY <1>3 DEF UpgradedState
  <2>2. ASSUME NEW n \in c.group, n \in DOMAIN groups, Alive(groups[n]) PROVE found = {groups[n]}
    <3>1. n \in DOMAIN registry /\ registry[n] = groups[n]
      BY <1>3, <2>2
    <3>2. {h \in DOMAIN registry \cap c.group : Alive(registry[h])} = {n}
      BY <1>4, <2>2, <3>1
    <3> QED BY <3>1, <3>2 DEF UpgradedState
  <2> QED BY <2>1, <2>2
<1> HIDE DEF found
<1>6. \/ found # {} /\ state \in found /\ observed = rates
      \/ found = {} /\ state = Len(rates) + 1 /\ observed = Append(rates, <<>>)
  OBVIOUS
<1>7. \A n \in c.group : n \in DOMAIN groups /\ Alive(groups[n]) => state = groups[n] /\ observed = rates
  BY <1>5, <1>6
<1> HIDE DEF state, observed
<1>8. /\ \A n \in c.group : n \in DOMAIN given /\ given[n] = state
      /\ \A n \in DOMAIN given : n \notin c.group => n \in DOMAIN groups /\ given[n] = groups[n]
  BY <1>3
<1>9. \A n \in DOMAIN groups : Alive(groups[n]) => n \in DOMAIN given /\ given[n] = groups[n]
  BY <1>3, <1>7
<1> HIDE DEF given
<1> QED BY <1>2, <1>5, <1>6, <1>7, <1>8, <1>9 DEF StateGiven

\* A group of the published snapshot has a serving instance, and so an entry that
\* something holds.
LEMMA LastingHeld ==
  ASSUME GroupInv, NEW n, Lasting({n}), countAt # 0
  PROVE  n \in DOMAIN groups /\ Alive(groups[n])
<1>1. countAt \in 1 .. countAt /\ DOMAIN serving = DOMAIN CountSnapshots[countAt]
      /\ \A x \in DOMAIN serving : serving[x].config = CountSnapshots[countAt][x]
  BY DEF GroupInv, SnapshotsSound
<1>2. PICK route \in DOMAIN CountSnapshots[countAt] : CountSnapshots[countAt][route].group = {n}
  BY <1>1 DEF Lasting
<1>3. serving[route] \in Range(serving) /\ serving[route].config.group = {n}
  BY <1>1, <1>2 DEF Range
<1>4. InstanceSound(serving[route])
  BY <1>3 DEF GroupInv, InstancesSound, Held
<1>5. n \in DOMAIN groups /\ groups[n] = serving[route].state
  BY <1>3, <1>4 DEF InstanceSound
<1>6. serving[route].state \in StatesOf(serving)
  BY <1>1, <1>2 DEF StatesOf
<1> QED BY <1>5, <1>6 DEF Alive

LEMMA HeldAlive ==
  ASSUME GroupInv, NEW inst \in Held
  PROVE  Alive(inst.state)
<1>1. CASE inst \in Range(serving) \/ inst \in Range(building)
  BY <1>1 DEF Range, Alive, StatesOf
<1>2. CASE \E r \in DOMAIN inFlight : inst = inFlight[r].instance
  BY <1>2 DEF Alive
<1> QED BY <1>1, <1>2 DEF Held

\* A candidate's route is compiled.
LEMMA CompileKeepsInstances ==
  ASSUME GroupInv, NEW route, CompileRoute(route)
  PROVE  InstancesSound' /\ RegistrySound'
<1> DEFINE c == Candidate[route]
           kept == route \in DOMAIN serving /\ serving[route].config = c
           made == GroupState(c)
           new == [config |-> c, state |-> made.state]
<1>1. CountConfig(c)
  <2>1. countAt + 1 \in DOMAIN CountSnapshots
    BY GroupAssumption DEF CompileRoute, GroupInv, SnapshotsSound
  <2>2. CountSnapshots[countAt + 1] \in Range(CountSnapshots) /\ route \in DOMAIN CountSnapshots[countAt + 1]
    BY <2>1 DEF CompileRoute, Candidate, Range
  <2>3. c \in Range(CountSnapshots[countAt + 1])
    BY <2>2 DEF Candidate, Range
  <2>4. count_config_valid(c)
    BY DEF CompileRoute
  <2> QED BY <2>2, <2>3, <2>4 DEF CountConfig
<1>2. StateGiven(c, made) /\ \A g, h \in c.group : g = h
  BY <1>1, GroupStateGives, ConfigTyped
<1> HIDE DEF made
<1>3. /\ building' = [x \in DOMAIN building \cup {route} |->
                        IF x # route THEN building[x] ELSE IF kept THEN serving[route] ELSE new]
      /\ groups' = IF kept THEN groups ELSE made.groups
      /\ rates' = IF kept THEN rates ELSE made.rates
      /\ route \notin DOMAIN building
      /\ serving' = serving /\ inFlight' = inFlight
  BY DEF CompileRoute, made
<1> HIDE DEF c, kept
<1>4. kept => serving[route] \in Held
  BY DEF kept, Held, Range
<1>5. \A inst \in Held' : inst \in Held \/ (~kept /\ inst = new)
  <2>1. \A inst \in Range(building') : inst \in Range(building) \/ (kept /\ inst = serving[route]) \/ (~kept /\ inst = new)
    BY <1>3 DEF Range
  <2> QED BY <1>3, <1>4, <2>1 DEF Held, Under
<1>6. CASE kept
  BY <1>3, <1>5, <1>6 DEF GroupInv, InstancesSound, InstanceSound, RegistrySound
<1>7. CASE ~kept
  <2>1. groups' = made.groups /\ rates' = made.rates
    BY <1>3, <1>7
  <2> DEFINE grown == made.rates = Append(rates, <<>>) /\ made.state = Len(rates) + 1
             found == made.rates = rates /\ \E n \in c.group : n \in DOMAIN groups /\ made.state = groups[n]
  <2>2. grown \/ found
    BY <1>2 DEF StateGiven
  <2>3. (\E S : rates' \in Seq(S)) /\ Len(rates) \in Nat /\ Len(rates') \in Nat /\ Len(rates) <= Len(rates')
        /\ (grown => Len(rates') = Len(rates) + 1)
    <3>1. PICK S : rates \in Seq(S)
      BY DEF GroupInv, RegistrySound
    <3>2. Append(rates, <<>>) \in Seq(S \cup {<<>>}) /\ Len(Append(rates, <<>>)) = Len(rates) + 1 /\ Len(rates) \in Nat
      BY <3>1, Appended
    <3> QED BY <2>1, <2>2, <3>1, <3>2
  <2>4. made.state \in 1 .. Len(rates')
    BY <2>2, <2>3 DEF GroupInv, RegistrySound
  <2>5. /\ \A n \in c.group : n \in DOMAIN groups' /\ groups'[n] = made.state
        /\ \A n \in DOMAIN groups' : n \notin c.group => n \in DOMAIN groups /\ groups'[n] = groups[n]
    BY <1>2, <2>1 DEF StateGiven
  <2>6. \A n \in DOMAIN groups : Alive(groups[n]) => n \in DOMAIN groups' /\ groups'[n] = groups[n]
    BY <1>2, <2>1 DEF StateGiven
  <2>7. \A n \in DOMAIN groups : groups[n] \in 1 .. Len(rates)
    BY DEF GroupInv, RegistrySound
  <2>8. \A m, n \in DOMAIN groups : groups[m] = groups[n] => m = n
    BY DEF GroupInv, RegistrySound
  <2>9. RegistrySound'
    <3>1. \A n \in DOMAIN groups' : groups'[n] \in 1 .. Len(rates')
      BY <2>3, <2>4, <2>5, <2>7
    <3>2. ASSUME NEW m \in DOMAIN groups', NEW n \in DOMAIN groups', groups'[m] = groups'[n], m # n,
                 m \in c.group, n \notin c.group
          PROVE  FALSE
      <4>1. n \in DOMAIN groups /\ groups[n] = made.state
        BY <2>5, <3>2
      <4>2. made.state # Len(rates) + 1
        BY <2>3, <2>7, <4>1
      <4>3. PICK k \in c.group : k \in DOMAIN groups /\ made.state = groups[k]
        BY <2>2, <4>2
      <4> QED BY <2>8, <3>2, <4>1, <4>3
    <3>3. \A m, n \in DOMAIN groups' : groups'[m] = groups'[n] => m = n
      BY <1>2, <2>5, <2>8, <3>2
    <3> QED BY <2>3, <3>1, <3>3 DEF RegistrySound
  <2>10. ASSUME NEW inst, inst = new PROVE InstanceSound(inst)'
    <3>1. c.group = {} => \A n \in DOMAIN groups' : groups'[n] # made.state
      BY <2>2, <2>3, <2>5, <2>7
    <3>2. inst.config = c /\ inst.state = made.state
      BY <2>10
    <3>3. CountConfig(inst.config)' /\ inst.state \in 1 .. Len(rates')
      BY <1>1, <2>4, <3>2 DEF CountConfig
    <3> QED BY <2>5, <3>1, <3>2, <3>3 DEF InstanceSound, CountConfig
  <2>11. ASSUME NEW inst \in Held PROVE InstanceSound(inst)'
    <3>1. InstanceSound(inst)
      BY DEF GroupInv, InstancesSound
    <3>2. Alive(inst.state)
      BY HeldAlive
    <3>3. \A n \in inst.config.group : n \in DOMAIN groups' /\ groups'[n] = inst.state
      BY <2>6, <3>1, <3>2 DEF InstanceSound
    <3>4. inst.state \in 1 .. Len(rates)
      BY <3>1 DEF InstanceSound
    <3>5. ASSUME inst.config.group = {}, NEW n \in DOMAIN groups' PROVE groups'[n] # inst.state
      <4>1. \A m \in DOMAIN groups : groups[m] # inst.state
        BY <3>1, <3>5 DEF InstanceSound
      <4>2. made.state # inst.state
        BY <2>2, <2>3, <3>4, <4>1
      <4> QED BY <2>5, <4>1, <4>2
    <3>6. CountConfig(inst.config)'
      BY <3>1 DEF InstanceSound, CountConfig
    <3>7. inst.state \in 1 .. Len(rates')
      BY <2>3, <3>4
    <3> QED BY <3>3, <3>5, <3>6, <3>7 DEF InstanceSound
  <2>12. InstancesSound'
    <3> SUFFICES ASSUME NEW inst \in Held' PROVE InstanceSound(inst)'
      BY DEF InstancesSound
    <3>1. inst \in Held \/ inst = new
      BY <1>5
    <3> QED BY <2>10, <2>11, <3>1
  <2> QED BY <2>9, <2>12
<1> QED BY <1>6, <1>7

LEMMA CompileKeepsCounters ==
  ASSUME GroupInv, NEW route, CompileRoute(route)
  PROVE  CountersSound' /\ SnapshotsSound'
<1> DEFINE c == Candidate[route]
           kept == route \in DOMAIN serving /\ serving[route].config = c
           made == GroupState(c)
           new == [config |-> c, state |-> made.state]
<1>1. CountConfig(c) /\ route \in DOMAIN Candidate /\ countAt < Len(CountSnapshots)
  <2>1. countAt + 1 \in DOMAIN CountSnapshots
    BY GroupAssumption DEF CompileRoute, GroupInv, SnapshotsSound
  <2>2. CountSnapshots[countAt + 1] \in Range(CountSnapshots) /\ route \in DOMAIN CountSnapshots[countAt + 1]
    BY <2>1 DEF CompileRoute, Candidate, Range
  <2>3. c \in Range(CountSnapshots[countAt + 1])
    BY <2>2 DEF Candidate, Range
  <2>4. count_config_valid(c) /\ countAt < Len(CountSnapshots)
    BY DEF CompileRoute
  <2> QED BY <2>2, <2>3, <2>4 DEF CountConfig, Candidate
<1>2. StateGiven(c, made) /\ \A g, h \in c.group : g = h
  BY <1>1, GroupStateGives, ConfigTyped
<1> HIDE DEF made
<1>3. /\ building' = [x \in DOMAIN building \cup {route} |->
                        IF x # route THEN building[x] ELSE IF kept THEN serving[route] ELSE new]
      /\ groups' = IF kept THEN groups ELSE made.groups
      /\ rates' = IF kept THEN rates ELSE made.rates
      /\ serving' = serving /\ countAt' = countAt /\ verdicts' = verdicts /\ inFlight' = inFlight
  BY DEF CompileRoute, made
<1>4. \A n : Lasting({n})' <=> Lasting({n})
  BY <1>3 DEF Lasting
<1>5. ASSUME NEW seen, seen = <<>> PROVE \A at : CountOf(seen, at) = 0
  BY <1>5 DEF CountOf
<1>6. /\ \E S : rates \in Seq(S)
      /\ \A n \in DOMAIN groups : groups[n] \in 1 .. Len(rates)
      /\ \A m, n \in DOMAIN groups : groups[m] = groups[n] => m = n
  BY DEF GroupInv, RegistrySound
<1>7. /\ made.rates = Append(rates, <<>>) =>
           /\ made.rates[Len(rates) + 1] = <<>> /\ DOMAIN made.rates = DOMAIN rates \cup {Len(rates) + 1}
           /\ \A s \in DOMAIN rates : made.rates[s] = rates[s]
      /\ DOMAIN rates = 1 .. Len(rates) /\ Len(rates) \in Nat
  <2>1. PICK S : rates \in Seq(S)
    BY <1>6
  <2>2. /\ DOMAIN Append(rates, <<>>) = DOMAIN rates \cup {Len(rates) + 1}
        /\ DOMAIN rates = 1 .. Len(rates) /\ Len(rates) \in Nat
        /\ Append(rates, <<>>)[Len(rates) + 1] = <<>>
        /\ \A i \in DOMAIN rates : Append(rates, <<>>)[i] = rates[i]
    BY <2>1, Appended
  <2> QED BY <2>2
<1>8. SnapshotsSound'
  <2>1. Candidate' = Candidate
    BY <1>3 DEF Candidate
  <2>2. kept => serving[route].config = c
    BY DEF kept
  <2>3. \A x \in DOMAIN building' : x \in DOMAIN Candidate /\ building'[x].config = Candidate[x]
    <3> SUFFICES ASSUME NEW x \in DOMAIN building'
                 PROVE  x \in DOMAIN Candidate /\ building'[x].config = Candidate[x]
      OBVIOUS
    <3> HIDE DEF kept
    <3>1. CASE x = route
      BY <1>1, <1>3, <2>2, <3>1
    <3>2. CASE x # route
      BY <1>3, <3>2 DEF GroupInv, SnapshotsSound
    <3> QED BY <3>1, <3>2
  <2>4. countAt = 0 => \A s \in DOMAIN rates' : rates'[s] = <<>>
    <3>1. countAt = 0 => \A s \in DOMAIN rates : rates[s] = <<>>
      BY DEF GroupInv, SnapshotsSound
    <3>2. made.rates = rates \/ made.rates = Append(rates, <<>>)
      BY <1>2 DEF StateGiven
    <3> HIDE DEF kept
    <3> QED BY <1>3, <1>7, <3>1, <3>2
  <2> QED BY <1>1, <1>3, <2>1, <2>3, <2>4 DEF GroupInv, SnapshotsSound
<1> HIDE DEF c, kept
<1>9. CountersSound'
  <2> SUFFICES ASSUME NEW n \in DOMAIN groups', Lasting({n}), NEW at
               PROVE  CountOf(rates'[groups'[n]], at) = Cardinality(CounterOf(verdicts, {n}, at))
    BY <1>3, <1>4 DEF CountersSound
  <2>1. n \in DOMAIN groups => CountOf(rates[groups[n]], at) = Cardinality(CounterOf(verdicts, {n}, at))
    BY DEF GroupInv, CountersSound
  <2>2. CASE kept
    BY <1>3, <2>1, <2>2
  <2>3. CASE ~kept
    <3>1. groups' = made.groups /\ rates' = made.rates
      BY <1>3, <2>3
    <3>2. made.rates = rates \/ made.rates = Append(rates, <<>>)
      BY <1>2 DEF StateGiven
    <3>3. \A s \in 1 .. Len(rates) : rates'[s] = rates[s]
      BY <1>7, <3>1, <3>2
    <3>4. CASE n \in DOMAIN groups /\ groups'[n] = groups[n]
      BY <1>6, <2>1, <3>3, <3>4
    <3>5. CASE ~(n \in DOMAIN groups /\ groups'[n] = groups[n])
      <4>1. n \in c.group /\ groups'[n] = made.state
        BY <1>2, <3>1, <3>5 DEF StateGiven
      <4>2. made.state = Len(rates) + 1 /\ made.rates = Append(rates, <<>>)
        BY <1>2, <3>5, <4>1 DEF StateGiven
      <4>3. countAt = 0
        <5>1. SUFFICES ASSUME countAt # 0 PROVE FALSE
          OBVIOUS
        <5>2. n \in DOMAIN groups /\ Alive(groups[n])
          BY <5>1, LastingHeld
        <5> QED BY <1>2, <3>1, <3>5, <5>2 DEF StateGiven
      <4>4. verdicts = <<>>
        BY <4>3 DEF GroupInv, SnapshotsSound
      <4>5. CounterOf(verdicts, {n}, at) = {}
        BY <4>4 DEF CounterOf
      <4>6. rates'[groups'[n]] = <<>>
        BY <1>7, <3>1, <4>1, <4>2
      <4> QED BY <1>5, <4>5, <4>6, FS_EmptySet
    <3> QED BY <3>4, <3>5
  <2> QED BY <2>2, <2>3
<1> QED BY <1>8, <1>9

LEMMA CompileKeeps ==
  ASSUME GroupInv, NEW route, CompileRoute(route)
  PROVE  GroupInv'
<1>1. InstancesSound' /\ RegistrySound' /\ CountersSound' /\ SnapshotsSound'
  BY CompileKeepsInstances, CompileKeepsCounters
<1>2. inFlight' = inFlight /\ countAt' = countAt /\ verdicts' = verdicts
  BY DEF CompileRoute
<1>3. FlightsSound'
  BY <1>2 DEF GroupInv, FlightsSound, Under
<1>4. VerdictsSound'
  BY <1>2 DEF GroupInv, VerdictsSound, CountConfig
<1>5. PassedSound'
  BY <1>2 DEF GroupInv, PassedSound, Lasting
<1>6. PlacesSound'
  BY <1>2 DEF GroupInv, PlacesSound, Lasting
<1> QED BY <1>1, <1>3, <1>4, <1>5, <1>6 DEF GroupInv

\* What is held can only shrink while the registry and the seen stay.
LEMMA FewerHeld ==
  ASSUME GroupInv, Held' \subseteq Held, groups' = groups, Len(rates') = Len(rates)
  PROVE  InstancesSound'
<1> SUFFICES ASSUME NEW inst \in Held' PROVE InstanceSound(inst)'
  BY DEF InstancesSound
<1>1. InstanceSound(inst)
  BY DEF GroupInv, InstancesSound
<1> QED BY <1>1 DEF InstanceSound, CountConfig

LEMMA CandidateDroppedKeeps ==
  ASSUME GroupInv, CandidateDropped
  PROVE  GroupInv'
<1>1. building' = <<>> /\ UNCHANGED <<countAt, serving, inFlight, groups, rates, verdicts>>
  BY DEF CandidateDropped
<1>2. Held' \subseteq Held
  BY <1>1 DEF Held, Under, Range
<1>3. InstancesSound'
  BY <1>1, <1>2, FewerHeld
<1>4. RegistrySound' /\ CountersSound'
  BY <1>1 DEF GroupInv, RegistrySound, CountersSound, Lasting
<1>5. SnapshotsSound'
  BY <1>1 DEF GroupInv, SnapshotsSound
<1>6. FlightsSound'
  BY <1>1 DEF GroupInv, FlightsSound, Under
<1>7. VerdictsSound'
  BY <1>1 DEF GroupInv, VerdictsSound, CountConfig
<1>8. PassedSound' /\ PlacesSound'
  BY <1>1 DEF GroupInv, PassedSound, PlacesSound, Lasting
<1> QED BY <1>3, <1>4, <1>5, <1>6, <1>7, <1>8 DEF GroupInv

LEMMA CountersPublishedKeeps ==
  ASSUME GroupInv, CountersPublished
  PROVE  GroupInv'
<1>1. /\ countAt < Len(CountSnapshots) /\ DOMAIN building = DOMAIN Candidate
      /\ countAt' = countAt + 1 /\ serving' = building /\ building' = <<>>
      /\ UNCHANGED <<inFlight, groups, rates, verdicts>>
  BY DEF CountersPublished
<1>2. Held' \subseteq Held
  BY <1>1 DEF Held, Under, Range
<1>3. InstancesSound'
  BY <1>1, <1>2, FewerHeld
<1>4. countAt \in Nat /\ countAt' \in 0 .. Len(CountSnapshots) /\ countAt' # 0
  BY <1>1, GroupAssumption DEF GroupInv, SnapshotsSound
<1>5. ASSUME NEW n, Lasting({n})' PROVE Lasting({n})
  <2>1. 1 .. countAt \subseteq 1 .. countAt'
    BY <1>1, <1>4
  <2> QED BY <1>5, <2>1 DEF Lasting
<1>6. RegistrySound' /\ CountersSound'
  BY <1>1, <1>5 DEF GroupInv, RegistrySound, CountersSound
<1>7. SnapshotsSound'
  <2>1. \A x \in DOMAIN serving' : serving'[x].config = CountSnapshots[countAt'][x]
    BY <1>1 DEF GroupInv, SnapshotsSound, Candidate
  <2>2. DOMAIN serving' = DOMAIN CountSnapshots[countAt']
    BY <1>1 DEF Candidate
  <2> QED BY <1>1, <1>4, <2>1, <2>2 DEF SnapshotsSound
<1>8. FlightsSound'
  BY <1>1 DEF GroupInv, FlightsSound, Under
<1>9. VerdictsSound'
  BY <1>1 DEF GroupInv, VerdictsSound, CountConfig
<1>10. PassedSound' /\ PlacesSound'
  BY <1>1, <1>5 DEF GroupInv, PassedSound, PlacesSound
<1> QED BY <1>3, <1>6, <1>7, <1>8, <1>9, <1>10 DEF GroupInv

\* A request under a group is held to one limit, whether its key is there or not.
LEMMA FirstVerdictGives ==
  ASSUME NEW c, CountConfig(c), c.group # {}, NEW vars, FirstVerdict(c, vars).verdict = "count"
  PROVE  \E limit : FirstVerdict(c, vars).limits = <<limit>> /\ limit.count \in Nat
<1>1. c.rules = <<>> /\ c.main # {} /\ (\A m \in c.main : m.count \in Nat)
      /\ c.missing \in {"allow", "deny", "default"}
  BY ConfigTyped
<1> DEFINE m == CHOOSE x \in c.main : TRUE
           one == LimitOf(resolve_main_key(c, vars), m, FALSE)
           limits == select_limits(c, vars)
<1>2. m \in c.main
  BY <1>1
<1>3. limits = <<one>>
  BY <1>1 DEF select_limits
<1>4. one.count \in Nat /\ ~one.fromRule /\ one = [key |-> one.key, count |-> one.count, window |-> one.window, fromRule |-> FALSE]
  BY <1>1, <1>2 DEF LimitOf
<1>5. limits # <<>> /\ limits[1] = one
  BY <1>3
<1>6. CASE one.key = ""
  <2>1. FirstVerdict(c, vars) = handle_missing_key(c, one)
    BY <1>4, <1>5, <1>6 DEF FirstVerdict
  <2>2. c.missing = "default"
    BY <1>1, <2>1 DEF handle_missing_key
  <2> DEFINE other == [one EXCEPT !.key = "_default_rate_limit_key"]
             left == <<other>>
  <2>3. handle_missing_key(c, one) = [verdict |-> "count", limits |-> left]
    BY <2>2 DEF handle_missing_key
  <2>4. other.count \in Nat
    BY <1>4
  <2> HIDE DEF other, left, one, limits, m
  <2>5. handle_missing_key(c, one).limits = left
    BY <2>3
  <2>6. FirstVerdict(c, vars).limits = <<other>>
    BY ONLY <2>1, <2>5 DEF left
  <2> QED BY <2>4, <2>6
<1>7. CASE one.key # ""
  <2>1. FirstVerdict(c, vars) = [verdict |-> "count", limits |-> limits]
    BY <1>5, <1>7 DEF FirstVerdict
  <2> HIDE DEF one, limits
  <2>2. FirstVerdict(c, vars).limits = limits
    BY <2>1
  <2>3. FirstVerdict(c, vars).limits = <<one>>
    BY ONLY <1>3, <2>2
  <2> QED BY <1>4, <2>3
<1> QED BY <1>6, <1>7

LEMMA LimitRequestKeeps ==
  ASSUME GroupInv, NEW r \in DOMAIN CountRequests, LimitRequest(r)
  PROVE  GroupInv'
<1> DEFINE inst == serving[CountRequests[r].route]
           first == FirstVerdict(inst.config, CountRequests[r].vars)
           new == [pc |-> IF first.verdict = "count" THEN "count" ELSE "end", instance |-> inst, limits |-> first.limits]
<1>1. /\ inFlight' = [inFlight EXCEPT ![r] = new] /\ CountRequests[r].route \in DOMAIN serving
      /\ UNCHANGED <<countAt, building, serving, groups, rates, verdicts>>
  BY DEF LimitRequest
<1>2. inst \in Held /\ r \in DOMAIN inFlight
  BY <1>1 DEF Held, Range, GroupInv, FlightsSound
<1>3. CountConfig(inst.config)
  BY <1>2 DEF GroupInv, InstancesSound, InstanceSound
<1>4. first.verdict = "count" /\ inst.config.group # {} => \E limit : first.limits = <<limit>> /\ limit.count \in Nat
  BY <1>3, FirstVerdictGives
<1> HIDE DEF inst, first
<1>5. new.pc \in {"count", "end"} /\ (new.pc = "count" => first.verdict = "count") /\ new.instance = inst /\ new.limits = first.limits
      /\ new = [pc |-> new.pc, instance |-> new.instance, limits |-> new.limits]
  OBVIOUS
<1> HIDE DEF new
<1>6. DOMAIN inFlight' = DOMAIN inFlight /\ inFlight'[r] = new /\ \A q \in DOMAIN inFlight : q # r => inFlight'[q] = inFlight[q]
  BY <1>1, <1>2
<1>7. Held' \subseteq Held
  <2> SUFFICES ASSUME NEW q \in DOMAIN inFlight', Under(q)' PROVE inFlight'[q].instance \in Held
    BY <1>1 DEF Held
  <2> QED BY <1>2, <1>5, <1>6 DEF Held, Under
<1>8. InstancesSound'
  BY <1>1, <1>7, FewerHeld
<1>9. FlightsSound'
  <2>3. \A q \in DOMAIN inFlight' : inFlight'[q] =
          [pc |-> inFlight'[q].pc, instance |-> inFlight'[q].instance, limits |-> inFlight'[q].limits]
    BY <1>5, <1>6 DEF GroupInv, FlightsSound
  <2>1. \A q \in DOMAIN inFlight' : /\ inFlight'[q].pc \in {"new", "count", "end", "done"}
                                    /\ ~Under(q)' => inFlight'[q].instance = NoInstance
    BY <1>5, <1>6 DEF GroupInv, FlightsSound, Under
  <2>2. ASSUME NEW q \in DOMAIN inFlight', inFlight'[q].pc = "count", inFlight'[q].instance.config.group # {}
        PROVE  \E limit : inFlight'[q].limits = <<limit>> /\ limit.count \in Nat
    BY <1>4, <1>5, <1>6, <2>2 DEF GroupInv, FlightsSound
  <2> QED BY <1>6, <2>1, <2>2, <2>3 DEF GroupInv, FlightsSound
<1>10. RegistrySound' /\ CountersSound'
  BY <1>1 DEF GroupInv, RegistrySound, CountersSound, Lasting
<1>11. SnapshotsSound'
  <2>1. countAt # 0
    BY <1>1 DEF GroupInv, SnapshotsSound
  <2> QED BY <1>1, <2>1 DEF GroupInv, SnapshotsSound, Candidate
<1>12. VerdictsSound'
  BY <1>1 DEF GroupInv, VerdictsSound, CountConfig
<1>13. PassedSound' /\ PlacesSound'
  BY <1>1 DEF GroupInv, PassedSound, PlacesSound, Lasting
<1> QED BY <1>8, <1>9, <1>10, <1>11, <1>12, <1>13 DEF GroupInv

LEMMA LimitEndsKeeps ==
  ASSUME GroupInv, NEW r \in DOMAIN CountRequests, LimitEnds(r)
  PROVE  GroupInv'
<1> DEFINE new == [pc |-> "done", instance |-> NoInstance, limits |-> inFlight[r].limits]
<1>1. /\ inFlight' = [inFlight EXCEPT ![r] = new]
      /\ UNCHANGED <<countAt, building, serving, groups, rates, verdicts>>
  BY DEF LimitEnds
<1>2. r \in DOMAIN inFlight
  BY DEF GroupInv, FlightsSound
<1>3. new.pc = "done" /\ new.instance = NoInstance
      /\ new = [pc |-> new.pc, instance |-> new.instance, limits |-> new.limits]
  OBVIOUS
<1> HIDE DEF new
<1>4. DOMAIN inFlight' = DOMAIN inFlight /\ inFlight'[r] = new /\ \A q \in DOMAIN inFlight : q # r => inFlight'[q] = inFlight[q]
  BY <1>1, <1>2
<1>5. Held' \subseteq Held
  BY <1>1, <1>2, <1>3, <1>4 DEF Held, Under
<1>6. InstancesSound'
  BY <1>1, <1>5, FewerHeld
<1>7. FlightsSound'
  <2>1. \A q \in DOMAIN inFlight' : inFlight'[q] =
          [pc |-> inFlight'[q].pc, instance |-> inFlight'[q].instance, limits |-> inFlight'[q].limits]
    BY <1>3, <1>4 DEF GroupInv, FlightsSound
  <2> QED BY <1>3, <1>4, <2>1 DEF GroupInv, FlightsSound, Under
<1>8. RegistrySound' /\ CountersSound'
  BY <1>1 DEF GroupInv, RegistrySound, CountersSound, Lasting
<1>9. SnapshotsSound'
  <2>1. countAt # 0
    BY <1>2 DEF LimitEnds, GroupInv, SnapshotsSound
  <2> QED BY <1>1, <2>1 DEF GroupInv, SnapshotsSound, Candidate
<1>10. VerdictsSound'
  BY <1>1 DEF GroupInv, VerdictsSound, CountConfig
<1>11. PassedSound' /\ PlacesSound'
  BY <1>1 DEF GroupInv, PassedSound, PlacesSound, Lasting
<1> QED BY <1>6, <1>7, <1>8, <1>9, <1>10, <1>11 DEF GroupInv

\* A request is counted.
LEMMA ObserveFixedKeeps ==
  ASSUME GroupInv, NEW r \in DOMAIN CountRequests, ObserveFixed(r)
  PROVE  GroupInv'
<1> DEFINE limit == Head(inFlight[r].limits)
           inst == inFlight[r].instance
           at == <<limit.window, limit.key>>
           seen == rates[inst.state]
           count == CountOf(seen, at) + 1
           limited == count > limit.count
           left == Tail(inFlight[r].limits)
           more == [x \in DOMAIN seen \cup {at} |-> IF x = at THEN count ELSE seen[x]]
           new == [pc |-> IF limited \/ left = <<>> THEN "end" ELSE "count", instance |-> inst, limits |-> left]
           e == [config |-> inst.config, at |-> at, limit |-> limit.count, allowed |-> ~ limited,
                 remaining |-> IF limited THEN 0 ELSE limit.count - count]
<1>1. /\ inFlight[r].pc = "count"
      /\ rates' = [rates EXCEPT ![inst.state] = more]
      /\ verdicts' = Append(verdicts, e)
      /\ inFlight' = [inFlight EXCEPT ![r] = new]
      /\ UNCHANGED <<countAt, building, serving, groups>>
  BY DEF ObserveFixed, CountOf
<1>2. r \in DOMAIN inFlight /\ inst \in Held /\ countAt # 0
  BY <1>1 DEF GroupInv, FlightsSound, SnapshotsSound, Held, Under
<1>3. InstanceSound(inst)
  BY <1>2 DEF GroupInv, InstancesSound
<1>4. inst.config.group # {} => \E one : inFlight[r].limits = <<one>> /\ one.count \in Nat
  BY <1>1, <1>2 DEF GroupInv, FlightsSound
<1>5. inst.config.group # {} => limit.count \in Nat /\ left = <<>>
  <2> SUFFICES ASSUME inst.config.group # {} PROVE limit.count \in Nat /\ left = <<>>
    OBVIOUS
  <2>1. PICK one : inFlight[r].limits = <<one>> /\ one.count \in Nat
    BY <1>4
  <2>2. Head(<<one>>) = one /\ Tail(<<one>>) = <<>>
    OBVIOUS
  <2>3. limit = one /\ left = <<>>
    BY ONLY <2>1, <2>2
  <2> QED BY <2>1, <2>3
<1>6. /\ CountOf(more, at) = count
      /\ \A x : x # at => CountOf(more, x) = CountOf(seen, x)
  <2> HIDE DEF seen, at, count
  <2> QED BY DEF CountOf
<1>7. /\ e.config = inst.config /\ e.at = at /\ e.limit = limit.count /\ (e.allowed <=> ~ limited)
      /\ e.remaining = IF limited THEN 0 ELSE limit.count - count
  <2> HIDE DEF limited, at, count, limit, inst
  <2> QED OBVIOUS
<1>8. /\ new.pc \in {"count", "end"} /\ (left = <<>> => new.pc = "end") /\ new.instance = inst
      /\ new = [pc |-> new.pc, instance |-> new.instance, limits |-> new.limits]
  <2> HIDE DEF left, limited, inst
  <2> QED OBVIOUS
<1> HIDE DEF limit, inst, at, seen, count, left, more, new, e
<1>9. DOMAIN inFlight' = DOMAIN inFlight /\ inFlight'[r] = new /\ \A q \in DOMAIN inFlight : q # r => inFlight'[q] = inFlight[q]
  BY <1>1, <1>2
<1>10. Held' \subseteq Held
  <2> SUFFICES ASSUME NEW q \in DOMAIN inFlight', Under(q)' PROVE inFlight'[q].instance \in Held
    BY <1>1 DEF Held
  <2> QED BY <1>2, <1>8, <1>9 DEF Held, Under
<1>11. /\ \E S : rates' \in Seq(S)
       /\ Len(rates') = Len(rates) /\ inst.state \in DOMAIN rates
       /\ rates'[inst.state] = more
       /\ \A s \in DOMAIN rates : s # inst.state => rates'[s] = rates[s]
  <2>1. PICK S : rates \in Seq(S)
    BY DEF GroupInv, RegistrySound
  <2>2. inst.state \in 1 .. Len(rates)
    BY <1>3 DEF InstanceSound
  <2>3. rates \in Seq(S \cup {more})
    BY <2>1
  <2>4. rates' \in Seq(S \cup {more}) /\ Len(rates') = Len(rates)
    BY <1>1, <2>2, <2>3
  <2> QED BY <1>1, <2>1, <2>2, <2>4
<1>12. InstancesSound'
  BY <1>1, <1>10, <1>11, FewerHeld
<1>13. RegistrySound'
  BY <1>1, <1>11 DEF GroupInv, RegistrySound
<1>14. SnapshotsSound'
  BY <1>1, <1>2 DEF GroupInv, SnapshotsSound, Candidate
<1>15. FlightsSound'
  <2>1. \A q \in DOMAIN inFlight' : inFlight'[q] =
          [pc |-> inFlight'[q].pc, instance |-> inFlight'[q].instance, limits |-> inFlight'[q].limits]
    BY <1>8, <1>9 DEF GroupInv, FlightsSound
  <2>2. \A q \in DOMAIN inFlight' : /\ inFlight'[q].pc \in {"new", "count", "end", "done"}
                                    /\ ~Under(q)' => inFlight'[q].instance = NoInstance
    BY <1>8, <1>9 DEF GroupInv, FlightsSound, Under
  <2>3. ASSUME NEW q \in DOMAIN inFlight', inFlight'[q].pc = "count", inFlight'[q].instance.config.group # {}
        PROVE  \E one : inFlight'[q].limits = <<one>> /\ one.count \in Nat
    <3>1. q # r
      BY <1>5, <1>8, <1>9, <2>3
    <3>2. inFlight'[q] = inFlight[q] /\ q \in DOMAIN inFlight
      BY <1>9, <3>1
    <3> QED BY <2>3, <3>2 DEF GroupInv, FlightsSound
  <2> QED BY <1>9, <2>1, <2>2, <2>3 DEF GroupInv, FlightsSound
<1>16. PICK S : verdicts \in Seq(S)
  BY DEF GroupInv, VerdictsSound
<1>17. /\ verdicts' \in Seq(S \cup {e})
       /\ DOMAIN verdicts' = DOMAIN verdicts \cup {Len(verdicts) + 1}
       /\ verdicts'[Len(verdicts) + 1] = e
       /\ \A i \in DOMAIN verdicts : verdicts'[i] = verdicts[i]
  BY <1>1, <1>16, Appended
<1>18. VerdictsSound'
  <2>1. CountConfig(e.config) /\ (e.config.group # {} => e.limit \in Nat)
    BY <1>3, <1>5, <1>7 DEF InstanceSound
  <2>2. \A i \in DOMAIN verdicts' : CountConfig(verdicts'[i].config)
          /\ (verdicts'[i].config.group # {} => verdicts'[i].limit \in Nat)
    BY <1>17, <2>1 DEF GroupInv, VerdictsSound
  <2> QED BY <1>17, <2>2 DEF VerdictsSound, CountConfig
<1>19. \A n : Lasting({n})' <=> Lasting({n})
  BY <1>1 DEF Lasting
<1>20. \A n \in DOMAIN groups : groups[n] = inst.state <=> inst.config.group = {n}
  <2>1. \A g, h \in inst.config.group : g = h
    BY <1>3, ConfigTyped DEF InstanceSound
  <2> QED BY <1>3, <2>1 DEF InstanceSound, GroupInv, RegistrySound
<1>21. \A n : inst.config.group = {n} => n \in DOMAIN groups
  BY <1>3 DEF InstanceSound
<1>22. CountersSound'
  <2> SUFFICES ASSUME NEW n \in DOMAIN groups, Lasting({n}), NEW x
               PROVE  CountOf(rates'[groups[n]], x) = Cardinality(CounterOf(verdicts', {n}, x))
    BY <1>1, <1>19 DEF CountersSound
  <2>1. groups[n] \in DOMAIN rates
    BY DEF GroupInv, RegistrySound
  <2>2. CountOf(rates[groups[n]], x) = Cardinality(CounterOf(verdicts, {n}, x))
    BY DEF GroupInv, CountersSound
  <2>3. CASE inst.config.group = {n} /\ x = at
    <3>2. e.config.group = {n} /\ e.at = x
      BY <1>7, <2>3
    <3>3. Cardinality(CounterOf(Append(verdicts, e), {n}, x)) = Cardinality(CounterOf(verdicts, {n}, x)) + 1
      <4> DEFINE group == {n}
      <4>1. e.config.group = group /\ e.at = x
        BY <3>2
      <4> HIDE DEF group
      <4>2. Cardinality(CounterOf(Append(verdicts, e), group, x)) = Cardinality(CounterOf(verdicts, group, x)) + 1
        BY <1>16, <4>1, CounterGrows
      <4> QED BY <4>2 DEF group
    <3>1. Cardinality(CounterOf(verdicts', {n}, x)) = Cardinality(CounterOf(verdicts, {n}, x)) + 1
      BY <1>1, <3>3
    <3> QED BY <1>6, <1>11, <1>20, <2>2, <2>3, <3>1 DEF count, seen
  <2>4. CASE ~(inst.config.group = {n} /\ x = at)
    <3>1. CounterOf(verdicts', {n}, x) = CounterOf(verdicts, {n}, x)
      BY <1>1, <1>7, <1>16, <2>4, CounterGrows
    <3>2. CountOf(rates'[groups[n]], x) = CountOf(rates[groups[n]], x)
      <4>1. CASE groups[n] = inst.state
        BY <1>6, <1>11, <1>20, <2>4, <4>1 DEF seen
      <4>2. CASE groups[n] # inst.state
        BY <1>11, <2>1, <4>2
      <4> QED BY <4>1, <4>2
    <3> QED BY <2>2, <3>1, <3>2
  <2> QED BY <2>3, <2>4
\* What the request was told, when its group has lasted.
<1>23. ASSUME NEW n, Lasting({n}), inst.config.group = {n}
       PROVE  count = Cardinality(CounterOf(verdicts', {n}, at)) /\ count \in Nat /\ limit.count \in Nat
  <2>1. n \in DOMAIN groups /\ groups[n] = inst.state
    BY <1>20, <1>21, <1>23
  <2>2. CountOf(rates'[groups[n]], at) = Cardinality(CounterOf(verdicts', {n}, at))
    BY <1>1, <1>19, <1>22, <1>23, <2>1 DEF CountersSound
  <2>3. IsFiniteSet(CounterOf(verdicts', {n}, at))
    BY <1>17, CounterGrows
  <2> QED BY <1>5, <1>6, <1>11, <1>23, <2>1, <2>2, <2>3, FS_CardinalityType
<1>24. PassedSound'
  <2> SUFFICES ASSUME NEW n, Lasting({n}), NEW x, NEW bound \in Nat
               PROVE  Cardinality(PassedOf(verdicts', {n}, x, bound)) <= bound
    BY <1>19 DEF PassedSound
  <2>1. CASE e.allowed /\ e.limit = bound /\ e.config.group = {n} /\ e.at = x
    <3>1. /\ PassedOf(verdicts', {n}, x, bound) \subseteq CounterOf(verdicts', {n}, x)
          /\ IsFiniteSet(CounterOf(verdicts', {n}, x))
      BY <1>1, <1>16, <2>1, PassedGrows
    <3>2. Cardinality(PassedOf(verdicts', {n}, x, bound)) <= Cardinality(CounterOf(verdicts', {n}, x))
          /\ Cardinality(PassedOf(verdicts', {n}, x, bound)) \in Nat
      BY <3>1, FS_Subset, FS_CardinalityType
    <3>3. count = Cardinality(CounterOf(verdicts', {n}, x)) /\ count \in Nat /\ limit.count = bound
      BY <1>7, <1>23, <2>1
    <3>4. count <= bound
      BY <1>7, <2>1, <3>3
    <3> QED BY <3>2, <3>3, <3>4
  <2>2. CASE ~(e.allowed /\ e.limit = bound /\ e.config.group = {n} /\ e.at = x)
    <3>1. PassedOf(verdicts', {n}, x, bound) = PassedOf(verdicts, {n}, x, bound)
      BY <1>1, <1>16, <2>2, PassedGrows
    <3> QED BY <3>1 DEF GroupInv, PassedSound
  <2> QED BY <2>1, <2>2
<1>25. PlacesSound'
  <2> SUFFICES ASSUME NEW n, Lasting({n}), NEW i \in DOMAIN verdicts', verdicts'[i].config.group = {n}
               PROVE  verdicts'[i].remaining = Remaining(verdicts'[i].limit, Cardinality(UpTo(verdicts', i)))
    BY <1>19 DEF PlacesSound
  <2>1. CASE i \in DOMAIN verdicts
    <3>1. verdicts'[i] = verdicts[i] /\ UpTo(verdicts', i) = UpTo(verdicts, i)
      BY <1>1, <1>16, <1>17, <2>1, PlacesStay
    <3> QED BY <2>1, <3>1 DEF GroupInv, PlacesSound
  <2>2. CASE i = Len(verdicts) + 1
    <3>1. verdicts'[i] = e /\ UpTo(verdicts', i) = CounterOf(verdicts', e.config.group, e.at)
      BY <1>1, <1>16, <1>17, <2>2, PlacesStay
    <3>2. count = Cardinality(UpTo(verdicts', i)) /\ count \in Nat /\ limit.count \in Nat
      BY <1>7, <1>23, <3>1
    <3>3. e.remaining = Remaining(e.limit, count)
      BY <1>7, <3>2 DEF Remaining
    <3> QED BY <3>1, <3>2, <3>3
  <2> QED BY <1>17, <2>1, <2>2
<1> QED BY <1>12, <1>13, <1>14, <1>15, <1>18, <1>22, <1>24, <1>25 DEF GroupInv

\* The group counters start sound.
LEMMA GroupsStart ==
  ASSUME GroupsInit
  PROVE  GroupInv
<1>1. /\ countAt = 0 /\ building = <<>> /\ serving = <<>> /\ groups = <<>> /\ rates = <<>> /\ verdicts = <<>>
      /\ inFlight = [r \in DOMAIN CountRequests |-> [pc |-> "new", instance |-> NoInstance, limits |-> <<>>]]
  BY DEF GroupsInit
<1>2. Held = {}
  BY <1>1 DEF Held, Under, Range
<1>3. InstancesSound
  BY <1>2 DEF InstancesSound
<1>4. RegistrySound
  BY <1>1 DEF RegistrySound
<1>5. FlightsSound
  BY <1>1 DEF FlightsSound, Under
<1>6. Len(CountSnapshots) \in Nat
  BY GroupAssumption
<1>7. SnapshotsSound
  BY <1>1, <1>6 DEF SnapshotsSound
<1>8. VerdictsSound
  BY <1>1 DEF VerdictsSound
<1>9. CountersSound
  BY <1>1 DEF CountersSound
<1>10. PassedSound
  <2>1. \A n, x, bound : PassedOf(verdicts, {n}, x, bound) = {}
    BY <1>1 DEF PassedOf, CounterOf
  <2> QED BY <2>1, FS_EmptySet DEF PassedSound
<1>11. PlacesSound
  BY <1>1 DEF PlacesSound
<1> QED BY <1>3, <1>4, <1>5, <1>7, <1>8, <1>9, <1>10, <1>11 DEF GroupInv

LEMMA GroupsStutter ==
  ASSUME GroupInv, UNCHANGED groupVars
  PROVE  GroupInv'
<1>1. UNCHANGED <<countAt, building, serving, inFlight, groups, rates, verdicts>>
  BY DEF groupVars
<1>2. InstancesSound' /\ VerdictsSound'
  BY <1>1 DEF GroupInv, InstancesSound, InstanceSound, Held, Under, VerdictsSound, CountConfig
<1>3. RegistrySound' /\ FlightsSound' /\ SnapshotsSound'
  BY <1>1 DEF GroupInv, RegistrySound, FlightsSound, Under, SnapshotsSound, Candidate
<1>4. CountersSound' /\ PassedSound' /\ PlacesSound'
  BY <1>1 DEF GroupInv, CountersSound, PassedSound, PlacesSound, Lasting
<1> QED BY <1>2, <1>3, <1>4 DEF GroupInv

\* The counters as the property names them.
LEMMA GroupsCount ==
  ASSUME GroupInv
  PROVE  GroupCountsJointly
<1> SUFFICES ASSUME NEW i \in DOMAIN verdicts, verdicts[i].config.group # {}, Lasting(verdicts[i].config.group)
             PROVE  /\ Cardinality(PassedOf(verdicts, verdicts[i].config.group, verdicts[i].at, verdicts[i].limit))
                         <= verdicts[i].limit
                    /\ verdicts[i].remaining = Remaining(verdicts[i].limit, Cardinality(UpTo(verdicts, i)))
  BY DEF GroupCountsJointly, OnCounter, PassedOf, CounterOf, UpTo, Remaining
<1>1. CountConfig(verdicts[i].config) /\ verdicts[i].limit \in Nat
  BY DEF GroupInv, VerdictsSound
<1>2. PICK n \in verdicts[i].config.group : TRUE
  OBVIOUS
<1>3. \A g, h \in verdicts[i].config.group : g = h
  BY <1>1, ConfigTyped
<1>4. verdicts[i].config.group = {n}
  BY <1>2, <1>3
<1>5. Lasting({n})
  BY <1>4
<1>6. Cardinality(PassedOf(verdicts, {n}, verdicts[i].at, verdicts[i].limit)) <= verdicts[i].limit
  BY <1>1, <1>5 DEF GroupInv, PassedSound
<1>7. verdicts[i].remaining = Remaining(verdicts[i].limit, Cardinality(UpTo(verdicts, i)))
  BY <1>4, <1>5 DEF GroupInv, PlacesSound
<1> QED BY <1>4, <1>6, <1>7

\* Routes of one limit-count group share one counter for as long as the group stays
\* configured: whatever candidates are built, dropped or published, whenever the
\* registry is reclaimed and however many requests are in flight, group_state hands out
\* the state that is being counted on, no more requests pass than a limit allows, and
\* each is told what is left.
THEOREM GroupsShareTheirLimits == GroupsSpec => []GroupCountsJointly
<1>1. GroupInv /\ [GroupsNext]_groupVars => GroupInv'
  <2> SUFFICES ASSUME GroupInv, GroupsNext PROVE GroupInv'
    BY GroupsStutter
  <2>1. CASE \E i \in DOMAIN CountSnapshots : \E route \in DOMAIN CountSnapshots[i] : CompileRoute(route)
    BY <2>1, CompileKeeps
  <2>2. CASE CandidateDropped \/ CountersPublished
    BY <2>2, CandidateDroppedKeeps, CountersPublishedKeeps
  <2>3. CASE \E r \in DOMAIN CountRequests : LimitRequest(r) \/ ObserveFixed(r) \/ LimitEnds(r)
    BY <2>3, LimitRequestKeeps, ObserveFixedKeeps, LimitEndsKeeps
  <2> QED BY <2>1, <2>2, <2>3 DEF GroupsNext
<1> QED BY <1>1, GroupsStart, GroupsCount, PTL DEF GroupsSpec
================================================================================
