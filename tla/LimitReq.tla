-------------------------------- MODULE LimitReq --------------------------------
(***************************************************************************)
(* The limit-req plugin (plugins/limit_req.rs): a leaky bucket per key.    *)
(* A request reads the clock, then takes the shard's lock and applies the  *)
(* transition; others may do both in between.                              *)
(*                                                                         *)
(* The unit of time is chosen so that a bucket drains one unit of excess   *)
(* per tick; a request adds Cost units (rate = 1 / Cost requests per       *)
(* tick), so that fractions of a request can drain.  The sleep of a        *)
(* delayed request follows the transition and changes nothing.             *)
(***************************************************************************)
EXTENDS BoundedShard, MonotonicClock

CONSTANTS
  ReqClients,   \* concurrent requests
  ReqKeys,
  Cost,         \* units of excess one request adds
  Burst,        \* the configured burst, in units
  MaxCalls      \* bound: requests served

ASSUME ReqAssumption ==
  /\ Cost \in Nat \ {0}
  /\ Burst \in Nat
  /\ MaxCalls \in Nat

VARIABLES
  buckets,      \* the shard: Bucket by key
  call,         \* the requests: the key and the clock reading
  calls

reqVars == <<buckets, call, calls>>

ReqIdle == [pc |-> "idle"]

ReqInit ==
  /\ buckets = EmptyShard
  /\ call = [r \in ReqClients |-> ReqIdle]
  /\ calls = 0

ReadClock(r, key) ==
  /\ call[r].pc = "idle"
  /\ calls < MaxCalls
  /\ calls' = calls + 1
  /\ call' = [call EXCEPT ![r] = [pc |-> "lock", key |-> key, now |-> clock]]
  /\ UNCHANGED <<buckets, clock>>

\* leaky_bucket_step.
Excess(bucket, now) == AtLeastZero(bucket.excess - Since(now, bucket.last) + Cost)
Accepts(bucket, now) == Excess(bucket, now) <= Burst

\* A Bucket, with the history a property needs: when it was made, how many
\* requests it let pass and how far its anchor was ever moved back.
NewBucket(now) ==
  [excess |-> 0, last |-> now, born |-> now, passed |-> 1, movedBack |-> 0]

\* Mutant of BucketIncoming: the request itself is not added to what is left.
IncomingNotAdded(bucket, now) ==
  IF Accepts(bucket, now)
  THEN [bucket EXCEPT !.excess = AtLeastZero(bucket.excess - Since(now, bucket.last)),
                      !.last = now,
                      !.passed = @ + 1,
                      !.movedBack = @ + Since(bucket.last, now)]
  ELSE bucket

BucketIncoming(bucket, now) ==
  IF Accepts(bucket, now)
  THEN [bucket EXCEPT !.excess = Excess(bucket, now),
                      !.last = now,
                      !.passed = @ + 1,
                      !.movedBack = @ + Since(bucket.last, now)]
  ELSE bucket

\* The sweep's predicate.
Drained(now) ==
  {k \in Tracked(buckets) :
     Since(now, buckets.entries[k].last) >= buckets.entries[k].excess}

\* The critical section of request_filter.
Incoming(r) ==
  LET now == call[r].now
      admitted == Admit(buckets, call[r].key, Drained(now), "Restore")
      shard == admitted.shard
      slot == admitted.slot
  IN
  /\ call[r].pc = "lock"
  /\ buckets' = Put(shard, slot, IF slot \in Tracked(shard)
                                 THEN BucketIncoming(shard.entries[slot], now)
                                 ELSE NewBucket(now))
  /\ call' = [call EXCEPT ![r] = ReqIdle]
  /\ UNCHANGED <<calls, clock>>

ReqNext ==
  \E r \in ReqClients : Incoming(r) \/ \E key \in ReqKeys : ReadClock(r, key)

ReqSpec ==
  /\ ReqInit /\ clock = 0
  /\ [][ReqNext \/ (ClockTicks /\ UNCHANGED reqVars)]_<<reqVars, clock>>

--------------------------------------------------------------------------------
(* Properties. *)

\* What a bucket has let pass since it was made is bounded by the rate and the
\* burst.  A request that reads the clock and is overtaken before it takes the
\* lock moves the drain anchor back; that is the only extra allowance, and it is
\* the time by which the anchor moved.  The map of buckets stays within its
\* capacity, the overflow bucket included.
WithinRate ==
  /\ \A k \in Tracked(buckets) :
       LET b == buckets.entries[k] IN
       (b.passed - 1) * Cost <= Burst + (b.last - b.born) + b.movedBack
  /\ Bounded(buckets)
================================================================================
