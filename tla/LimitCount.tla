------------------------------- MODULE LimitCount -------------------------------
(***************************************************************************)
(* The limit-count plugin with a sliding window (plugins/limit_count.rs):  *)
(* the instants of the requests of each key, rejected ones included.  A    *)
(* request reads the clock, takes the shard's lock, prunes, records itself *)
(* and is limited when the window holds more than the limit.               *)
(*                                                                         *)
(* The fixed window is pingora's Rate and has no state of the plugin's     *)
(* own.  All limits of one key have the same count and window here.        *)
(***************************************************************************)
EXTENDS BoundedShard, MonotonicClock

CONSTANTS
  CountClients,  \* concurrent requests
  CountLimits,   \* what select_limits may return: sequences of keys
  Limit,         \* count
  Window,        \* time_window
  MaxWindow,     \* MAX_WINDOW_SECS
  MaxEvents,     \* MAX_SLIDING_ENTRIES_PER_KEY
  MaxSkew,       \* how long a request may take from the clock to the lock
  MaxCounted     \* bound: requests served

\* validate_limit_count_shape, the schema and TryFrom: the history kept per key
\* is longer than the limit.  Reading the clock and taking the lock are adjacent
\* statements: they are less than a window (at least a second) apart.
ASSUME CountAssumption ==
  /\ Limit \in Nat \ {0}
  /\ Window \in Nat \ {0}
  /\ MaxWindow \in Nat
  /\ Window <= MaxWindow
  /\ MaxEvents \in Nat
  /\ Limit < MaxEvents
  /\ MaxSkew \in 0..(Window - 1)
  /\ MaxCounted \in Nat

VARIABLES
  windows,       \* the shard: the events of each key
  counted,       \* the requests
  countCalls,
  passed         \* history: slot and time of the requests that were not limited

countVars == <<windows, counted, countCalls, passed>>

CountIdle == [pc |-> "idle", keys |-> <<>>, now |-> 0]

CountInit ==
  /\ windows = EmptyShard
  /\ counted = [r \in CountClients |-> CountIdle]
  /\ countCalls = 0
  /\ passed = <<>>

CountArrive(r, keys) ==
  /\ counted[r].pc = "idle"
  /\ countCalls < MaxCounted
  /\ countCalls' = countCalls + 1
  /\ counted' = [counted EXCEPT ![r] = [CountIdle EXCEPT !.pc = "check", !.keys = keys]]
  /\ UNCHANGED <<windows, passed, clock>>

\* check_rate_limit, up to the lock.
CheckRateLimit(r) ==
  /\ counted[r].pc = "check"
  /\ counted' = [counted EXCEPT ![r].pc = "observe", ![r].now = clock]
  /\ UNCHANGED <<windows, countCalls, passed, clock>>

\* SlidingWindow::prune drops events from the front while they are old enough;
\* the events are in the order of the critical sections, not of the readings.
Kept(events, now) ==
  LET fresh == {i \in DOMAIN events : Since(now, events[i]) < Window}
      first == CHOOSE i \in fresh : \A j \in fresh : i <= j
  IN IF fresh = {} THEN <<>> ELSE SubSeq(events, first, Len(events))

\* Mutant of Observed: the event is recorded only when there is room.
ObservedIfRoom(events, now) ==
  IF Len(Kept(events, now)) >= Limit THEN Kept(events, now) ELSE Append(Kept(events, now), now)

\* SlidingWindow::observe.
Observed(events, now) ==
  LET kept == Kept(events, now) IN
  Append(IF Len(kept) >= MaxEvents THEN Tail(kept) ELSE kept, now)

\* sliding_stale.
Stale(now) ==
  {k \in Tracked(windows) :
     LET events == windows.entries[k] IN
     events = <<>> \/ Since(now, events[Len(events)]) >= MaxWindow}

\* The critical section of check_rate_limit and what request_filter does next:
\* a limited request is rejected at once, the others go on to their next limit;
\* what the earlier limits have recorded stays recorded.
Observe(r) ==
  LET now == counted[r].now
      admitted == Admit(windows, Head(counted[r].keys), Stale(now), "Restore")
      shard == admitted.shard
      slot == admitted.slot
      events == Observed(IF slot \in Tracked(shard) THEN shard.entries[slot] ELSE <<>>, now)
  IN
  /\ counted[r].pc = "observe"
  /\ windows' = Put(shard, slot, events)
  /\ \/ /\ Len(events) > Limit
        /\ counted' = [counted EXCEPT ![r] = CountIdle]
        /\ UNCHANGED passed
     \/ /\ Len(events) <= Limit
        /\ passed' = Append(passed, [slot |-> slot, at |-> clock])
        /\ counted' = [counted EXCEPT ![r] =
                         IF Tail(@.keys) = <<>> THEN CountIdle
                         ELSE [CountIdle EXCEPT !.pc = "check", !.keys = Tail(counted[r].keys)]]
  /\ UNCHANGED <<countCalls, clock>>

CountNext ==
  \E r \in CountClients :
    \/ \E keys \in CountLimits : CountArrive(r, keys)
    \/ CheckRateLimit(r)
    \/ Observe(r)

CountTicks ==
  /\ ClockTicks
  /\ \A r \in CountClients :
       counted[r].pc = "observe" => clock - counted[r].now < MaxSkew
  /\ UNCHANGED countVars

CountSpec == CountInit /\ clock = 0 /\ [][CountNext \/ CountTicks]_<<countVars, clock>>

--------------------------------------------------------------------------------
(* Properties. *)

\* At most the limit of requests is let pass under one key in any period shorter
\* than the window, however the readings of the clock and the critical sections
\* of requests interleave.  A request that is overtaken between the two prunes by,
\* and is pruned by, its old reading: the window is short by that time and by no
\* more.  The map of windows stays within its capacity, the overflow window
\* included.
SlidingExact ==
  /\ \A i \in DOMAIN passed :
       Cardinality({j \in 1..i :
         /\ passed[j].slot = passed[i].slot
         /\ passed[i].at - passed[j].at < Window - MaxSkew}) <= Limit
  /\ Bounded(windows)
================================================================================
