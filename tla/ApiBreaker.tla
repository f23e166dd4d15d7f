------------------------------- MODULE ApiBreaker -------------------------------
(***************************************************************************)
(* The api-breaker plugin (plugins/api_breaker.rs): one breaker per route  *)
(* id, at most MaxBreakerKeys of them, the least recently used one dropped *)
(* for a new one.  A request reads the clock and asks under the lock       *)
(* whether the breaker is open; its response is counted, under the lock    *)
(* again, much later: after other requests' responses, after a trip, after *)
(* a recovery, or after the breaker it asked was dropped.                  *)
(***************************************************************************)
EXTENDS BoundedShard, MonotonicClock

CONSTANTS
  Routes,           \* route ids; "__global__" for a global rule
  BreakerClients,   \* concurrent requests
  Failures,         \* unhealthy.failures
  Successes,        \* healthy.successes
  MaxBreakerSec,
  MaxExponent,      \* MAX_EXPONENT (30)
  MaxBreakerKeys,   \* MAX_BREAKER_KEYS (1024)
  MaxServed         \* bound: requests served

\* PluginConfig's validators.
ASSUME BreakerAssumption ==
  /\ Failures \in Nat \ {0} /\ Successes \in Nat \ {0}
  /\ MaxBreakerSec \in Nat /\ MaxBreakerSec >= 3
  /\ MaxExponent \in Nat \ {0}
  /\ MaxBreakerKeys \in Nat \ {0}
  /\ MaxServed \in Nat

VARIABLES
  breakers,         \* BreakerStates.shard
  served,           \* the requests
  servedCalls,
  history           \* per route: until when the last trip holds, unless a
                    \* recovery or an eviction ended it; the healthy responses
                    \* since the last unhealthy one

breakerVars == <<breakers, served, servedCalls, history>>

ServedIdle == [pc |-> "idle"]
NoTrip == -1

BreakerInit ==
  /\ breakers = EmptyShard
  /\ served = [r \in BreakerClients |-> ServedIdle]
  /\ servedCalls = 0
  /\ history = [k \in Routes |-> [until |-> NoTrip, streak |-> 0]]

ClosedBreaker == [unhealthy |-> 0, healthy |-> 0, lasttime |-> NoTrip]

Least(m, n) == IF m < n THEN m ELSE n

Greatest(m, n) == IF m < n THEN n ELSE m

\* breaker_secs.
BreakerSecs(unhealthy) ==
  LET times == unhealthy \div Failures
      exponent == IF times < 1 THEN 1 ELSE Least(times, MaxExponent)
  IN Least(2 ^ exponent, MaxBreakerSec)

\* BreakerStates::entry: the shard in which key has a state and is the newest.
BreakerEntry(key) ==
  LET room == IF key \notin Tracked(breakers)
                 /\ Cardinality(Tracked(breakers)) >= MaxBreakerKeys
              THEN EvictOldest(breakers) ELSE breakers
      touched == Touch(room, key)
  IN IF key \in Tracked(touched) THEN touched ELSE Put(touched, key, ClosedBreaker)

IsOpen(state, now) ==
  state.lasttime # NoTrip /\ state.lasttime + BreakerSecs(state.unhealthy) >= now

\* What an eviction makes of the history.
Remembered(shard) ==
  [k \in Routes |-> IF k \in Tracked(shard) THEN history[k]
                    ELSE [until |-> NoTrip, streak |-> 0]]

BreakerArrive(r, key) ==
  /\ served[r].pc = "idle"
  /\ servedCalls < MaxServed
  /\ servedCalls' = servedCalls + 1
  /\ served' = [served EXCEPT ![r] = [pc |-> "ask", key |-> key, now |-> clock]]
  /\ UNCHANGED <<breakers, history, clock>>

\* request_filter: is_open.
Ask(r) ==
  LET shard == BreakerEntry(served[r].key) IN
  /\ served[r].pc = "ask"
  /\ breakers' = shard
  /\ history' = Remembered(shard)
  /\ served' = [served EXCEPT ![r] =
                  IF IsOpen(shard.entries[served[r].key], served[r].now) THEN ServedIdle
                  ELSE [@ EXCEPT !.pc = "inflight"]]
  /\ UNCHANGED <<servedCalls, clock>>

\* Mutant of AfterUnhealthy: the healthy streak survives a failure.
AfterUnhealthyStreakKept(state) ==
  [state EXCEPT !.unhealthy = @ + 1,
                !.lasttime = IF (state.unhealthy + 1) % Failures = 0 THEN clock ELSE @]

AfterUnhealthy(state) ==
  [state EXCEPT !.healthy = 0,
                !.unhealthy = @ + 1,
                !.lasttime = IF (state.unhealthy + 1) % Failures = 0 THEN clock ELSE @]

\* Mutant of Recovered: the failures are not forgotten.
RecoveredFailuresKept(state) == [state EXCEPT !.healthy = 0, !.lasttime = NoTrip]

Recovered(state) == ClosedBreaker

AfterHealthy(state) ==
  IF state.lasttime = NoTrip THEN state
  ELSE IF state.healthy + 1 >= Successes THEN Recovered(state)
  ELSE [state EXCEPT !.healthy = @ + 1]

\* response_filter.  A status may be in neither list; connection failures have
\* no response and are not counted.
Respond(r, verdict) ==
  LET k == served[r].key
      shard == BreakerEntry(k)
      before == shard.entries[k]
      after == CASE verdict = "unhealthy" -> AfterUnhealthy(before)
                 [] verdict = "healthy" -> AfterHealthy(before)
                 [] verdict = "other" -> before
      kept == Remembered(shard)
  IN
  /\ served[r].pc = "inflight"
  /\ breakers' = Put(shard, k, after)
  /\ served' = [served EXCEPT ![r] = ServedIdle]
  /\ history' =
       [kept EXCEPT ![k] =
          CASE verdict = "unhealthy" ->
                 [until |-> IF after.unhealthy % Failures = 0
                            THEN Greatest(@.until, clock + BreakerSecs(after.unhealthy))
                            ELSE @.until,
                  streak |-> 0]
            [] verdict = "healthy" ->
                 [until |-> IF after.lasttime = NoTrip THEN NoTrip ELSE @.until,
                  streak |-> @.streak + 1]
            [] verdict = "other" -> @]
  /\ UNCHANGED <<servedCalls, clock>>

NoResponse(r) ==
  /\ served[r].pc = "inflight"
  /\ served' = [served EXCEPT ![r] = ServedIdle]
  /\ UNCHANGED <<breakers, servedCalls, history, clock>>

BreakerNext ==
  \E r \in BreakerClients :
    \/ \E key \in Routes : BreakerArrive(r, key)
    \/ Ask(r)
    \/ \E verdict \in {"unhealthy", "healthy", "other"} : Respond(r, verdict)
    \/ NoResponse(r)

BreakerSpec ==
  /\ BreakerInit /\ clock = 0
  /\ [][BreakerNext \/ (ClockTicks /\ UNCHANGED breakerVars)]_<<breakerVars, clock>>

--------------------------------------------------------------------------------
(* Properties. *)

\* A breaker is tripped exactly when its failures have reached the threshold,
\* and it collects a recovery streak only then: late responses of requests that
\* asked before a trip, after a recovery or before an eviction never leave it
\* tripped without a count or over the threshold without a trip.  The map keeps to
\* its capacity, and the sweep can reach every breaker in it.
BreakerConsistent ==
  /\ \A k \in Tracked(breakers) :
       LET state == breakers.entries[k] IN
       /\ (state.lasttime # NoTrip) <=> (state.unhealthy >= Failures)
       /\ state.healthy > 0 => state.lasttime # NoTrip
       /\ state.healthy < Successes
  /\ Cardinality(Tracked(breakers)) <= MaxBreakerKeys
  /\ Len(breakers.order) = Cardinality(Tracked(breakers))

\* A tripped breaker closes before it is dropped only after the configured
\* number of healthy responses without an unhealthy one among them, however the
\* responses of old and new requests are mixed.  Until then it turns every
\* request away for the whole window of the trip, and of any longer one before it:
\* responses that come in while it is open never shorten the window.
RecoveryEarned ==
  [][/\ \A k \in Tracked(breakers) \cap Tracked(breakers') :
          (/\ breakers.entries[k].lasttime # NoTrip
           /\ breakers'.entries[k].lasttime = NoTrip)
          => history'[k].streak >= Successes
     /\ \A r \in BreakerClients :
          (served[r].pc = "ask" /\ served'[r].pc = "inflight")
          => history'[served[r].key].until < served[r].now]_<<breakerVars, clock>>
================================================================================
