-------------------------------- MODULE LimitConn --------------------------------
(***************************************************************************)
(* The limit-conn plugin (plugins/limit_conn.rs): concurrent requests per  *)
(* key.  A request enforces its limits one after another: it looks the     *)
(* counter of the key up under the shard's lock, releases the lock, adds   *)
(* one to the counter and decides.  The counter it holds is an Arc: it     *)
(* outlives the entry it was found in.                                     *)
(*                                                                         *)
(* The reads of one sweep and the counters' changes by other requests      *)
(* commute, so the critical section is one step.  The unit delay only      *)
(* sets how long a delayed request sleeps and is left out.                 *)
(***************************************************************************)
EXTENDS BoundedShard

CONSTANTS
  Requests,     \* concurrent requests
  Selections,   \* what select_limits may return: sequences of limits
  MaxArrivals   \* bound: requests served

\* The limits that may apply.
Applied == UNION {{limits[i] : i \in DOMAIN limits} : limits \in Selections}

ASSUME ConnAssumption ==
  /\ MaxArrivals \in Nat
  /\ Selections \subseteq Seq(Applied) \ {<<>>}
  /\ \A limit \in Applied : limit.conn \in Nat \ {0} /\ limit.burst \in Nat

VARIABLES
  conns,        \* the shard: for each key the index of its ConnState
  counts,       \* ConnState.count of every state ever made
  conn,         \* the requests
  connArrivals

connVars == <<conns, counts, conn, connArrivals>>

ConnIdle == [pc |-> "idle", limits |-> <<>>, state |-> 0, guards |-> <<>>]

ConnInit ==
  /\ conns = EmptyShard
  /\ counts = <<>>
  /\ conn = [r \in Requests |-> ConnIdle]
  /\ connArrivals = 0

\* select_limits found the limits that apply; without any the request is
\* answered 500 or let through and takes no slot.
ConnArrive(r, limits) ==
  /\ conn[r].pc = "idle"
  /\ connArrivals < MaxArrivals
  /\ connArrivals' = connArrivals + 1
  /\ conn' = [conn EXCEPT ![r] = [ConnIdle EXCEPT !.pc = "lookup", !.limits = limits]]
  /\ UNCHANGED <<conns, counts>>

\* Mutant of ConnOnMiss: a busy oldest entry keeps its place.
ConnOnMissRestore == "Restore"

ConnOnMiss == "PushBack"

ZeroCount == {k \in Tracked(conns) : counts[conns.entries[k]] = 0}

GetOrInsertCounter(r) ==
  LET limit == Head(conn[r].limits)
      admitted == Admit(conns, limit.key, ZeroCount, ConnOnMiss)
      shard == admitted.shard
      slot == admitted.slot
  IN
  /\ conn[r].pc = "lookup"
  /\ \/ /\ slot \in Tracked(shard)
        /\ conns' = shard
        /\ conn' = [conn EXCEPT ![r].pc = "count", ![r].state = shard.entries[slot]]
        /\ UNCHANGED counts
     \/ /\ slot \notin Tracked(shard)
        /\ conns' = Put(shard, slot, Len(counts) + 1)
        /\ counts' = Append(counts, 0)
        /\ conn' = [conn EXCEPT ![r].pc = "count", ![r].state = Len(counts) + 1]
  /\ UNCHANGED connArrivals

Decide(count, limit) ==
  IF count > limit.conn + limit.burst THEN "Reject"
  ELSE IF count > limit.conn THEN "Delay" ELSE "Pass"

CountSeen(r) == counts[conn[r].state] + 1

\* The guard of the limit at the head of r's limits joins its guards.
Holding(request) ==
  [pc     |-> IF Tail(request.limits) = <<>> THEN "inflight" ELSE "lookup",
   limits |-> Tail(request.limits),
   state  |-> 0,
   guards |-> Append(request.guards, [key   |-> Head(request.limits).key,
                                      state |-> request.state])]

\* fetch_add, and what follows until the next await or shared access.
FetchAdd(r) ==
  /\ conn[r].pc = "count"
  /\ counts' = [counts EXCEPT ![conn[r].state] = @ + 1]
  /\ conn' = [conn EXCEPT ![r] =
                CASE Decide(CountSeen(r), Head(conn[r].limits)) = "Pass" -> Holding(conn[r])
                  [] Decide(CountSeen(r), Head(conn[r].limits)) = "Delay" ->
                       [conn[r] EXCEPT !.pc = "sleep"]
                  [] Decide(CountSeen(r), Head(conn[r].limits)) = "Reject" ->
                       [conn[r] EXCEPT !.pc = "reject"]]
  /\ UNCHANGED <<conns, connArrivals>>

SleepEnds(r) ==
  /\ conn[r].pc = "sleep"
  /\ conn' = [conn EXCEPT ![r] = Holding(conn[r])]
  /\ UNCHANGED <<conns, counts, connArrivals>>

\* Mutant of GivenBack: the rejected request keeps its count.
KeptByRejected(count) == count

GivenBack(count) == count - 1

\* The rejected request gives its own slot back; the guards it held for earlier
\* limits are dropped with the vector.
RejectReleases(r) ==
  /\ conn[r].pc = "reject"
  /\ counts' = [counts EXCEPT ![conn[r].state] = GivenBack(@)]
  /\ conn' = [conn EXCEPT ![r].pc = "drop", ![r].state = 0]
  /\ UNCHANGED <<conns, connArrivals>>

\* The request's future is dropped while it sleeps, with the guard it holds
\* locally; or it ends: logging, or the drop of the context, takes its guards.
Cancel(r) ==
  /\ conn[r].pc = "sleep"
  /\ conn' = [conn EXCEPT ![r] = [Holding(conn[r]) EXCEPT !.pc = "drop"]]
  /\ UNCHANGED <<conns, counts, connArrivals>>

RequestEnds(r) ==
  /\ conn[r].pc = "inflight"
  /\ conn' = [conn EXCEPT ![r].pc = "drop"]
  /\ UNCHANGED <<conns, counts, connArrivals>>

\* ConnGuard::release, once per guard.
Release(r) ==
  /\ conn[r].pc = "drop"
  /\ \/ /\ conn[r].guards # <<>>
        /\ counts' = [counts EXCEPT ![Head(conn[r].guards).state] = @ - 1]
        /\ conn' = [conn EXCEPT ![r].guards = Tail(@)]
     \/ /\ conn[r].guards = <<>>
        /\ conn' = [conn EXCEPT ![r] = ConnIdle]
        /\ UNCHANGED counts
  /\ UNCHANGED <<conns, connArrivals>>

ConnNext ==
  \E r \in Requests :
    \/ \E limits \in Selections : ConnArrive(r, limits)
    \/ GetOrInsertCounter(r)
    \/ FetchAdd(r)
    \/ SleepEnds(r)
    \/ RejectReleases(r)
    \/ Cancel(r)
    \/ RequestEnds(r)
    \/ Release(r)

ConnSpec == ConnInit /\ [][ConnNext]_connVars

--------------------------------------------------------------------------------
(* Properties. *)

\* The slots of state s: one per guard, and one per request that has counted
\* itself and sleeps or is about to give the slot back.
GuardsOn(s) ==
  UNION {{<<r, i>> : i \in {j \in DOMAIN conn[r].guards : conn[r].guards[j].state = s}} :
         r \in Requests}
Deciding(s) ==
  {r \in Requests : conn[r].state = s /\ conn[r].pc \in {"sleep", "reject"}}

\* Every counter is exactly the number of requests that hold a slot of it: no
\* path (pass, delay, rejection by a later limit, cancellation in the sleep)
\* leaks or returns a slot twice, also for counters the map has dropped.
\* No counter admits more than conn + burst requests at a time, although the
\* requests read it outside the lock, and the map of counters stays within its
\* capacity, whatever the requests hold when the sweep runs.
CountsExact ==
  /\ \A s \in DOMAIN counts :
       /\ counts[s] = Cardinality(GuardsOn(s)) + Cardinality(Deciding(s))
       /\ \E limits \in Selections : \E i \in DOMAIN limits :
            Cardinality(GuardsOn(s)) <= limits[i].conn + limits[i].burst
  /\ Bounded(conns)

\* When a new key is sent to the shared overflow state and the sweep retired
\* nothing, as many entries as it may examine are busy: an idle entry behind a
\* busy one is found.
OverflowOnlyWhenBusy ==
  [][\A r \in Requests :
       (/\ conn[r].pc = "lookup" /\ conn'[r].pc = "count"
        /\ Head(conn[r].limits).key # Overflow
        /\ Overflow \in Tracked(conns')
        /\ conn'[r].state = conns'.entries[Overflow]
        /\ \A k \in Tracked(conns) :
             k \in Tracked(conns') /\ conns'.entries[k] = conns.entries[k])
       => Cardinality({k \in Tracked(conns) : counts[conns.entries[k]] > 0}) >=
            IF Budget < RegularMax THEN Budget ELSE RegularMax]_connVars

\* get_or_insert_counter: "a still-full shard shares one stable overflow state so
\* overflowed keys never hold split guards": the requests in flight for a key
\* are counted by one state.
NoSplitGuards ==
  \A r1, r2 \in Requests : \A i \in DOMAIN conn[r1].guards, j \in DOMAIN conn[r2].guards :
    conn[r1].guards[i].key = conn[r2].guards[j].key =>
      conn[r1].guards[i].state = conn[r2].guards[j].state
================================================================================
