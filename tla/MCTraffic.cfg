CONSTANTS
  Parts = {"limit-conn", "limit-req", "limit-count", "api-breaker", "discovery", "refreshed", "selection", "logger"}
  NodeSets <- UpstreamNodes
  x = x
  y = y
  Backends = {x, y}
  StaleTtl = 1
  RefreshTimeout = 1
  MaxRefreshes = 3
  u1 = u1
  u2 = u2
  UpClients = {u1, u2}
  Thresholds <- PassiveThresholds
  HealthySuccesses = 2
  ProbeLease = 1
  Retries = 1
  RetryTimeout = 0
  MaxProxied = 3
  RegularMax = 2
  Budget = 2
  Overflow = "overflow"
  MaxClock = 4
  Requests = {c1, c2, c3}
  Selections <- ConnSelections
  MaxArrivals = 3
  ReqClients = {q1, q2}
  ReqKeys = {"a", "b", "c"}
  Cost = 2
  Burst = 2
  MaxCalls = 4
  CountClients = {n1, n2}
  CountLimits <- CountSelections
  Limit = 2
  Window = 3
  MaxWindow = 3
  MaxEvents = 3
  MaxSkew = 1
  MaxCounted = 3
  Routes = {"a", "b"}
  BreakerClients = {b1, b2}
  Failures = 2
  Successes = 2
  MaxBreakerSec = 3
  MaxExponent = 2
  MaxBreakerKeys = 1
  MaxServed = 6
  LogCapacity = 2
  BufferLines = 1
  MaxLogSize = 2
  MaxBackups = 2
  LogBatch = 1
  MaxExisting = 4
  MaxLines = 6
SPECIFICATION Spec
CHECK_DEADLOCK FALSE
INVARIANTS CountsExact WithinRate SlidingExact BreakerConsistent ProbesOneAtATime NeverWithoutBackend LinesAccounted
PROPERTIES OverflowOnlyWhenBusy RecoveryEarned RefreshHonoursLkg PrefersSteady RotationEarned
