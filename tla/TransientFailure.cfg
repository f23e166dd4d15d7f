CONSTANTS
  Parts = {"discovery"}
  NodeSets <- UpstreamNodes
  x = x
  y = y
  Backends = {x, y}
  StaleTtl = 1
  RefreshTimeout = 1
  MaxRefreshes = 3
  u1 = u1
  u2 = u2
  UpClients = {u1, u2}
  Thresholds <- PassiveThresholds
  HealthySuccesses = 2
  ProbeLease = 1
  Retries = 1
  RetryTimeout = 0
  MaxProxied = 3
  RegularMax = 2
  Budget = 2
  Overflow = "overflow"
  MaxClock = 4
  Requests = {c1, c2, c3}
  Selections <- ConnSelections
  MaxArrivals = 3
  ReqClients = {q1, q2}
  ReqKeys = {"a", "b", "c"}
  Cost = 2
  Burst = 2
  MaxCalls = 5
  CountClients = {n1, n2}
  CountLimits <- CountSelections
  Limit = 1
  Window = 2
  MaxWindow = 4
  MaxEvents = 2
  MaxSkew = 1
  MaxCounted = 3
  Routes = {"a", "b"}
  BreakerClients = {b1, b2, b3}
  Failures = 2
  Successes = 2
  MaxBreakerSec = 3
  MaxExponent = 2
  MaxBreakerKeys = 1
  MaxServed = 5
  LogCapacity = 2
  BufferLines = 1
  MaxLogSize = 2
  MaxBackups = 2
  LogBatch = 1
  MaxExisting = 4
  MaxLines = 6
SPECIFICATION Spec
CHECK_DEADLOCK FALSE
PROPERTY TransientFailureKeepsNode
