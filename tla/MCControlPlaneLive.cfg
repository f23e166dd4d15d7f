SPECIFICATION MCFairSpec
CONSTANTS
  Scenarios = {"settles", "stops"}
  route = route
  upstream = upstream
  good = good
  broken = broken
  undecryptable = undecryptable
  s1 = s1
  a1 = a1
  w1 = w1
  Keys = {route, upstream}
  MalformedKeys = {route}
  NoKey = NoKey
  Bodies = {good, broken}
  Secrets = {s1}
  NoBody = NoBody
  NoSecret = NoSecret
  Sentinel = Sentinel
  Valid <- MCValid
  Decodes <- MCDecodes
  Compiles <- MCCompiles
  Admins = {}
  MaxRevision = 3
  ForeignWrites = FALSE
  DirectWrites = {TRUE}
  PUBLICATION_REGISTRY_CAPACITY = 1
  FailReadinessWhenStale = TRUE
  Workers = {w1, w2}
  NoWorker = NoWorker
  Shutdowns = TRUE
  MaxFaults = 1
PROPERTIES
  Converges
  ReadinessReturns
  ShutdownCompletes
CHECK_DEADLOCK FALSE
