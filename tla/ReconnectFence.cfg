SPECIFICATION Spec
CONSTANTS
  route = route
  upstream = upstream
  good = good
  broken = broken
  undecryptable = undecryptable
  Keys = {upstream}
  MalformedKeys = {}
  NoKey = NoKey
  Bodies = {good, broken}
  Secrets = {s1}
  NoBody = NoBody
  NoSecret = NoSecret
  Sentinel = Sentinel
  Valid <- MCValid
  Decodes <- MCDecodes
  Compiles <- MCCompiles
  Admins = {}
  MaxRevision = 3
  ForeignWrites = FALSE
  DirectWrites = {TRUE}
  PUBLICATION_REGISTRY_CAPACITY = 2
  FailReadinessWhenStale = TRUE
  Workers = {w1}
  NoWorker = NoWorker
  Shutdowns = FALSE
  MaxFaults = 1
PROPERTY
  ReconnectFence
CHECK_DEADLOCK FALSE
