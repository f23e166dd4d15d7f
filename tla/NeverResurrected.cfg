SPECIFICATION Spec
CONSTANTS
  route = route
  upstream = upstream
  good = good
  broken = broken
  undecryptable = undecryptable
  Keys = {upstream}
  MalformedKeys = {}
  NoKey = NoKey
  Bodies = {good, broken}
  Secrets = {s1}
  NoBody = NoBody
  NoSecret = NoSecret
  Sentinel = Sentinel
  Valid <- MCValid
  Decodes <- MCDecodes
  Compiles <- MCCompiles
  Admins = {}
  MaxRevision = 2
  ForeignWrites = FALSE
  DirectWrites = {TRUE}
  PUBLICATION_REGISTRY_CAPACITY = 2
  FailReadinessWhenStale = TRUE
  Workers = {w1, w2}
  NoWorker = NoWorker
  Shutdowns = TRUE
  MaxFaults = 0
PROPERTY
  NeverResurrected
CHECK_DEADLOCK FALSE
