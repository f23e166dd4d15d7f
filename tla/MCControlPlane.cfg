SPECIFICATION MCSpec
CONSTANTS
  Scenarios = {"store", "watch", "admin"}
  route = route
  upstream = upstream
  good = good
  broken = broken
  undecryptable = undecryptable
  s1 = s1
  a1 = a1
  w1 = w1
  Keys = {route, upstream}
  MalformedKeys = {}
  NoKey = NoKey
  Bodies = {good, broken, undecryptable}
  Secrets = {s1, s2}
  NoBody = NoBody
  NoSecret = NoSecret
  Sentinel = Sentinel
  Valid <- MCValid
  Decodes <- MCDecodes
  Compiles <- MCCompiles
  Admins = {a1, a2}
  MaxRevision = 4
  ForeignWrites = TRUE
  DirectWrites = {TRUE, FALSE}
  PUBLICATION_REGISTRY_CAPACITY = 1
  FailReadinessWhenStale = TRUE
  Workers = {w1}
  NoWorker = NoWorker
  Shutdowns = FALSE
  MaxFaults = 1
INVARIANTS
  StoredGraphsValid
  PublishedIsEtcdState
  NoLostWakeup
  RecordsTruthful
PROPERTIES
  RedactedPutKeepsSecret
  PublishesLatestTarget
  ImplementsReplica
CHECK_DEADLOCK FALSE
