CONSTANTS
  Parts = {"admin"}
  Snapshots <- MCSnapshots
  ConnectRetries = 1
  BodyChunks = 1
  Rejections <- MCRejections
  Tokens <- MCTokens
  Clients = {c1, c2}
  SiteHistories <- MCSiteHistories
  CacheRequests <- MCCacheRequests
  Responses <- MCResponses
  DefaultMaxObject = 2
  MaxNow = 3
  RouteTables <- MCRouteTables
  SslTables <- MCSslTables
  Hosts <- MCHosts
  Uris <- MCUris
  Methods = {"GET", "PUT", "OPTIONS"}
  GlobalCors = FALSE
  ConfigGraphs <- MCGraphs
  MaxAttempts = 2
  LogRequests = {l1, l2}
  ReloadedInstances = 2
  LogQueueCapacity = 1
  DrainBudget = 1
  MaxBodyBytes = 2
  ChunkSizes = {1, 2}
  MaxSent = 3
  CountSnapshots <- MCCountSnapshots
  CountRequests <- MCCountRequests
  RegistryReclaim = 1
  BodyCases <- MCBodyCases
  MirrorRequests <- MCMirrorRequests
  MirrorConfigs <- MCMirrorConfigs
  MAX_CONCURRENT_MIRRORS = 2
  MIRROR_QUEUE_CAPACITY = 1
  PermitsElsewhere = {0, 1}
  MIRROR_DNS_CACHE_TTL = 1
  MIRROR_DNS_STALE_GRACE = 1
  MirrorHorizon = 2
  AdminIds <- MCIds
  SslIds = {"ssl"}
  MaxLeaves = 2
  SlotValues <- MCSlots
  LeavesMove = TRUE
  DataEncryption <- MCEnc
  AdminHttp <- MCHttp
SPECIFICATION Spec
CHECK_DEADLOCK FALSE
INVARIANT SecretsSurvive
