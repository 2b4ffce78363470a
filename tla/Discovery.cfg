SPECIFICATION FairSpec
CONSTANTS
  Me = 2
  Id <- MCId
  Port = {1, 2}
  KeyWrap = 4
  ClockWrap = 14
  Boots = {1, 2}
  Periods = {1, 6, 8}
  MS = 1
  HEARTBEAT_PERIOD_MS = 2
  NEIGHBOR_REQUEST_TIMEOUT_MS = 3
  Late = 1
  NEIGHBORS = 2
  INFO_REQUESTS = 3
  RESOURCES = 1
  RESOURCE_REQUESTS = 1
  ReplyFits = 0
  PING_PAYLOAD = 1
  Names <- MCNames
  Prefixes <- MCPrefixes
  TimeUnit = 2
  HasRtc = TRUE
  MessageType <- MCTypes
  Mixes <- MCMixes
  MaxSilence = 6
INVARIANTS TypeOK OnePerPort CacheIsNeighbours LeaseIsKept TableRequestResolves
PROPERTIES SilentGoesOffline
