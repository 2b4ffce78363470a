SPECIFICATION Spec
CONSTANTS
  Node = {1, 2, 3}
  Port = {1, 2}
  Peer <- MCPeer
  CALLBACKS = 2
  SUBSCRIPTIONS = 3
  SERVICES = 2
  SERVICE_REQUESTS = 2
  RESOURCES = 3
  Wildcards <- MCWildcards
  Prefixes <- MCPrefixes
  IdWrap = 8
  MS = 1
  EXPIRY_PERIOD_MS = 2
  ClockWrap = 16
  Mixes <- MCMixes
  MaxAge = 8
INVARIANTS DeliveredOnce EndsOnce ExpiresInTime WaitingIsListed
