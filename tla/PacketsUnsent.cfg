SPECIFICATION Spec
CONSTANTS
  MessageType <- MCMessageType
  InitTypes <- MCInitTypes
  Registrations = {}
  TYPES = 2
  PENDING = 2
  PACKET_RETRY_COUNT = 2
  DEFAULT_MESSAGE_TIMEOUT_MS = 1
  MESSAGE_TIMER_EXPIRY_PERIOD_MS = 2
  ClockWrap = 10
  Late = 0
  Prompt = TRUE
  Unencodable = {"get"}
  MaxRequests = 2
INVARIANT TimedOutWasResent
