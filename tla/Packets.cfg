SPECIFICATION Spec
CONSTANTS
  MessageType <- MCMessageType
  InitTypes <- MCInitTypes
  Registrations <- MCRegistrations
  TYPES = 3
  PENDING = 2
  PACKET_RETRY_COUNT = 1
  DEFAULT_MESSAGE_TIMEOUT_MS = 3
  MESSAGE_TIMER_EXPIRY_PERIOD_MS = 2
  ClockWrap = 8
  Late = 2
  Prompt = FALSE
  Unencodable = {}
  MaxRequests = 3
INVARIANTS FramesMatchRequests SweepsOnGrid OutstandingIsBounded
PROPERTIES GivenUpInTime OneOutcomeEach
