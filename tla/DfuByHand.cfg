SPECIFICATION Spec
CONSTANTS
  Byte <- MCByte
  Zero = "zero"
  Erased = "ff"
  Images <- MCImages
  RunningImage <- OldImage
  InitSlot <- MCErasedSlot
  Confirms = {TRUE}
  Messages <- ByHandMessages
  Requests <- ByHandRequests
  Feeds = {}
  Faults = {"open", "erase", "write"}
  Drained = FALSE
  EVENT_QUEUE_LEN = 2
  OUTBOX_LEN = 4
  FINISHED_LEN = 2
  MAX_CHUNK_RETRIES = 2
  MAX_ACK_RETRIES = 2
  DFU_MAX_CHUNK_SIZE = 2
  IMG_PAGE_LEN = 2
  IMG_INFO_LEN = 1
  SlotSize = 4
  CountWrap = 4
  MaxInputs = 4
INVARIANT PendingHasWakeup
PROPERTY FatalIsFinal
