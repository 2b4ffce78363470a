SPECIFICATION FairSpec
CONSTANTS
  Byte <- MCByte
  Zero = "zero"
  Erased = "ff"
  Images <- MCImages
  RunningImage <- OldImage
  InitSlot <- MCErasedSlot
  Confirms = {TRUE, FALSE}
  Messages <- AllTransferMessages
  Requests = {}
  Feeds = {}
  Faults = {"write", "pend", "watchdog", "power"}
  Drained = TRUE
  EVENT_QUEUE_LEN = 5
  OUTBOX_LEN = 4
  FINISHED_LEN = 4
  MAX_CHUNK_RETRIES = 2
  MAX_ACK_RETRIES = 2
  DFU_MAX_CHUNK_SIZE = 2
  IMG_PAGE_LEN = 2
  IMG_INFO_LEN = 1
  SlotSize = 4
  CountWrap = 3
  MaxInputs = 7
INVARIANTS ActivatesOfferedImage OutboxFits TrialHasFallback WaitingIsTimed
PROPERTIES EventuallySettles TrialResolved
