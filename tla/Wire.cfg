SPECIFICATION Spec
CONSTANTS
  Base = 16
  MAX_FILE_NAME_LEN = 4
  LOG_BUDGET = 18
  MAX_IRIDIUM_LEN = 3
  MAX_CELLULAR_LEN = 5
  IMAGE_MAGIC = 4660
  INFO_MAGIC = 105
  PROT_INFO_MAGIC = 106
  SHA256 = 16
  KEYHASH = 1
  ED25519 = 36
  SHA256_LEN = 2
  ED25519_LEN = 3
  BM_HDR_SIZE = 34
  MAX_IMAGE_LEN = 100
  NoteMagic <- MCNoteMagic
  MAX_VERSION_STR_LEN = 4
  NoKey = 0
  AddrWrap = 256
  BODY_BASE = 100
  BOOTLOADER_BASE = 10
  BOOTLOADER_SIZE = 5
  GAP = 15
  Nibble = 4
  EtherIPv6 <- MCEther
  IP_PROTO_BCMP = 11
  IP_PROTO_UDP = 1
  LINK_LOCAL_PREFIX <- MCLinkLocal
  UNIQUE_LOCAL_PREFIX <- MCUniqueLocal
  PREDIV_S = 255
  MAX_RECURSIONS = 3
  MAX_ITEMS = 1048575
  U8 = 256
  U16 = 65536
  U32 = 1048576
  SLOT = 4
  KEY_BUF_LEN = 4
  MAX_KEY_LEN = 4
  TOPIC <- MCTopic
  Samples <- MCSamples
  Room = 260
  OtherBytes = {0, 1, 5}
  Keys = {1, 2}
  Elfs <- MCElfs
  Bootloader <- MCBootloader
  Behind <- MCBehind
  Foreign <- MCForeign
  Nodes = {1, 2}
  NumPorts = 3
  FrameRoom = 90
  MsgType = 5
  SeqNum = 9
  Payloads <- MCPayloads
  Disturbed <- MCDisturbed
  Days <- MCDays
  Times <- MCTimes
  RunFor = 520
  MaxLate = 2
  Bodies <- MCBodies
  Partitions <- MCPartitions
  Stored <- MCStored
  Heads <- MCHeads
  MaxHeads = 5
  OtherHeads <- MCOtherHeads
  Texts <- MCTexts
  Patterns <- MCPatterns
  Seeds <- MCSeeds
  Data <- MCData
INVARIANTS ReadBack DamageIsContained FrameArrivesWhole ClockIsRight MatchesAsGlob
