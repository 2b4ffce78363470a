SPECIFICATION FairSpec
CONSTANTS
  N_RX = 2
  N_TX = 1
  COUNT = 4
  DEPTH = 1
  Owable = {0, 2}
  Reports <- MCReports
  Tasks = {"a", "b"}
  MaxCommands = 1
  MaxFrames = 2
  MaxTimers = 1
INVARIANTS LoopGoesOn NoLostWakeup NothingIsLost
PROPERTIES CommandsAreActed
CHECK_DEADLOCK FALSE
