SPECIFICATION Spec
CONSTANTS
  Partition = {"System", "User"}
  ShortKey = {"k", "l", "m"}
  LongKey = {"long"}
  BadKey = {"bad", "over"}
  OverKey = {"over"}
  Value = {"u", "s"}
  OddValue = "odd"
  TooLong = "too long"
  Spoilt = "spoilt"
  None = "none"
  MAX_NUM_KV = 2
  Mixes <- MCMixes
INVARIANTS TypeOK CleanIsStored AnswerIsTrue
PROPERTIES KeepsPromise
