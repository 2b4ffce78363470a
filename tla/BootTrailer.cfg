SPECIFICATION Spec
CONSTANTS
  Images <- MCImages
  NoImage = NoImage
  Overlong = Overlong
  Aligns = {1, 2, 4}
  MAGIC_SIZE = 2
  MagicBytes <- MCMagic
  SlotSize = 24
  PAGE_SIZE = 8
  Junk = 0
  MaxCalls = 4
INVARIANT SuccessIsDone
PROPERTY KeepsPromise
