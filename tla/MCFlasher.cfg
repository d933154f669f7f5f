SPECIFICATION MCSpec
CONSTANTS
  ConfigLen = 3
  FlashSize = 16
  PageSize = 2
  SectorSize <- MCSectorSize
  BitstreamBase = 4
  SdbBase = 12
  SdbLen = 1
  Sizes = {0, 1, 4, 7, 9, 13, 17}
  WordLen = 2
  FifoDepth = 2
  WornCells <- MCWornCells
  Runs = 2
INVARIANTS
  TypeOK
  SuccessMeansStored
  GoodFlashSucceeds
  DirectMeansConfigured
PROPERTIES
  BootloaderKept
  ToolEnds
CHECK_DEADLOCK FALSE
