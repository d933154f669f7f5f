SPECIFICATION FairSpec
CONSTANTS
  ConfigLen = 3
  ImageLen = 13
  ChunkEnds <- MCChunkEnds
  WordLen = 2
  FifoDepth = 2
  Tries = 1
  Downloads = 3
INVARIANTS
  TypeOK
  NothingLost
  LastWordMarked
  MarkedAtTheEnd
  SuccessMeansConfigured
  HeldUntilExit
  FlagsInv
PROPERTIES
  ImplementsAfpgaLoad
  DriverReturns
  ExitStartsAfpga
CHECK_DEADLOCK FALSE
