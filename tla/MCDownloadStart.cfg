SPECIFICATION FairSpec
CONSTANTS
  ConfigLen = 9
  ImageLen = 9
  ChunkEnds <- MCChunkEnds
  WordLen = 2
  FifoDepth = 2
  Tries = 1
  Downloads = 1
PROPERTIES
  SuccessStartsAfpga
CHECK_DEADLOCK FALSE
