SPECIFICATION Spec
CONSTANTS
  ConfigLen = 2
  FlashLen = 2
  FifoDepth = 1
  Resets = 1
  HostOps <- AllOps
INVARIANTS
  TypeOK
  OneVmeCoreUncut
  ArbiterInv
PROPERTIES
  RunningLostOnlyByTrigger
CHECK_DEADLOCK FALSE
