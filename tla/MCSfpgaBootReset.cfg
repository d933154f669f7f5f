SPECIFICATION Spec
CONSTANTS
  ConfigLen = 1
  FlashLen = 3
  FifoDepth = 1
  Resets = 1
  HostOps = {"trigger"}
INVARIANTS
  OneVmeCore
CHECK_DEADLOCK FALSE
