SPECIFICATION FairSpec
CONSTANTS
  ConfigLen = 1
  FlashLen = 3
  FifoDepth = 1
  Resets = 0
  HostOps <- NoFar
PROPERTIES
  TriggerActivates
  ExitPassivates
  FlashBoots
CHECK_DEADLOCK FALSE
