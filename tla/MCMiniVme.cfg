SPECIFICATION FairSpec
CONSTANTS
  Data = {d1, d2}
  Targets <- RegistersOnly
INVARIANTS
  TypeOK
  AcknowledgedOnce
PROPERTIES
  OthersIgnored
  CyclesAnswered
