SPECIFICATION Spec
CONSTANTS
  N <- MCN
  Magic <- MCMagic
  Byte <- MCByte
  NoByte = NoByte
INVARIANTS
  IInv
  SecondSequenceFires
PROPERTIES
  PulseOnlyAfterMagic
