SPECIFICATION Spec
CONSTANTS
  Data = {d1, d2}
  Targets <- Anywhere
PROPERTIES
  OthersIgnored
