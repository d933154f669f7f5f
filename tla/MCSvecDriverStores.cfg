SPECIFICATION Spec
CONSTANTS
  Writers = {w1, w2}
  Admin = admin
  Reader = reader
  NoOne = noone
INVARIANTS
  ProgrammingIsSafe
CHECK_DEADLOCK FALSE
