SPECIFICATION Spec
CONSTANTS
  p1 = p1
  p2 = p2
  f1 = f1
  f2 = f2
  None = None
  Proc <- MCProc
  File <- MCFile
  Requests <- MCRequests
  Align = 2
  Slots = 2
SYMMETRY Symmetry
INVARIANTS
  TypeOK
  FlagsRestored
  FailedCallHoldsNothing
  MappedUntilUnmapped
PROPERTIES
  CreatedByForceOnly
CHECK_DEADLOCK FALSE
