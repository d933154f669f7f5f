SPECIFICATION FairSpec
CONSTANTS
  Writers = {w1, w2}
  Admin = admin
  Reader = reader
  NoOne = noone
INVARIANTS
  TypeOK
  NoCrashInTurn
  DetachedInTurn
  RemovedClean
PROPERTIES
  StoreRemoves
CHECK_DEADLOCK FALSE
