SPECIFICATION FairSpec
CONSTANTS
  Motors = {"joint"}
  Sensors = {"wrist"}
  Readers = {"caller"}
  StoresFollowBegin = TRUE
  MaxWrites = 3
INVARIANTS
  StatusNotNewer
PROPERTIES
  ConsistentSnapshot
  ReadsReturn
CHECK_DEADLOCK FALSE
