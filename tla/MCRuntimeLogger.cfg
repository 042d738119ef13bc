SPECIFICATION FairSpec
CONSTANTS
  RingCapacity = 3
  RestartsQuietly = TRUE
  MaxEvents = 2
  MaxSessions = 2
INVARIANTS
  AcceptedOnceInOrder
  SlotExclusive
PROPERTIES
  DrainedBeforeClose
  AcceptedIsWritten
CHECK_DEADLOCK FALSE
