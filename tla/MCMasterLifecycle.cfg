SPECIFICATION Spec
CONSTANTS
  Masters = {arm, viewer}
  Supervised = {arm}
  ResetCycles = 2
  SleepCycles = 3
  NoOne = nobody
INVARIANTS
  JobOnLiveBus
  DrivesAuthorized
  MailboxServed
  BusReturned
  WindowServed
CHECK_DEADLOCK FALSE
