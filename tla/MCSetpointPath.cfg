SPECIFICATION FairSpec
CONSTANTS
  DwellCycles = 2
  MaxEpoch = 3
INVARIANTS
  HeldUntilCommanded
  WatchdogStands
  TimedOutStaysOut
PROPERTIES
  SilenceStops
