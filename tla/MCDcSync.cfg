SPECIFICATION FairSpec
CONSTANTS
  Cycle = 4
  Offsets <- MCOffsets
  Delays = {0, 9}
  WarmupCycles = 1
  RequiredSuccesses = 2
  FailEnterBackoff = 1
  BackoffEvery = 2
  BackoffMax = 20
  FilterCount = 2
  AdjustLimit = 2
  Threshold = 1
  MaxBase = 8
INVARIANTS
  AppTimeFollowsClock
  OverrunSeen
  AlarmRestsOnReading
PROPERTIES
  ClockComesBack
