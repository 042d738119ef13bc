SPECIFICATION FairSpec
CONSTANTS
  BitmapWidth = 2
  MaxTotal = 0
  MaxConsecutive = 2
  AnomalyPolicies <- MCPolicies
  DwellCycles = 2
  WarmupCycles = 1
  RequireRealtime = TRUE
  Disturbances = {"rx", "dcDrift"}
INVARIANTS
  TypeOK
  LatchHolds
  ObservationNeverDrives
PROPERTIES
  LatchedNeverDrives
  PermissionEarned
  LinkLossStops
  StalePermissionWithdrawn
  DwellCompletes
