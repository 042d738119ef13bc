SPECIFICATION Spec
CONSTANTS
  BitmapWidth = 2
  MaxTotal = 0
  MaxConsecutive = 2
  AnomalyPolicies <- MCPolicies
  DwellCycles = 2
  WarmupCycles = 1
  RequireRealtime = FALSE
  Disturbances = {"rx"}
PROPERTY DwellCountsFromReset
