SPECIFICATION FairSpec
CONSTANTS
  StepDelay = 1
  FaultDebounce = 1
  LossDebounce = 1
  WaitWidth = 3
PROPERTIES
  DisableAlwaysCompletes
