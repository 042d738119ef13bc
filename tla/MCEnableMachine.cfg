SPECIFICATION FairSpec
CONSTANTS
  StepDelay = 1
  FaultDebounce = 2
  LossDebounce = 2
  WaitWidth = 3
INVARIANTS
  TypeOK
  NoResume
PROPERTIES
  EnableCompletes
  DisableCompletes
  ResetKeepsTrying
