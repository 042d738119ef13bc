SPECIFICATION FairSpec
CONSTANTS
  Axes = {a}
  Positions = {0, 1}
  ResetCycles = 2
  CountWidth = 4
  a = a
INVARIANTS
  TypeOK
  BoundedBetweenCalls
PROPERTIES
  WindowCloses
  SafePositionFresh
