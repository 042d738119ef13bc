SPECIFICATION TrackerSpec
CONSTANTS
  BitmapWidth = 4
  MaxTotal = 2
  MaxConsecutive = 3
  Configurations <- MCConfigured
INVARIANTS
  CountIsExact
  FullWindowStops
PROPERTY ImplementsSlidingWindow
