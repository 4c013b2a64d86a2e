SPECIFICATION Spec
CONSTANTS
  PathConfig <- FourHops
  Paths <- LongPaths
  MaxCycles = 2
  MaxFound = 2
PROPERTIES
  RouteGrowthIsDetected
