SPECIFICATION Spec
CONSTANTS
  PathConfig <- FourHops
  Paths <- ShortPaths
  MaxCycles = 2
  MaxFound = 2
INVARIANTS
  CeilingInBounds
PROPERTIES
  ShrinkIsConfirmed
  PathIsFound
