SPECIFICATION Spec
CONSTANTS
  RedrawEvery = 2
  MaxGeneration = 3
INVARIANTS
  JoinIsShort
  IdleIsIdle
  ClosesQuietly
PROPERTIES
  CloseEnds
  EndIsNoticed
  DisplayCatchesUp
