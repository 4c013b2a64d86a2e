SPECIFICATION Spec
CONSTANTS
  Modes = { "on_change", "interval" }
  Debounce = 1
  Interval = 1
  MaxNow = 2
  MaxEvents = 3
INVARIANTS
  JoinIsShort
  OffIsOff
  EndsUpToDate
PROPERTIES
  RefreshEnds
