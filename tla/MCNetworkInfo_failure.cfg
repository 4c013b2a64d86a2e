SPECIFICATION Spec
CONSTANTS
  Modes = { "on_change" }
  Debounce = 1
  Interval = 1
  MaxNow = 2
  MaxEvents = 3
PROPERTIES
  LastSuccessIsKept
