SPECIFICATION Spec
CONSTANTS
  Address = { a1, a2 }
  Public = { a1 }
  Worker = { w1, w2 }
  Options <- InTurn
  MaxJobs = 1
  MaxEntries = 1
  Lifetime = 1
  NegativeLifetime = 0
  MaxEpoch = 2
  MaxNow = 2
INVARIANTS
  LookupsAreTracked
  ShownIsCached
PROPERTIES
  LookupsEnd
  CancelledLeavesNothing
