SPECIFICATION Spec
CONSTANTS
  Address = { a1, a2 }
  Public = { a1 }
  Worker = { w1 }
  Options <- OwnerOnly
  MaxJobs = 1
  MaxEntries = 1
  Lifetime = 1
  NegativeLifetime = 0
  MaxEpoch = 2
  MaxNow = 4
INVARIANTS
  OwnerExpires
