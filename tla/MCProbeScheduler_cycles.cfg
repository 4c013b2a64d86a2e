SPECIFICATION Spec
CONSTANTS
  Config <- QuotaConfig
  FirstEpoch = 1
  MaxEpoch = 2
  MaxSkipped = 1
  MaxNow = 4
  MaxLag = 1
  MaxSequence = 3
INVARIANTS
  EveryTtlGetsItsCycles
