SPECIFICATION Spec
CONSTANTS
  Config <- LimitsConfig
  FirstEpoch = 1
  MaxEpoch = 2
  MaxSkipped = 1
  MaxNow = 2
  MaxLag = 1
  MaxSequence = 3
INVARIANTS
  RecordsAccounted
  CapsRespected
  ProbesCountedOnce
  QuotaRespected
  WakeIsExact
PROPERTIES
  NoCatchUpBurst
  FullTtlDoesNotBlockOthers
  ImplementsLifecycle
