SPECIFICATION Spec
CONSTANTS
  Options <- OneCycle
  FirstRoundOnly = FALSE
  PathExploration <- Exploring
  FirstEpoch = 1
  MaxEpoch = 1
  MaxNow = 3
  MaxLag = 1
INVARIANTS
  StatisticsAgree
  FinishedIsQuiet
  GraceIsRespected
PROPERTIES
  UsesScheduler
  StopEnds
  LoopSleeps
