SPECIFICATION Spec
CONSTANTS
  Options <- OneHop
  FirstRoundOnly = FALSE
  PathExploration <- Exploring
  FirstEpoch = 1
  MaxEpoch = 2
  MaxNow = 2
  MaxLag = 1
INVARIANTS
  RequestsAccounted
  DisplayIsOfEpoch
