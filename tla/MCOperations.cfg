SPECIFICATION Spec
CONSTANTS
  Host = { h1, h2, h3 }
  NoHost = none
  MAX_MAX_LRU = 3
  MaxReports = 2
  MaxPieces = 2
  a4 = a4
  b4 = b4
  a6 = a6
  b6 = b6
  Address <- FourAddresses
  IPv4 <- TwoOfThem
  MaxCandidates = 3
  http = http
  dns = dns
  t1 = t1
  t2 = t2
  Provider <- TwoProviders
  DnsProvider <- OneByDns
  Asker <- TwoThreads
  Chain <- InTurns
  MaxFailures = 3
  MaxExponent = 1
INVARIANTS
  HistoryIsOneList
  ClearedStaysAway
  ReportIsWhole
  AnswerInTime
  RightCandidate
PROPERTIES
  StartEnds
  ProviderIsAskedAgain
