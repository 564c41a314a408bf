SPECIFICATION AgentsSpec
CONSTANTS
  Channels = {c1}
  None = None
  HistoryFetch = 2
  GapFails = TRUE
  MaxLog = 2
  MaxTokens = 1
  MaxGenerations = 3
  MaxSockets = 2
  MaxDrops = 1
  MaxCommands = 3
  Correlations = {w1}
  Values = {v1, v2}
  Deadlines = {1, 2}
  NoEntry = NoEntry
  MaxConcurrent = 2
  MaxTime = 2
  MaxCalls = 4
  MaxCrashes = 2
  Publications = {x1, x2}
  NoClaim = NoClaim
  Lifetimes = {1, 3}
  CertificateLife = 2
  Skew = 1
  LastTick = 3
INVARIANTS EmittedInOrder OneMessagePerPost AdmittedOnceInTime EvidenceAgrees RevisionNamesOne NewestClaimHeld
PROPERTIES EndIsLearned OutcomeLearned
CHECK_DEADLOCK FALSE
