SPECIFICATION WorkersSpec
CONSTANTS
  a = a
  b = b
  Identities <- Everyone
  None = None
  Skew = 1
  MaxTime = 3
  MaxRequests = 2
  Sockets = {w1}
  Ttl = 2
  PresenceSigners <- LeasesAndBundles
  Queried <- Queries
  DiscoverySigners <- AsksAndPublishes
  Matches = {m1}
  RateLimit = 1
  RateWindow = 2
INVARIANTS ReplaysRefused EarlierBlocksRespected
PROPERTY OfflineOnExpiry
