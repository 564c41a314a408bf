SPECIFICATION DeviceSpec
CONSTANTS
  WebSockets = {s1, s2, s3}
  Attempts = {a1, a2}
  Null = Null
  Renews = TRUE
  Publishes = TRUE
  EagerCaller = FALSE
  MaxAttempts = 2
  MaxTimers = 3
  Updates = {u1, u2, u3}
  NoUpdate = NoUpdate
  SlowPublish = FALSE
  MaxCertificates = 3
  Ends = {n1, n2}
  NoSession = NoSession
  MaxSessions = 0
  MaxFaults = 0
  Offers = {o1}
  Pieces = 1
  ChunkSizes = {1}
  Damage = Damage
  MaxMishaps = 0
CHECK_DEADLOCK FALSE
INVARIANT NextAttemptScheduled
