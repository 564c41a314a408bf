SPECIFICATION ConversationsSpec
CONSTANTS
  Identities = {i1, i2}
  Sockets = {s1, s2, s3, s4}
  Rooms = {r1}
  Kinds = {dm}
  None = None
  Clients = {a, b, c}
  Creator = a
  NoGroup = NoGroup
  Overlaps = FALSE
  GoesOffline = TRUE
  Retained = 1
  MaxCommits = 3
  MaxMessages = 2
  Members = {e1, e2, e3}
  Rotators = {e1}
  NoEpoch = NoEpoch
  MaxRotations = 2
  MaxGroupTexts = 1
  Users = {u1, u2, u3, u4}
  Targets = {u1}
  Speakers = {u1}
  Texts = {t1, shout}
  Abusive = {shout}
  RateLimit = 2
  Steps = {60000, 240000, 18030000}
  MaxWaits = 2
  MaxSent = 3
  Calls = {c1, c2}
  NoClient = NoClient
  Contacts = {p1}
  OwnTexts = {m1}
  Publishing = {c1}
  MaxDrops = 2
CHECK_DEADLOCK FALSE
INVARIANTS TablesAgree GroupHistorySafe ShutOutCannotRead LiveClientShown
PROPERTIES LateCloseHarmless KeepsContract 
