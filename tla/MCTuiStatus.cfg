SPECIFICATION ConversationsSpec
CONSTANTS
  Identities = {i1}
  Sockets = {s1}
  Rooms = {r1}
  Kinds = {dm}
  None = None
  Clients = {a}
  Creator = a
  NoGroup = NoGroup
  Overlaps = FALSE
  GoesOffline = FALSE
  Retained = 1
  MaxCommits = 0
  MaxMessages = 0
  Members = {e1}
  Rotators = {e1}
  NoEpoch = NoEpoch
  MaxRotations = 0
  MaxGroupTexts = 0
  Users = {u1, u2, u3, u4}
  Targets = {u1}
  Speakers = {u1}
  Texts = {shout}
  Abusive = {shout}
  RateLimit = 2
  Steps = {60000}
  MaxWaits = 0
  MaxSent = 0
  Calls = {c1}
  NoClient = NoClient
  Contacts = {p1}
  OwnTexts = {}
  Publishing = {c1}
  MaxDrops = 1
CHECK_DEADLOCK FALSE
INVARIANT StatusFollowsConnection
