CONSTANTS
  i1 = i1
  d1 = d1
  k1 = k1
  s1 = s1
  p1 = p1
  ch1 = ch1
  ch2 = ch2
  t1 = t1
  t2 = t2
  w1 = w1
  r1 = r1
  r2 = r2
  updates = updates
  public = public
  None = None
  Identities = {i1}
  Devices = {d1}
  DeviceKeys = {k1}
  SshKeys = {s1}
  Passkeys = {p1}
  Certificates <- MCCertificates
  Calls = {r1, r2}
  PendingTtl = 1
  SequenceAhead = 1
  MaxSshKeys = 1
  MaxPending = 1
  MaxSequence = 2
  MaxCounter = 1
  MaxTime = 3
  RateWindow = 2
  DuplicateThreshold = 2
  ChallengeIds = {ch1, ch2}
  Tokens = {t1, t2}
  Sockets = {w1}
  Events <- MCEvents
  Owner = i1
  Updates = updates
  Public = public
  ChallengeTtl = 1
  CertSkew = 0
  EventSkew = 2
  SessionMax = 3
  Retention = 2
  MaxChallenges = 1
  RateLimit <- MCRateLimit
  MaxBoots = 1
SPECIFICATION MCSpec
SYMMETRY MCSymmetry
INVARIANTS ChallengeSingleUse StreamInOrder PostsAdmissible
PROPERTIES RevocationEnds RevokedStaysOut
