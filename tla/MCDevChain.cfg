CONSTANTS
  i1 = i1
  d1 = d1
  d2 = d2
  k1 = k1
  k2 = k2
  s1 = s1
  s2 = s2
  p1 = p1
  call1 = call1
  None = None
  Identities = {i1}
  Devices = {d1, d2}
  DeviceKeys = {k1, k2}
  SshKeys = {s1, s2}
  Passkeys = {p1}
  Calls = {call1}
  Certificates <- MCCertificates
  PendingTtl = 1
  SequenceAhead = 1
  MaxSshKeys = 1
  MaxPending = 1
  MaxSequence = 2
  MaxCounter = 1
  MaxTime = 2
  w1 = w1
  w2 = w2
  j1 = j1
  j2 = j2
  Wallets = {w1, w2}
  Candidates = {w1, w2, w3}
  Names = {n1, n2}
  NameIdentities = {j1, j2}
  IdentityOf <- MCIdentityOf
  Absent = Absent
  MinAccountAge = 1
  InactivityRelease = 2
  MinValidators = 2
  MaxValidators = 3
  PowerCap = 2
  Stakes = {0, 3}
  LastDay = 4
  MaxRegistrations = 2
SPECIFICATION HalvesSpec
INVARIANTS DurableImage AuthorityChain NamesAgree
PROPERTIES RevocationPermanent KilledStaysKilled HoldingsPermanent
