CONSTANTS
  A = A
  B = B
  m1 = m1
  m2 = m2
  m3 = m3
  None = None
  Peers = {A, B}
  Messages = {m1, m2, m3}
  Sender <- MCSender
  Recipient <- MCRecipient
  Initiators = {A, B}
  OneTimeCount = 1
  MaxSkip = 1
  Limited = TRUE
  MaxInbox = 2
  MaxInboxPerPeer = 1
  MaxQueued = 2
  MaxQueuedPerPeer = 1
  MaxCrashes = 1
  Letters = {l1, l2, l3}
  NoRatchet = NoRatchet
  MaxRestarts = 2
  DeviceKinds = {"persistent", "plain"}
SPECIFICATION DevicesSpec
CHECK_DEADLOCK FALSE
INVARIANTS  KeyUsedOnce RetryWorks
PROPERTIES DeliveryContract PlainContract
