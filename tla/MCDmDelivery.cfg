CONSTANTS
  A = A
  B = B
  m1 = m1
  m2 = m2
  m3 = m3
  None = None
  Peers = {A, B}
  Messages = {m1, m2, m3}
  Sender <- MCOneWaySender
  Recipient <- MCOneWayRecipient
  Initiators = {A}
  OneTimeCount = 1
  MaxSkip = 1
  Limited = FALSE
  MaxInbox = 3
  MaxInboxPerPeer = 3
  MaxQueued = 3
  MaxQueuedPerPeer = 3
  MaxCrashes = 0
  Letters = {}
  NoRatchet = NoRatchet
  MaxRestarts = 0
  DeviceKinds = {"persistent"}
SPECIFICATION DevicesFairSpec
PROPERTIES EventuallyDelivered
CHECK_DEADLOCK FALSE
