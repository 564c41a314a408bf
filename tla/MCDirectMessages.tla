--------------------------- MODULE MCDirectMessages ---------------------------
(* Direct messages between two devices with a device store, A and B, where  *)
(* Initiators says who may start the conversation, and between two without  *)
(* one.  A behaviour follows the devices of one kind.                       *)
EXTENDS DirectMessages, PlainMessages

CONSTANTS A, B, m1, m2, m3
CONSTANT DeviceKinds   \* a subset of {"persistent", "plain"}

\* A conversation: two messages one way, one back.
MCSender == [m \in Messages |-> IF m = m3 THEN B ELSE A]
MCRecipient == [m \in Messages |-> IF m = m3 THEN A ELSE B]

\* Three messages one way.
MCOneWaySender == [m \in Messages |-> A]
MCOneWayRecipient == [m \in Messages |-> B]

VARIABLE kind

devicesVars == <<dmVars, plainVars, kind>>

DevicesInit ==
  /\ kind \in DeviceKinds
  /\ DmInit
  /\ PlainInit /\ (kind = "plain" \/ backed)

DevicesNext ==
  /\ UNCHANGED kind
  /\ \/ kind = "persistent" /\ DmNext /\ UNCHANGED plainVars
     \/ kind = "plain" /\ PlainNext /\ UNCHANGED dmVars

DevicesSpec == DevicesInit /\ [][DevicesNext]_devicesVars
DevicesFairSpec == DevicesSpec /\ Fairness
=============================================================================
