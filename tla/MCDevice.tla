------------------------------- MODULE MCDevice -------------------------------
(* What runs on a user's device: the relay connection, the lifecycle of the *)
(* certificate, direct sessions with a peer, and attachments over them.     *)
(* Each is modelled with a free environment in place of the others, so they *)
(* share no state, and a behaviour follows one of them while the others     *)
(* rest: that visits all states of each.                                    *)
EXTENDS ClientConnection, DeviceLifecycle, PeerSessions, Attachments

VARIABLE half

deviceVars == <<connectionVars, lifecycleVars, peerVars, attachmentVars, half>>

DeviceInit ==
  /\ half \in {"connection", "lifecycle", "peers", "attachments"}
  /\ ConnectionInit /\ LifecycleInit /\ PeersInit /\ AttachmentInit

DeviceNext ==
  /\ UNCHANGED half
  /\ \/ /\ half = "connection" /\ ConnectionNext
        /\ UNCHANGED <<lifecycleVars, peerVars, attachmentVars>>
     \/ /\ half = "lifecycle" /\ LifecycleNext
        /\ UNCHANGED <<connectionVars, peerVars, attachmentVars>>
     \/ /\ half = "peers" /\ PeersNext
        /\ UNCHANGED <<connectionVars, lifecycleVars, attachmentVars>>
     \/ /\ half = "attachments" /\ AttachmentNext
        /\ UNCHANGED <<connectionVars, lifecycleVars, peerVars>>

\* Nothing of a part that rests is enabled, except an ensure() that has
\* nothing to do.
DeviceSpec ==
  /\ DeviceInit /\ [][DeviceNext]_deviceVars
  /\ ConnectionFairness /\ LifecycleFairness /\ PeersFairness
  /\ AttachmentFairness
=============================================================================
