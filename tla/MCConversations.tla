---------------------------- MODULE MCConversations ----------------------------
(* What carries and shapes a conversation, for TLC: the relays (the worker   *)
(* and the self-hosted one keep the same tables, and Init chooses whose      *)
(* handlers run), an MLS group, a group with epoch secrets, a moderated room *)
(* and the terminal client's screen. Each has a free environment in place of *)
(* the others, so they share no state, and a behaviour follows one of them.  *)
(* There are two identities at a relay, so that a socket can take over from  *)
(* another one of the same identity while a third watches.                   *)
EXTENDS StandaloneRelay, MlsGroups, EpochGroups, Rooms, TuiClient

VARIABLE place

conversationVars == <<relayVars, mlsVars, epochVars, roomVars, tuiVars, place>>

ConversationsInit ==
  /\ place \in {"worker", "standalone", "group", "epochs", "room", "screen"}
  /\ RelayInit /\ MlsInit /\ EpochInit /\ RoomInit /\ TuiInit

RelayStep ==
  \/ place = "worker" /\ RelayNext
  \/ place = "standalone" /\ StandaloneNext

ConversationsNext ==
  /\ UNCHANGED place
  /\ \/ RelayStep /\ UNCHANGED <<mlsVars, epochVars, roomVars, tuiVars>>
     \/ /\ place = "group" /\ MlsNext
        /\ UNCHANGED <<relayVars, epochVars, roomVars, tuiVars>>
     \/ /\ place = "epochs" /\ EpochNext
        /\ UNCHANGED <<relayVars, mlsVars, roomVars, tuiVars>>
     \/ /\ place = "room" /\ RoomNext
        /\ UNCHANGED <<relayVars, mlsVars, epochVars, tuiVars>>
     \/ /\ place = "screen" /\ TuiNext
        /\ UNCHANGED <<relayVars, mlsVars, epochVars, roomVars>>

ConversationsSpec == ConversationsInit /\ [][ConversationsNext]_conversationVars
=============================================================================
