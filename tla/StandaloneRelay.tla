---------------------------- MODULE StandaloneRelay ----------------------------
(***************************************************************************)
(* The self-hosted relay (packages/relay-standalone/src/index.ts).  It keeps *)
(* the same tables as the worker, in Relay, with these differences: it has  *)
(* no map from sockets to identities and asks the connection of the         *)
(* identity in the socket's URL instead; a socket stays pending until its   *)
(* close event; messages of a socket without a connection are ignored; and  *)
(* its memory lasts as long as its sockets.                                 *)
(***************************************************************************)
EXTENDS Relay

IsClient(s) == connections[claim[s]] = s

Open(s, i) == HandleWebSocketUpgrade(s, i)

\* handleAuth with a proof that verifies.
Authenticate(s) ==
  /\ phase[s] = "open" /\ s \in pending
  /\ pending' = pending \ {s}
  /\ TakeOver(claim[s], s)
  /\ routed' = {}
  /\ UNCHANGED <<claim, socketIdentity>>

\* A proof that does not verify, or the timeout of the challenge.
AuthenticationFailed(s) ==
  /\ phase[s] = "open" /\ s \in pending
  /\ phase' = [phase EXCEPT ![s] = "closing"]
  /\ routed' = {}
  /\ UNCHANGED <<claim, pending, connections, socketIdentity, rooms,
                 roomSubscriptions, view>>

HandleRooms(s) ==
  /\ phase[s] = "open" /\ s \notin pending /\ IsClient(s)
  /\ \E r \in Rooms : SubscribeRoom(claim[s], r) \/ UnsubscribeRoom(claim[s], r)
  /\ routed' = {}
  /\ UNCHANGED <<phase, claim, pending, connections, socketIdentity, view>>

HandleRoomEvent(s) ==
  /\ phase[s] = "open" /\ s \notin pending /\ IsClient(s)
  /\ \E r \in Rooms : BroadcastRoomEvent(claim[s], r)
  /\ UNCHANGED <<phase, claim, pending, connections, socketIdentity, rooms,
                 roomSubscriptions, view>>

\* handleDm, handleDeliveryReceipt, handleSignalling.
HandleForward(s) ==
  /\ phase[s] = "open" /\ s \notin pending /\ IsClient(s)
  /\ \E j \in Identities, kind \in Kinds : Forward(claim[s], j, kind)
  /\ UNCHANGED <<phase, claim, pending, connections, socketIdentity, rooms,
                 roomSubscriptions, view>>

\* The close event.
SocketClosed(s) ==
  /\ phase[s] \in {"open", "closing"}
  /\ phase' = [phase EXCEPT ![s] = "closed"]
  /\ pending' = pending \ {s}
  /\ IF s \notin pending /\ IsClient(s)
     THEN RemoveConnection(claim[s])
     ELSE UNCHANGED <<connections, rooms, roomSubscriptions, view>>
  /\ routed' = {}
  /\ UNCHANGED <<claim, socketIdentity>>

StandaloneNext ==
  \/ \E s \in Sockets, i \in Identities : Open(s, i)
  \/ \E s \in Sockets :
       \/ Authenticate(s) \/ AuthenticationFailed(s) \/ SocketClosed(s)
       \/ HandleRooms(s) \/ HandleRoomEvent(s) \/ HandleForward(s)

StandaloneSpec == RelayInit /\ [][StandaloneNext]_relayVars
=============================================================================
