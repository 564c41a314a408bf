--------------------------------- MODULE Relay ---------------------------------
(***************************************************************************)
(* The relay Durable Object (workers/relay/src/index.ts): challenge and     *)
(* authentication of sockets, the table of connections, room subscriptions, *)
(* forwarding, presence notices, and the loss of all of this when the       *)
(* object hibernates while its sockets stay open.                           *)
(*                                                                          *)
(* Handlers run to completion without an await, so each is one action.      *)
(* Messages to one socket arrive in the order they are sent; view is what a *)
(* client makes of the presence messages sent to it so far.                 *)
(***************************************************************************)
EXTENDS Naturals, FiniteSets

CONSTANTS
  Identities,
  Sockets,
  Rooms,
  Kinds,       \* dm, delivery_receipt and signalling messages
  None

ASSUME RelayAssumption ==
  /\ None \notin Identities /\ None \notin Sockets
  /\ Rooms \cap Kinds = {}

VARIABLES
  phase,              \* "unused", "open", "closing" or "closed"
  claim,              \* the identity in a socket's URL
  pending,            \* sockets awaiting their auth reply
  connections,        \* [Identities -> socket or None]
  socketIdentity,     \* [Sockets -> identity or None]
  rooms,              \* [Sockets -> SUBSET Rooms], of the connection's entry
  roomSubscriptions,  \* [Rooms -> SUBSET Identities]
  view,               \* [Sockets -> identities the client was told are online]
  routed              \* deliveries of the last step: [to, from, kind]

relayVars == <<phase, claim, pending, connections, socketIdentity, rooms,
               roomSubscriptions, view, routed>>

Phases == {"unused", "open", "closing", "closed"}

----------------------------------------------------------------------------
(* Steps shared by the handlers.                                            *)

Online(conns) == {i \in Identities : conns[i] # None}

\* notifyPresence: every connection is told that i came or went.
Notified(conns, seen, i, isOnline) ==
  [s \in Sockets |->
     IF \E j \in Identities : conns[j] = s
     THEN IF isOnline THEN seen[s] \cup {i} ELSE seen[s] \ {i}
     ELSE seen[s]]

\* removeConnection, the rooms of the entry.
SubscriptionsWithout(i) ==
  [r \in Rooms |-> IF r \in rooms[connections[i]] THEN roomSubscriptions[r] \ {i}
                   ELSE roomSubscriptions[r]]

\* Mutant: nobody is told that the connection went.
RemoveSilently(i) ==
  /\ connections' = [connections EXCEPT ![i] = None]
  /\ roomSubscriptions' = SubscriptionsWithout(i)
  /\ rooms' = [rooms EXCEPT ![connections[i]] = {}]
  /\ UNCHANGED view

RemoveConnection(i) ==
  /\ connections' = [connections EXCEPT ![i] = None]
  /\ roomSubscriptions' = SubscriptionsWithout(i)
  /\ rooms' = [rooms EXCEPT ![connections[i]] = {}]
  /\ view' = Notified([connections EXCEPT ![i] = None], view, i, FALSE)

\* The connection s takes over identity i: an existing one is removed first,
\* then the newcomer gets its snapshot and everyone is told.
TakeOver(i, s) ==
  LET old   == connections[i]
      conns == [connections EXCEPT ![i] = s]
      seen  == IF old = None THEN view
               ELSE Notified([connections EXCEPT ![i] = None], view, i, FALSE)
  IN  /\ connections' = conns
      /\ roomSubscriptions' =
           IF old = None THEN roomSubscriptions ELSE SubscriptionsWithout(i)
      /\ rooms' = [t \in Sockets |-> IF t \in {old, s} THEN {} ELSE rooms[t]]
      /\ view' = Notified(conns, [seen EXCEPT ![s] = Online(conns)], i, TRUE)
      /\ phase' = IF old = None THEN phase ELSE [phase EXCEPT ![old] = "closing"]

\* subscribeRoom, unsubscribeRoom: both indexes change together.
SubscribeRoom(i, r) ==
  /\ rooms' = [rooms EXCEPT ![connections[i]] = @ \cup {r}]
  /\ roomSubscriptions' = [roomSubscriptions EXCEPT ![r] = @ \cup {i}]

UnsubscribeRoom(i, r) ==
  /\ rooms' = [rooms EXCEPT ![connections[i]] = @ \ {r}]
  /\ roomSubscriptions' = [roomSubscriptions EXCEPT ![r] = @ \ {i}]

\* Mutant: an event goes to its sender too.
BroadcastToAll(i, r) ==
  routed' = {[to |-> j, from |-> i, kind |-> r] :
               j \in {k \in roomSubscriptions[r] : connections[k] # None}}

BroadcastRoomEvent(i, r) ==
  routed' = {[to |-> j, from |-> i, kind |-> r] :
               j \in {k \in roomSubscriptions[r] \ {i} : connections[k] # None}}

\* forwardDm, forwardReceipt, forwardSignaling: dropped when nobody is there.
Forward(i, j, kind) ==
  routed' = IF connections[j] = None THEN {}
            ELSE {[to |-> j, from |-> i, kind |-> kind]}

----------------------------------------------------------------------------
(* Handlers of the worker.                                                  *)

HandleWebSocketUpgrade(s, i) ==
  /\ phase[s] = "unused"
  /\ phase' = [phase EXCEPT ![s] = "open"]
  /\ claim' = [claim EXCEPT ![s] = i]
  /\ pending' = pending \cup {s}
  /\ routed' = {}
  /\ UNCHANGED <<connections, socketIdentity, rooms, roomSubscriptions, view>>

\* handleAuth with a proof that verifies.
HandleAuth(s) ==
  /\ phase[s] = "open" /\ s \in pending
  /\ pending' = pending \ {s}
  /\ TakeOver(claim[s], s)
  /\ socketIdentity' = [t \in Sockets |->
       IF t = s THEN claim[s]
       ELSE IF t = connections[claim[s]] THEN None ELSE socketIdentity[t]]
  /\ routed' = {}
  /\ UNCHANGED claim

IsConnection(s) ==
  socketIdentity[s] # None /\ connections[socketIdentity[s]] = s

\* rejectAuth: a proof that does not verify, the timeout, or any message of a
\* socket that holds no connection.
RejectAuth(s) ==
  /\ phase[s] \in {"open", "closing"}
  /\ s \in pending \/ ~IsConnection(s)
  /\ pending' = pending \ {s}
  /\ phase' = [phase EXCEPT ![s] = "closing"]
  /\ routed' = {}
  /\ UNCHANGED <<claim, connections, socketIdentity, rooms, roomSubscriptions,
                 view>>

\* Mutant: whatever closes takes its identity's connection along.
DropAnySocket(s) ==
  /\ phase[s] \in {"open", "closing"}
  /\ phase' = [phase EXCEPT ![s] = "closed"]
  /\ pending' = pending \ {s}
  /\ socketIdentity' = [socketIdentity EXCEPT ![s] = None]
  /\ IF connections[claim[s]] # None
     THEN RemoveConnection(claim[s])
     ELSE UNCHANGED <<connections, rooms, roomSubscriptions, view>>
  /\ routed' = {}
  /\ UNCHANGED claim

\* webSocketClose, webSocketError.
DropSocket(s) ==
  /\ phase[s] \in {"open", "closing"}
  /\ phase' = [phase EXCEPT ![s] = "closed"]
  /\ pending' = pending \ {s}
  /\ socketIdentity' = [socketIdentity EXCEPT ![s] = None]
  /\ IF IsConnection(s)
     THEN RemoveConnection(socketIdentity[s])
     ELSE UNCHANGED <<connections, rooms, roomSubscriptions, view>>
  /\ routed' = {}
  /\ UNCHANGED claim

\* webSocketMessage of an authenticated socket.
WebSocketMessage(s) ==
  /\ phase[s] = "open" /\ s \notin pending
  /\ IsConnection(s)
  /\ LET i == socketIdentity[s]
     IN  \/ /\ \E r \in Rooms : SubscribeRoom(i, r) \/ UnsubscribeRoom(i, r)
            /\ routed' = {}
         \/ /\ \/ \E r \in Rooms : BroadcastRoomEvent(i, r)
               \/ \E j \in Identities, kind \in Kinds : Forward(i, j, kind)
            /\ UNCHANGED <<rooms, roomSubscriptions>>
  /\ UNCHANGED <<phase, claim, pending, connections, socketIdentity, view>>

\* The object is evicted from memory while its sockets stay open; a challenge
\* timer keeps it there.
Hibernate ==
  /\ pending = {}
  /\ connections' = [i \in Identities |-> None]
  /\ socketIdentity' = [s \in Sockets |-> None]
  /\ rooms' = [s \in Sockets |-> {}]
  /\ roomSubscriptions' = [r \in Rooms |-> {}]
  /\ routed' = {}
  /\ UNCHANGED <<phase, claim, pending, view>>

RelayInit ==
  /\ phase = [s \in Sockets |-> "unused"]
  /\ claim = [s \in Sockets |-> None]
  /\ pending = {}
  /\ connections = [i \in Identities |-> None]
  /\ socketIdentity = [s \in Sockets |-> None]
  /\ rooms = [s \in Sockets |-> {}]
  /\ roomSubscriptions = [r \in Rooms |-> {}]
  /\ view = [s \in Sockets |-> {}]
  /\ routed = {}

RelayNext ==
  \/ \E s \in Sockets, i \in Identities : HandleWebSocketUpgrade(s, i)
  \/ \E s \in Sockets :
       HandleAuth(s) \/ RejectAuth(s) \/ DropSocket(s) \/ WebSocketMessage(s)
  \/ Hibernate

RelaySpec == RelayInit /\ [][RelayNext]_relayVars

----------------------------------------------------------------------------
(* Properties.                                                              *)

\* Types of the relay's maps, and of the deliveries.
RelayTypeOK ==
  /\ phase \in [Sockets -> Phases]
  /\ claim \in [Sockets -> Identities \cup {None}]
  /\ pending \subseteq Sockets
  /\ connections \in [Identities -> Sockets \cup {None}]
  /\ socketIdentity \in [Sockets -> Identities \cup {None}]
  /\ rooms \in [Sockets -> SUBSET Rooms]
  /\ roomSubscriptions \in [Rooms -> SUBSET Identities]
  /\ view \in [Sockets -> SUBSET Identities]
  /\ routed \subseteq [to : Identities, from : Identities, kind : Rooms \cup Kinds]

\* The tables that say who is connected and where agree, although replaced
\* sockets close late.  An identity is subscribed exactly to the rooms of the
\* connection it has, so nothing is left of one that was replaced or closed;
\* and every connected client's picture of who is online, made of the snapshot
\* it got and the notices since, is the relay's table.
TablesAgree ==
  /\ \A i \in Identities, r \in Rooms :
       i \in roomSubscriptions[r] <=>
         connections[i] # None /\ r \in rooms[connections[i]]
  /\ \A i \in Online(connections) :
       view[connections[i]] = Online(connections)

\* A connection ends with its own socket, when the identity connects again, or
\* with the relay's memory: the late close of a socket that was replaced does
\* not take the new one along.
EndsWithOwnSocket ==
  \A i \in Identities :
    connections[i] # None /\ connections'[i] # connections[i] =>
      \/ phase'[connections[i]] \in {"closing", "closed"}
      \/ Online(connections') = {}

LateCloseHarmless == [][EndsWithOwnSocket]_relayVars

\* The relay keeps the contract: routing by the connection table, rooms by the
\* two subscription indexes.
Contract == INSTANCE RelayContract WITH
  at     <- connections,
  joined <- [i \in Identities |-> {r \in Rooms : i \in roomSubscriptions[r]}],
  routed <- routed

KeepsContract == Contract!ContractSpec
=============================================================================
