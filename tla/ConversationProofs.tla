-------------------------- MODULE ConversationProofs --------------------------
(***************************************************************************)
(* Proofs about what carries a conversation and who may speak in it: the    *)
(* two relays (Relay, StandaloneRelay), the moderation of a room (Rooms),   *)
(* the terminal client's screen (TuiClient) and a client's connection to    *)
(* the relay (ClientConnection), for any identities, sockets, users, calls, *)
(* messages, lost connections and bounds.                                   *)
(***************************************************************************)
EXTENDS StandaloneRelay, Rooms, TuiClient, ClientConnection, FiniteSetTheorems,
        TLAPS

\* The backend of every leaf that names none, with a second run of more time.
USE Zenon, ZenonT(20)

----------------------------------------------------------------------------
(* The relays.                                                              *)


\* A connection's socket is open, has answered its challenge, and was opened
\* for the identity: so a socket is the connection of one identity at most.
Placed ==
  \A i \in Identities : connections[i] # None =>
    /\ phase[connections[i]] = "open"
    /\ connections[i] \notin pending
    /\ claim[connections[i]] = i

\* A socket that has been opened was opened for an identity.
Claimed ==
  /\ \A s \in Sockets : phase[s] # "unused" => claim[s] \in Identities
  /\ \A s \in pending : phase[s] # "unused"

\* The inductive invariant of the shared tables.
RelayInv == RelayTypeOK /\ Placed /\ Claimed /\ TablesAgree

\* The worker finds a connection's identity by its socket.
SocketsAgree ==
  \A i \in Identities :
    connections[i] # None => socketIdentity[connections[i]] = i

WorkerInv == RelayInv /\ SocketsAgree

\* The rooms of an identity, as the contract sees them.
Entered(i) == {r \in Rooms : i \in roomSubscriptions[r]}

\* A step of the contract that also leaves late closes harmless.
Kept == Contract!ContractNext /\ EndsWithOwnSocket

----------------------------------------------------------------------------
(* Steps on the shared tables.                                              *)

\* The subscriptions of a connection that goes: its identity is in none.
LEMMA Unsubscribed ==
  ASSUME RelayInv, NEW i \in Identities, connections[i] # None
  PROVE  /\ SubscriptionsWithout(i) \in [Rooms -> SUBSET Identities]
         /\ \A r \in Rooms : SubscriptionsWithout(i)[r] = roomSubscriptions[r] \ {i}
BY SMT, Z3 DEF RelayInv, RelayTypeOK, TablesAgree, SubscriptionsWithout

\* Steps that leave the connections, rooms and views alone.
LEMMA SocketStep ==
  ASSUME RelayInv,
         UNCHANGED <<connections, rooms, roomSubscriptions, view>>,
         RelayTypeOK', Placed', Claimed'
  PROVE  RelayInv' /\ EndsWithOwnSocket
BY DEF RelayInv, TablesAgree, Online, EndsWithOwnSocket

\* A connection that ends with its socket.
LEMMA RemoveStep ==
  ASSUME RelayInv, NEW s \in Sockets, NEW i \in Identities,
         connections[i] = s,
         phase' = [phase EXCEPT ![s] = "closed"],
         pending' = pending \ {s},
         claim' = claim,
         socketIdentity' \in [Sockets -> Identities \cup {None}],
         RemoveConnection(i),
         routed' = {}
  PROVE  RelayInv' /\ Kept
<1>0. RelayTypeOK /\ Placed /\ Claimed /\ TablesAgree /\ connections[i] # None
  BY RelayAssumption DEF RelayInv
<1>1. /\ connections' = [connections EXCEPT ![i] = None]
      /\ roomSubscriptions' = SubscriptionsWithout(i)
      /\ rooms' = [rooms EXCEPT ![s] = {}]
      /\ view' = Notified(connections', view, i, FALSE)
  BY DEF RemoveConnection
<1>2. /\ roomSubscriptions' \in [Rooms -> SUBSET Identities]
      /\ \A r \in Rooms : roomSubscriptions'[r] = roomSubscriptions[r] \ {i}
  BY <1>0, <1>1, Unsubscribed
<1>3. /\ view' \in [Sockets -> SUBSET Identities]
      /\ \A j \in Identities : connections'[j] \in Sockets =>
           view'[connections'[j]] = view[connections'[j]] \ {i}
  BY <1>0, <1>1 DEF RelayTypeOK, Notified
<1>4. RelayTypeOK'
  BY <1>0, <1>1, <1>2, <1>3 DEF RelayTypeOK, Phases
<1>5. \A j \in Identities : connections'[j] # None =>
        j # i /\ connections'[j] = connections[j] /\ connections[j] # s
  BY <1>0, <1>1 DEF RelayTypeOK, Placed
<1>6. Placed' /\ Claimed'
  BY SMT, Z3, <1>0, <1>1, <1>5 DEF RelayTypeOK, Placed, Claimed
<1>7. TablesAgree'
  <2>1. ASSUME NEW j \in Identities, NEW r \in Rooms
        PROVE  j \in roomSubscriptions'[r] <=>
                 connections'[j] # None /\ r \in rooms'[connections'[j]]
    BY SMT, Z3, <1>0, <1>1, <1>2, <1>5 DEF RelayTypeOK, TablesAgree
  <2>2. Online(connections') = Online(connections) \ {i}
    BY <1>0, <1>1 DEF RelayTypeOK, Online
  <2>3. ASSUME NEW j \in Online(connections')
        PROVE  view'[connections'[j]] = Online(connections')
    <3>1. /\ j \in Identities /\ connections'[j] = connections[j]
          /\ connections[j] \in Sockets /\ j \in Online(connections)
      BY <1>0, <1>5 DEF RelayTypeOK, Online
    <3>. QED
      BY SMT, Z3, <1>0, <1>3, <2>2, <3>1 DEF TablesAgree
  <2>. QED
    BY <2>1, <2>3 DEF TablesAgree, Online
<1>8. Contract!Detach(i)
  <2>1. \A j \in Identities : Entered(j)' = IF j = i THEN {} ELSE Entered(j)
    BY <1>2 DEF Entered
  <2>2. [j \in Identities |-> Entered(j)'] =
          [[j \in Identities |-> Entered(j)] EXCEPT ![i] = {}]
    BY <2>1
  <2>. QED
    BY <1>0, <1>1, <2>2 DEF Entered, Contract!Detach
<1>9. EndsWithOwnSocket
  BY <1>0, <1>1 DEF RelayTypeOK, EndsWithOwnSocket
<1>. QED
  BY <1>4, <1>6, <1>7, <1>8, <1>9 DEF RelayInv, Kept, Contract!ContractNext

\* A socket that answers its challenge takes over its identity.
LEMMA TakeOverStep ==
  ASSUME RelayInv, NEW s \in Sockets,
         phase[s] = "open", s \in pending,
         pending' = pending \ {s},
         claim' = claim,
         socketIdentity' \in [Sockets -> Identities \cup {None}],
         TakeOver(claim[s], s),
         routed' = {}
  PROVE  RelayInv' /\ Kept
<1>. DEFINE i   == claim[s]
            old == connections[i]
            gone == [connections EXCEPT ![i] = None]
            seen == IF old = None THEN view ELSE Notified(gone, view, i, FALSE)
<1>0. RelayTypeOK /\ Placed /\ Claimed /\ TablesAgree
  BY DEF RelayInv
<1>1. /\ i \in Identities
      /\ s # None /\ old # s
      /\ \A j \in Identities : connections[j] # s
  BY <1>0, RelayAssumption DEF Placed, Claimed
<1>2. /\ connections' = [connections EXCEPT ![i] = s]
      /\ roomSubscriptions' =
           IF old = None THEN roomSubscriptions ELSE SubscriptionsWithout(i)
      /\ rooms' = [t \in Sockets |-> IF t \in {old, s} THEN {} ELSE rooms[t]]
      /\ view' = Notified(connections', [seen EXCEPT ![s] = Online(connections')],
                          i, TRUE)
      /\ phase' = IF old = None THEN phase ELSE [phase EXCEPT ![old] = "closing"]
  BY DEF TakeOver
<1>3. /\ roomSubscriptions' \in [Rooms -> SUBSET Identities]
      /\ \A r \in Rooms : roomSubscriptions'[r] = roomSubscriptions[r] \ {i}
  <2>1. CASE old = None
    BY SMT, Z3, <1>0, <1>1, <1>2, <2>1 DEF RelayTypeOK, TablesAgree
  <2>2. CASE old # None
    BY <1>1, <1>2, <2>2, Unsubscribed
  <2>. QED
    BY <2>1, <2>2
<1>4. \A j \in Identities \ {i} :
        /\ connections'[j] = connections[j]
        /\ connections[j] # None =>
             connections[j] \in Sockets /\ connections[j] \notin {old, s}
  BY SMT, Z3, <1>0, <1>1, <1>2 DEF RelayTypeOK, Placed
<1>5. connections'[i] = s /\ connections' \in [Identities -> Sockets \cup {None}]
  BY <1>0, <1>1, <1>2 DEF RelayTypeOK
<1>6. Online(connections') = Online(connections) \cup {i}
  BY <1>1, <1>4, <1>5 DEF Online
<1>7. /\ seen \in [Sockets -> SUBSET Identities]
      /\ \A j \in Identities \ {i} : connections[j] # None =>
           seen[connections[j]] \cup {i} = view[connections[j]] \cup {i}
  <2>1. CASE old = None
    BY <1>0, <2>1 DEF RelayTypeOK
  <2>2. CASE old # None
    BY <1>0, <1>1, <1>4, <2>2 DEF RelayTypeOK, Notified
  <2>. QED
    BY <2>1, <2>2
<1>. HIDE DEF seen, old, i
<1>8. /\ view' \in [Sockets -> SUBSET Identities]
      /\ view'[s] = Online(connections')
      /\ \A j \in Identities \ {i} : connections[j] # None =>
           view'[connections[j]] = seen[connections[j]] \cup {i}
  <2>. DEFINE listed == [seen EXCEPT ![s] = Online(connections')]
  <2>1. Online(connections') \subseteq Identities /\ i \in Online(connections')
    BY <1>1, <1>5 DEF Online
  <2>2. /\ listed \in [Sockets -> SUBSET Identities]
        /\ listed[s] = Online(connections')
        /\ \A t \in Sockets \ {s} : listed[t] = seen[t]
    BY <1>7, <2>1
  <2>3. view' = Notified(connections', listed, i, TRUE)
    BY <1>2
  <2>. HIDE DEF listed
  <2>4. view' \in [Sockets -> SUBSET Identities]
    BY <1>1, <2>2, <2>3 DEF Notified
  <2>5. view'[s] = listed[s] \cup {i}
    BY <1>1, <1>5, <2>3 DEF Notified
  <2>6. ASSUME NEW j \in Identities \ {i}, connections[j] # None
        PROVE  view'[connections[j]] = listed[connections[j]] \cup {i}
    BY <1>1, <1>4, <2>3, <2>6 DEF Notified
  <2>. QED
    BY <1>4, <2>1, <2>2, <2>4, <2>5, <2>6
<1>9. RelayTypeOK'
  <2>1. rooms' \in [Sockets -> SUBSET Rooms] /\ phase' \in [Sockets -> Phases]
    BY <1>0, <1>2 DEF RelayTypeOK, Phases
  <2>. QED
    BY <1>0, <1>3, <1>5, <1>8, <2>1 DEF RelayTypeOK
<1>10. Placed'
  <2>1. \A t \in Sockets \ {old} : phase'[t] = phase[t]
    BY <1>0, <1>2 DEF RelayTypeOK
  <2>. SUFFICES ASSUME NEW j \in Identities, connections'[j] # None
                PROVE  /\ phase'[connections'[j]] = "open"
                       /\ connections'[j] \notin pending'
                       /\ claim'[connections'[j]] = j
    BY DEF Placed
  <2>2. CASE j = i
    BY <1>1, <1>5, <2>1, <2>2 DEF i, old
  <2>3. CASE j # i
    BY SMT, Z3, <1>0, <1>4, <2>1, <2>3 DEF Placed
  <2>. QED
    BY <2>2, <2>3
<1>11. Claimed'
  <2>1. \A t \in Sockets : phase'[t] # phase[t] => t = old
    BY <1>0, <1>2 DEF RelayTypeOK
  <2>2. \A t \in Sockets : phase'[t] = "unused" => phase[t] = "unused"
    BY <1>0, <1>2 DEF RelayTypeOK
  <2>3. \A t \in Sockets : phase[t] = "unused" => t # old
    BY SMT, Z3, <1>0, <1>1, RelayAssumption DEF Placed, old
  <2>. QED
    BY <1>0, <2>1, <2>2, <2>3 DEF Claimed, RelayTypeOK
<1>12. TablesAgree'
  <2>1. ASSUME NEW j \in Identities, NEW r \in Rooms
        PROVE  j \in roomSubscriptions'[r] <=>
                 connections'[j] # None /\ r \in rooms'[connections'[j]]
    <3>1. CASE j = i
      BY SMT, Z3, <1>2, <1>3, <1>5, <3>1
    <3>2. CASE j # i
      BY SMT, Z3, <1>0, <1>2, <1>3, <1>4, <3>2 DEF TablesAgree
    <3>. QED
      BY <3>1, <3>2
  <2>2. ASSUME NEW j \in Online(connections')
        PROVE  view'[connections'[j]] = Online(connections')
    <3>1. CASE j = i
      BY <1>5, <1>8, <3>1
    <3>2. CASE j # i
      <4>1. /\ j \in Identities \ {i} /\ connections[j] # None
            /\ j \in Online(connections) /\ connections'[j] = connections[j]
        BY <1>4, <3>2 DEF Online
      <4>. QED
        BY SMT, Z3, <1>0, <1>6, <1>7, <1>8, <4>1 DEF TablesAgree
    <3>. QED
      BY <3>1, <3>2
  <2>. QED
    BY <2>1, <2>2 DEF TablesAgree, Online
<1>13. Contract!Attach(i, s)
  <2>1. \A j \in Identities : Entered(j)' = IF j = i THEN {} ELSE Entered(j)
    BY <1>3 DEF Entered
  <2>2. [j \in Identities |-> Entered(j)'] =
          [[j \in Identities |-> Entered(j)] EXCEPT ![i] = {}]
    BY <2>1
  <2>. QED
    BY <1>2, <2>2 DEF Entered, Contract!Attach
<1>14. EndsWithOwnSocket
  <2>1. old # None => phase'[old] = "closing"
    BY <1>0, <1>1, <1>2 DEF RelayTypeOK, old
  <2>. QED
    BY <1>4, <2>1 DEF EndsWithOwnSocket, old
<1>15. Contract!ContractNext
  <2>1. \E j \in Identities, t \in Sockets : Contract!Attach(j, t)
    <3>1. PICK j \in Identities : j = i
      BY <1>1
    <3>2. Contract!Attach(j, s)
      BY <1>13, <3>1 DEF Contract!Attach
    <3>. QED
      BY <3>2
  <2>. QED
    BY <2>1 DEF Contract!ContractNext
<1>. QED
  BY <1>9, <1>10, <1>11, <1>12, <1>14, <1>15 DEF RelayInv, Kept

\* A connected client joins or leaves a room.
LEMMA RoomsStep ==
  ASSUME RelayInv, NEW i \in Identities, NEW r \in Rooms,
         connections[i] # None,
         SubscribeRoom(i, r) \/ UnsubscribeRoom(i, r),
         UNCHANGED <<phase, claim, pending, connections, socketIdentity, view>>,
         routed' = {}
  PROVE  RelayInv' /\ Kept
<1>0. /\ RelayTypeOK /\ Placed /\ Claimed /\ TablesAgree
      /\ connections[i] \in Sockets
  BY DEF RelayInv, RelayTypeOK
<1>1. PICK chosen \in SUBSET Rooms :
        /\ rooms' = [rooms EXCEPT ![connections[i]] = chosen]
        /\ \A q \in Rooms \ {r} : q \in chosen <=> q \in rooms[connections[i]]
        /\ roomSubscriptions' \in [Rooms -> SUBSET Identities]
        /\ \A q \in Rooms \ {r} : roomSubscriptions'[q] = roomSubscriptions[q]
        /\ roomSubscriptions'[r] =
             IF r \in chosen THEN roomSubscriptions[r] \cup {i}
             ELSE roomSubscriptions[r] \ {i}
  <2>1. CASE SubscribeRoom(i, r)
    <3>1. rooms[connections[i]] \cup {r} \in SUBSET Rooms
      BY <1>0 DEF RelayTypeOK
    <3>. QED
      BY <1>0, <2>1, <3>1 DEF SubscribeRoom, RelayTypeOK
  <2>2. CASE UnsubscribeRoom(i, r)
    <3>1. rooms[connections[i]] \ {r} \in SUBSET Rooms
      BY <1>0 DEF RelayTypeOK
    <3>. QED
      BY <1>0, <2>2, <3>1 DEF UnsubscribeRoom, RelayTypeOK
  <2>. QED
    BY <2>1, <2>2
<1>2. RelayTypeOK'
  BY <1>0, <1>1 DEF RelayTypeOK
<1>3. Placed' /\ Claimed'
  BY <1>0 DEF Placed, Claimed
<1>4. TablesAgree'
  <2>1. ASSUME NEW j \in Identities, NEW q \in Rooms
        PROVE  j \in roomSubscriptions'[q] <=>
                 connections[j] # None /\ q \in rooms'[connections[j]]
    <3>1. CASE j = i
      BY SMT, Z3, <1>0, <1>1, <3>1 DEF TablesAgree, RelayTypeOK
    <3>2. CASE j # i
      <4>1. connections[j] # None => connections[j] # connections[i]
        BY <1>0, <3>2 DEF Placed
      <4>2. connections[j] # None =>
              rooms'[connections[j]] = rooms[connections[j]]
        BY <1>0, <1>1, <4>1 DEF RelayTypeOK
      <4>3. j \in roomSubscriptions'[q] <=> j \in roomSubscriptions[q]
        BY <1>1, <3>2
      <4>. QED
        BY <1>0, <4>2, <4>3 DEF TablesAgree
    <3>. QED
      BY <3>1, <3>2
  <2>. QED
    BY <1>0, <2>1 DEF TablesAgree, Online
<1>5. Contract!ChangeRooms(i, chosen)
  <2>1. \A j \in Identities : Entered(j)' = IF j = i THEN chosen ELSE Entered(j)
    <3>1. Entered(i)' = chosen
      BY SMT, Z3, <1>0, <1>1 DEF Entered, TablesAgree
    <3>2. \A j \in Identities \ {i} : Entered(j)' = Entered(j)
      BY <1>1 DEF Entered
    <3>. QED
      BY <3>1, <3>2
  <2>2. [j \in Identities |-> Entered(j)'] =
          [[j \in Identities |-> Entered(j)] EXCEPT ![i] = chosen]
    BY <2>1
  <2>. QED
    BY <2>2 DEF Entered, Contract!ChangeRooms
<1>6. Contract!ContractNext
  <2>1. \E j \in Identities, n \in SUBSET Rooms : Contract!ChangeRooms(j, n)
    BY <1>1, <1>5
  <2>. QED
    BY <2>1 DEF Contract!ContractNext
<1>7. EndsWithOwnSocket
  BY DEF EndsWithOwnSocket
<1>. QED
  BY <1>2, <1>3, <1>4, <1>6, <1>7 DEF RelayInv, Kept

\* A connected client sends to a room or to an identity: subscribers are
\* connected, so the room's event reaches the members the contract names.
LEMMA RouteStep ==
  ASSUME RelayInv, NEW i \in Identities, connections[i] # None,
         \/ \E r \in Rooms : BroadcastRoomEvent(i, r)
         \/ \E j \in Identities, kind \in Kinds : Forward(i, j, kind),
         UNCHANGED <<phase, claim, pending, connections, socketIdentity, rooms,
                     roomSubscriptions, view>>
  PROVE  RelayInv' /\ Kept
<1>0. RelayTypeOK /\ Placed /\ Claimed /\ TablesAgree
  BY DEF RelayInv
<1>1. routed' \subseteq [to : Identities, from : Identities, kind : Rooms \cup Kinds]
  BY SMT, Z3, <1>0 DEF BroadcastRoomEvent, Forward, RelayTypeOK
<1>2. RelayTypeOK' /\ Placed' /\ Claimed'
  BY <1>0, <1>1 DEF RelayTypeOK, Placed, Claimed
<1>3. RelayInv' /\ EndsWithOwnSocket
  BY <1>2, SocketStep
<1>4. Contract!ContractNext
  <2>1. CASE \E r \in Rooms : BroadcastRoomEvent(i, r)
    <3>1. PICK r \in Rooms : BroadcastRoomEvent(i, r)
      BY <2>1
    <3>2. {k \in roomSubscriptions[r] \ {i} : connections[k] # None}
            = {k \in Identities \ {i} : r \in Entered(k)}
      BY <1>0 DEF RelayTypeOK, TablesAgree, Entered
    <3>3. {k \in Identities \ {i} : r \in Entered(k)}
            = {k \in Identities \ {i} :
                 r \in [j \in Identities |-> Entered(j)][k]}
      BY SMT, Z3
    <3>4. Contract!Gossip(i, r)
      BY <3>1, <3>2, <3>3 DEF BroadcastRoomEvent, Contract!Gossip, Entered
    <3>5. \E j \in Identities, q \in Rooms : Contract!Gossip(j, q)
      BY <3>4
    <3>. QED
      BY <3>5 DEF Contract!ContractNext
  <2>2. CASE \E j \in Identities, kind \in Kinds : Forward(i, j, kind)
    <3>1. PICK j \in Identities, kind \in Kinds : Forward(i, j, kind)
      BY <2>2
    <3>2. Contract!SendTo(i, j, kind)
      BY <3>1 DEF Forward, Contract!SendTo
    <3>3. \E k, l \in Identities, q \in Kinds : Contract!SendTo(k, l, q)
      BY <3>2
    <3>. QED
      BY <3>3 DEF Contract!ContractNext
  <2>. QED
    BY <2>1, <2>2
<1>. QED
  BY <1>3, <1>4 DEF Kept

\* A step that nothing is delivered by and that leaves the tables alone.
LEMMA QuietStep ==
  ASSUME routed' = {}, UNCHANGED <<connections, roomSubscriptions>>
  PROVE  Contract!ContractNext
<1>1. Contract!Quiet
  BY DEF Contract!Quiet
<1>. QED
  BY <1>1 DEF Contract!ContractNext

\* A socket is opened: it is new, so it was no connection.
LEMMA OpenStep ==
  ASSUME RelayInv, NEW s \in Sockets, NEW i \in Identities,
         HandleWebSocketUpgrade(s, i)
  PROVE  RelayInv' /\ Kept
<1>1. /\ phase[s] = "unused"
      /\ phase' = [phase EXCEPT ![s] = "open"]
      /\ claim' = [claim EXCEPT ![s] = i]
      /\ pending' = pending \cup {s}
      /\ routed' = {}
      /\ UNCHANGED <<connections, socketIdentity, rooms, roomSubscriptions, view>>
  BY DEF HandleWebSocketUpgrade
<1>2. RelayTypeOK' /\ Claimed'
  BY SMT, Z3, <1>1 DEF RelayInv, RelayTypeOK, Claimed, Phases
<1>3. \A j \in Identities : connections[j] # s
  BY <1>1, RelayAssumption DEF RelayInv, Placed
<1>4. Placed'
  BY SMT, Z3, <1>1, <1>3 DEF RelayInv, RelayTypeOK, Placed
<1>. QED
  BY <1>1, <1>2, <1>4, SocketStep, QuietStep DEF Kept

\* A socket that is no connection moves on to a later phase.
LEMMA IdleSocketStep ==
  ASSUME RelayInv, NEW s \in Sockets, NEW q \in {"closing", "closed"},
         phase[s] # "unused",
         \A j \in Identities : connections[j] # s,
         phase' = [phase EXCEPT ![s] = q],
         pending' = pending \/ pending' = pending \ {s},
         claim' = claim,
         socketIdentity' \in [Sockets -> Identities \cup {None}],
         UNCHANGED <<connections, rooms, roomSubscriptions, view>>,
         routed' = {}
  PROVE  RelayInv' /\ Kept
<1>1. RelayTypeOK' /\ Claimed'
  BY DEF RelayInv, RelayTypeOK, Claimed, Phases
<1>2. Placed'
  BY SMT, Z3 DEF RelayInv, RelayTypeOK, Placed
<1>. QED
  BY <1>1, <1>2, SocketStep, QuietStep DEF Kept

\* Nobody is connected to a relay that has lost its memory.
LEMMA HibernateStep ==
  ASSUME RelayInv, Hibernate
  PROVE  RelayInv' /\ Kept
<1>1. RelayInv'
  BY DEF RelayInv, RelayTypeOK, Placed, Claimed, TablesAgree, Online, Hibernate
<1>2. Contract!Forget
  BY DEF Hibernate, Contract!Forget
<1>3. EndsWithOwnSocket
  BY DEF EndsWithOwnSocket, Hibernate, Online
<1>. QED
  BY <1>1, <1>2, <1>3 DEF Kept, Contract!ContractNext

----------------------------------------------------------------------------
(* The worker.                                                              *)

\* The empty tables of a new relay agree.
LEMMA InitRelayInv == RelayInit => WorkerInv /\ Contract!ContractInit
BY SMT, Z3, RelayAssumption DEF RelayInit, WorkerInv, RelayInv, RelayTypeOK,
     Phases, Placed, Claimed, TablesAgree, Online, SocketsAgree,
     Contract!ContractInit

\* Every handler of the worker is one of the steps above.
LEMMA WorkerStep ==
  ASSUME WorkerInv, RelayNext
  PROVE  WorkerInv' /\ Kept
<1>0. RelayInv /\ SocketsAgree /\ RelayTypeOK /\ Placed /\ Claimed
  BY DEF WorkerInv, RelayInv
<1>1. ASSUME NEW s \in Sockets, NEW i \in Identities, HandleWebSocketUpgrade(s, i)
      PROVE  WorkerInv' /\ Kept
  BY <1>0, <1>1, OpenStep DEF WorkerInv, SocketsAgree, HandleWebSocketUpgrade
<1>2. ASSUME NEW s \in Sockets, HandleAuth(s) PROVE WorkerInv' /\ Kept
  <2>1. /\ claim[s] \in Identities
        /\ \A j \in Identities : connections[j] # s
    BY <1>0, <1>2, RelayAssumption DEF HandleAuth, Placed, Claimed
  <2>2. socketIdentity' \in [Sockets -> Identities \cup {None}]
    BY <1>0, <1>2, <2>1 DEF HandleAuth, RelayTypeOK
  <2>3. RelayInv' /\ Kept
    BY <1>0, <1>2, <2>2, TakeOverStep DEF HandleAuth
  <2>4. SocketsAgree'
    <3>1. connections' = [connections EXCEPT ![claim[s]] = s]
      BY <1>2 DEF HandleAuth, TakeOver
    <3>2. \A j \in Identities : j # claim[s] /\ connections[j] # None =>
            connections[j] \in Sockets /\ connections[j] # connections[claim[s]]
      BY <1>0, <2>1 DEF RelayTypeOK, Placed
    <3>. QED
      BY <1>0, <1>2, <2>1, <3>1, <3>2 DEF HandleAuth, SocketsAgree, RelayTypeOK
  <2>. QED
    BY <2>3, <2>4 DEF WorkerInv
<1>3. ASSUME NEW s \in Sockets, RejectAuth(s) PROVE WorkerInv' /\ Kept
  <2>1. \A j \in Identities : connections[j] # s
    BY SMT, Z3, <1>0, <1>3, RelayAssumption DEF RejectAuth, IsConnection,
         Placed, SocketsAgree, RelayTypeOK
  <2>2. RelayInv' /\ Kept
    BY <1>0, <1>3, <2>1, IdleSocketStep DEF RejectAuth, RelayTypeOK
  <2>3. SocketsAgree'
    BY <1>0, <1>3 DEF RejectAuth, SocketsAgree
  <2>. QED
    BY <2>2, <2>3 DEF WorkerInv
<1>4. ASSUME NEW s \in Sockets, DropSocket(s) PROVE WorkerInv' /\ Kept
  <2>1. /\ socketIdentity' = [socketIdentity EXCEPT ![s] = None]
        /\ socketIdentity' \in [Sockets -> Identities \cup {None}]
        /\ phase[s] \in {"open", "closing"}
        /\ phase' = [phase EXCEPT ![s] = "closed"]
        /\ pending' = pending \ {s} /\ claim' = claim /\ routed' = {}
    BY <1>0, <1>4 DEF DropSocket, RelayTypeOK
  <2>2. CASE IsConnection(s)
    <3>1. /\ socketIdentity[s] \in Identities
          /\ connections[socketIdentity[s]] = s
      BY <1>0, <2>2 DEF IsConnection, RelayTypeOK
    <3>2. RemoveConnection(socketIdentity[s])
      BY <1>4, <2>2 DEF DropSocket
    <3>3. RelayInv' /\ Kept
      BY <1>0, <2>1, <3>1, <3>2, RemoveStep
    <3>4. \A j \in Identities : connections'[j] # None =>
            connections'[j] = connections[j] /\ connections[j] # s
      BY <1>0, <3>1, <3>2 DEF RemoveConnection, RelayTypeOK, Placed
    <3>5. SocketsAgree'
      BY SMT, Z3, <1>0, <2>1, <3>4 DEF SocketsAgree, RelayTypeOK
    <3>. QED
      BY <3>3, <3>5 DEF WorkerInv
  <2>3. CASE ~IsConnection(s)
    <3>1. \A j \in Identities : connections[j] # s
      BY <1>0, <2>3, RelayAssumption DEF IsConnection, SocketsAgree, RelayTypeOK
    <3>2. UNCHANGED <<connections, rooms, roomSubscriptions, view>>
      BY <1>4, <2>3 DEF DropSocket
    <3>3. RelayInv' /\ Kept
      BY <1>0, <2>1, <3>1, <3>2, IdleSocketStep
    <3>4. SocketsAgree'
      BY <1>0, <2>1, <3>1, <3>2 DEF SocketsAgree, RelayTypeOK
    <3>. QED
      BY <3>3, <3>4 DEF WorkerInv
  <2>. QED
    BY <2>2, <2>3
<1>5. ASSUME NEW s \in Sockets, WebSocketMessage(s) PROVE WorkerInv' /\ Kept
  <2>. DEFINE i == socketIdentity[s]
  <2>1. i \in Identities /\ connections[i] # None
    BY <1>0, <1>5, RelayAssumption DEF WebSocketMessage, IsConnection,
         RelayTypeOK
  <2>2. RelayInv' /\ Kept
    <3>1. CASE /\ \E r \in Rooms : SubscribeRoom(i, r) \/ UnsubscribeRoom(i, r)
               /\ routed' = {}
      BY <1>0, <1>5, <2>1, <3>1, RoomsStep DEF WebSocketMessage
    <3>2. CASE /\ \/ \E r \in Rooms : BroadcastRoomEvent(i, r)
                  \/ \E j \in Identities, kind \in Kinds : Forward(i, j, kind)
               /\ UNCHANGED <<rooms, roomSubscriptions>>
      BY <1>0, <1>5, <2>1, <3>2, RouteStep DEF WebSocketMessage
    <3>. QED
      BY <1>5, <3>1, <3>2 DEF WebSocketMessage
  <2>3. SocketsAgree'
    BY <1>0, <1>5 DEF WebSocketMessage, SocketsAgree
  <2>. QED
    BY <2>2, <2>3 DEF WorkerInv
<1>6. ASSUME Hibernate PROVE WorkerInv' /\ Kept
  BY <1>0, <1>6, HibernateStep DEF WorkerInv, SocketsAgree, Hibernate
<1>. QED
  BY <1>1, <1>2, <1>3, <1>4, <1>5, <1>6 DEF RelayNext

----------------------------------------------------------------------------
(* The self-hosted relay.                                                   *)

\* Every handler of the self-hosted relay is one of the steps above.  It asks
\* the connection of the identity in the socket's URL, which Placed shows to
\* be as good as the worker's map.
LEMMA StandaloneStep ==
  ASSUME RelayInv, StandaloneNext
  PROVE  RelayInv' /\ Kept
<1>0. RelayTypeOK /\ Placed /\ Claimed
  BY DEF RelayInv
<1>1. ASSUME NEW s \in Sockets, phase[s] = "open", s \notin pending, IsClient(s)
      PROVE  claim[s] \in Identities /\ connections[claim[s]] # None
  BY <1>0, <1>1, RelayAssumption DEF IsClient, Claimed
<1>2. ASSUME NEW s \in Sockets, NEW i \in Identities, Open(s, i)
      PROVE  RelayInv' /\ Kept
  BY <1>2, OpenStep DEF Open
<1>3. ASSUME NEW s \in Sockets, Authenticate(s) PROVE RelayInv' /\ Kept
  BY <1>0, <1>3, TakeOverStep DEF Authenticate, RelayTypeOK
<1>4. ASSUME NEW s \in Sockets, AuthenticationFailed(s) PROVE RelayInv' /\ Kept
  <2>1. \A j \in Identities : connections[j] # s
    BY <1>0, <1>4, RelayAssumption DEF AuthenticationFailed, Placed
  <2>. QED
    BY <1>0, <1>4, <2>1, IdleSocketStep DEF AuthenticationFailed, RelayTypeOK
<1>5. ASSUME NEW s \in Sockets, SocketClosed(s) PROVE RelayInv' /\ Kept
  <2>1. /\ socketIdentity' \in [Sockets -> Identities \cup {None}]
        /\ claim[s] \in Identities
        /\ phase[s] \in {"open", "closing"}
        /\ phase' = [phase EXCEPT ![s] = "closed"]
        /\ pending' = pending \ {s} /\ claim' = claim /\ routed' = {}
    BY <1>0, <1>5 DEF SocketClosed, RelayTypeOK, Claimed
  <2>2. CASE s \notin pending /\ IsClient(s)
    BY <1>5, <2>1, <2>2, RemoveStep DEF SocketClosed, IsClient
  <2>3. CASE ~(s \notin pending /\ IsClient(s))
    <3>1. \A j \in Identities : connections[j] # s
      BY <1>0, <2>3, RelayAssumption DEF IsClient, Placed
    <3>2. UNCHANGED <<connections, rooms, roomSubscriptions, view>>
      BY <1>5, <2>3 DEF SocketClosed
    <3>. QED
      BY <2>1, <3>1, <3>2, IdleSocketStep
  <2>. QED
    BY <2>2, <2>3
<1>6. ASSUME NEW s \in Sockets, HandleRooms(s) PROVE RelayInv' /\ Kept
  BY <1>1, <1>6, RoomsStep DEF HandleRooms
<1>7. ASSUME NEW s \in Sockets, HandleRoomEvent(s) PROVE RelayInv' /\ Kept
  BY <1>1, <1>7, RouteStep DEF HandleRoomEvent
<1>8. ASSUME NEW s \in Sockets, HandleForward(s) PROVE RelayInv' /\ Kept
  BY <1>1, <1>8, RouteStep DEF HandleForward
<1>. QED
  BY <1>2, <1>3, <1>4, <1>5, <1>6, <1>7, <1>8 DEF StandaloneNext

----------------------------------------------------------------------------
(* The theorems.                                                            *)

\* A step that changes nothing preserves the invariant and is a stutter of
\* the contract.
LEMMA Stutter ==
  ASSUME UNCHANGED relayVars
  PROVE  /\ RelayInv => RelayInv'
         /\ WorkerInv => WorkerInv'
         /\ UNCHANGED Contract!contractVars
<1>1. RelayInv => RelayInv'
  BY DEF relayVars, RelayInv, RelayTypeOK, Placed, Claimed, TablesAgree, Online
<1>2. SocketsAgree => SocketsAgree'
  BY DEF relayVars, SocketsAgree
<1>3. UNCHANGED Contract!contractVars
  BY DEF relayVars, Contract!contractVars
<1>. QED
  BY <1>1, <1>2, <1>3 DEF WorkerInv

\* The worker's tables satisfy the inductive invariant in every reachable
\* state, hibernation included.
THEOREM WorkerInvariant == RelaySpec => []WorkerInv
<1>1. WorkerInv /\ [RelayNext]_relayVars => WorkerInv'
  BY WorkerStep, Stutter
<1>. QED
  BY <1>1, InitRelayInv, PTL DEF RelaySpec

\* So do the tables of the self-hosted relay, without the map of sockets.
THEOREM StandaloneInvariant == StandaloneSpec => []RelayInv
<1>1. RelayInit => RelayInv
  BY InitRelayInv DEF WorkerInv
<1>2. RelayInv /\ [StandaloneNext]_relayVars => RelayInv'
  BY StandaloneStep, Stutter
<1>. QED
  BY <1>1, <1>2, PTL DEF StandaloneSpec

\* In both relays the subscriptions are those of the connections there are,
\* and every connected client's picture of who is online is the table.
THEOREM TablesAlwaysAgree == RelaySpec \/ StandaloneSpec => []TablesAgree
<1>1. RelayInv => TablesAgree
  BY DEF RelayInv
<1>2. WorkerInv => RelayInv
  BY DEF WorkerInv
<1>. QED
  BY <1>1, <1>2, WorkerInvariant, StandaloneInvariant, PTL

\* In both relays the late close of a replaced socket leaves the new
\* connection alone.
THEOREM LateClosesAreHarmless == RelaySpec \/ StandaloneSpec => LateCloseHarmless
<1>1. WorkerInv /\ [RelayNext]_relayVars => [EndsWithOwnSocket]_relayVars
  BY WorkerStep DEF Kept
<1>2. RelayInv /\ [StandaloneNext]_relayVars => [EndsWithOwnSocket]_relayVars
  BY StandaloneStep DEF Kept
<1>. QED
  BY <1>1, <1>2, WorkerInvariant, StandaloneInvariant, PTL
     DEF RelaySpec, StandaloneSpec, LateCloseHarmless

\* Both relays implement the contract: a message goes from a connected
\* identity to exactly those it is meant for.
THEOREM RelaysKeepContract == RelaySpec \/ StandaloneSpec => KeepsContract
<1>1. RelayInit => Contract!ContractInit
  BY InitRelayInv
<1>2. WorkerInv /\ [RelayNext]_relayVars
        => [Contract!ContractNext]_Contract!contractVars
  BY WorkerStep, Stutter DEF Kept
<1>3. RelayInv /\ [StandaloneNext]_relayVars
        => [Contract!ContractNext]_Contract!contractVars
  BY StandaloneStep, Stutter DEF Kept
<1>. QED
  BY <1>1, <1>2, <1>3, WorkerInvariant, StandaloneInvariant, PTL
     DEF RelaySpec, StandaloneSpec, KeepsContract, Contract!ContractSpec


----------------------------------------------------------------------------
(* The moderation of a room.                                                *)

RoomMessages == [user : Users, text : Texts, at : Nat]
Bans == [user : Users, from : Nat, until : Nat, why : {"spam", "kick"}]

\* A ban that was given and is not over stands, or one that lasts longer, and
\* whoever has sent a message since was not banned then.
RoomInv ==
  /\ now \in Nat \ {0}
  /\ bans \in [Users -> Nat]
  /\ banned \subseteq Bans
  /\ \A b \in banned :
       /\ b.from <= now /\ b.until = b.from + SPAM_BAN_MS
       /\ now < b.until => b.until <= bans[b.user]
  /\ sent \in Seq(RoomMessages)
  /\ \A i \in DOMAIN sent : sent[i].at <= now
  /\ SilentWhileBanned

\* The votes of a votekick were given since it was started.
VotesInv ==
  /\ voted \in [Users -> [Users -> Nat]]
  /\ votekicks \in [Users -> [votes : SUBSET Users, startedAt : Nat]]
  /\ \A t \in Users : votekicks[t].startedAt <= now
  /\ \A t \in Users : \A v \in votekicks[t].votes :
       /\ voted[t][v] # 0
       /\ votekicks[t].startedAt <= voted[t][v]

\* What the invariant says of a ban and of a message.
LEMMA RoomRecords ==
  ASSUME RoomInv
  PROVE  /\ \A b \in banned :
              /\ b.user \in Users /\ b.from \in Nat /\ b.until \in Nat
              /\ b.from <= now /\ b.until = b.from + SPAM_BAN_MS
              /\ now < b.until => b.until <= bans[b.user]
         /\ \A i \in DOMAIN sent : sent[i].at \in Nat /\ sent[i].at <= now
         /\ now \in Nat \ {0} /\ bans \in [Users -> Nat]
<1>1. ASSUME NEW b \in banned
      PROVE  b.user \in Users /\ b.from \in Nat /\ b.until \in Nat
  <2>1. b \in Bans
    BY DEF RoomInv
  <2> QED
    BY <2>1 DEF Bans
<1>2. ASSUME NEW i \in DOMAIN sent
      PROVE  sent[i].at \in Nat
  <2>1. sent \in Seq(RoomMessages)
    BY DEF RoomInv
  <2>2. sent[i] \in RoomMessages
    BY SMT, Z3, <2>1
  <2> QED
    BY <2>2 DEF RoomMessages
<1>3. now \in Nat \ {0} /\ bans \in [Users -> Nat]
  BY DEF RoomInv
<1> QED
  BY <1>1, <1>2, <1>3 DEF RoomInv

\* checkCooldown forgets a ban that is over.
LEMMA BanForgotten ==
  ASSUME RoomInv, NEW u \in Users, ~IsBanned(u)
  PROVE  \A b \in banned : b.user = u => ~(now < b.until)
<1> SUFFICES ASSUME NEW b \in banned, b.user = u, now < b.until
             PROVE  FALSE
  BY SMT, Z3
<1>1. b.until <= bans[u] /\ b.until \in Nat /\ bans[u] \in Nat /\ now \in Nat
  BY RoomRecords
<1> QED
  BY SMT, Z3, <1>1 DEF IsBanned

\* A ban replaces a shorter one.
LEMMA BanKeeps ==
  ASSUME RoomInv, NEW u \in Users, NEW why \in {"spam", "kick"}, Ban(u, why),
         UNCHANGED <<now, sent>>
  PROVE  RoomInv'
<1>1. PICK new : new = [user |-> u, from |-> now, until |-> now + SPAM_BAN_MS,
                        why |-> why]
  OBVIOUS
<1>2. SPAM_BAN_MS \in Nat /\ now \in Nat \ {0}
  BY SMT, Z3 DEF SPAM_BAN_MS, RoomInv
<1> HIDE DEF SPAM_BAN_MS
<1>3. /\ bans' = [bans EXCEPT ![u] = now + SPAM_BAN_MS]
      /\ banned' = banned \cup {new}
  BY <1>1 DEF Ban
<1>4. /\ new \in Bans /\ new.user = u /\ new.from = now
      /\ new.until = now + SPAM_BAN_MS
  BY SMT, Z3, <1>1, <1>2 DEF Bans
<1>5. /\ bans' \in [Users -> Nat] /\ bans'[u] = now + SPAM_BAN_MS
      /\ \A v \in Users \ {u} : bans'[v] = bans[v]
  BY SMT, Z3, <1>2, <1>3 DEF RoomInv
<1>6. ASSUME NEW b \in banned'
      PROVE  /\ b.from <= now /\ b.until = b.from + SPAM_BAN_MS
             /\ now < b.until => b.until <= bans'[b.user]
  <2>1. CASE b = new
    BY SMT, Z3, <1>2, <1>4, <1>5, <2>1
  <2>2. CASE b \in banned
    <3>1. /\ b.user \in Users /\ b.from \in Nat /\ b.from <= now
          /\ b.until = b.from + SPAM_BAN_MS
          /\ now < b.until => b.until <= bans[b.user]
      BY <2>2, RoomRecords
    <3> QED
      BY SMT, Z3, <1>2, <1>5, <3>1
  <2> QED
    BY <1>3, <2>1, <2>2
<1>7. SilentWhileBanned'
  <2>1. ASSUME NEW b \in banned', NEW i \in DOMAIN sent, sent[i].user = b.user
        PROVE  ~(b.from < sent[i].at /\ sent[i].at < b.until)
    <3>1. CASE b = new
      <4>1. sent[i].at \in Nat /\ sent[i].at <= now
        BY RoomRecords
      <4> QED
        BY SMT, Z3, <1>2, <1>4, <3>1, <4>1
    <3>2. CASE b \in banned
      BY <2>1, <3>2 DEF RoomInv, SilentWhileBanned
    <3> QED
      BY <1>3, <3>1, <3>2
  <2> QED
    BY <2>1 DEF SilentWhileBanned
<1> QED
  BY <1>3, <1>4, <1>5, <1>6, <1>7 DEF RoomInv

\* A message is only sent by somebody who is not banned.
LEMMA MessageKeeps ==
  ASSUME RoomInv, NEW u \in Users, NEW text \in Texts, SendRoomMessage(u, text)
  PROVE  RoomInv'
<1>1. PICK new : new = [user |-> u, text |-> text, at |-> now]
  OBVIOUS
<1>2. /\ bans' = [bans EXCEPT ![u] = 0] /\ sent' = Append(sent, new)
      /\ UNCHANGED <<now, banned>>
  BY <1>1 DEF SendRoomMessage
<1>3. /\ new \in RoomMessages
      /\ new.user = u /\ new.at = now /\ now \in Nat \ {0}
  BY <1>1 DEF RoomInv, RoomMessages
<1>4. /\ bans' \in [Users -> Nat] /\ \A v \in Users \ {u} : bans'[v] = bans[v]
  BY <1>2 DEF RoomInv
<1>5. \A b \in banned : b.user = u => ~(now < b.until)
  BY BanForgotten DEF SendRoomMessage
<1>6. /\ sent' \in Seq(RoomMessages)
      /\ DOMAIN sent' = DOMAIN sent \cup {Len(sent) + 1}
      /\ sent'[Len(sent) + 1] = new
      /\ \A i \in DOMAIN sent : sent'[i] = sent[i]
  BY SMT, Z3, <1>2, <1>3 DEF RoomInv
<1>7. \A i \in DOMAIN sent' : sent'[i].at <= now
  BY SMT, Z3, <1>3, <1>6 DEF RoomInv
<1>8. SilentWhileBanned'
  <2>1. ASSUME NEW b \in banned, NEW i \in DOMAIN sent', sent'[i].user = b.user
        PROVE  ~(b.from < sent'[i].at /\ sent'[i].at < b.until)
    <3>1. CASE i \in DOMAIN sent
      BY <1>6, <2>1, <3>1 DEF RoomInv, SilentWhileBanned
    <3>2. CASE i = Len(sent) + 1
      BY <1>3, <1>5, <1>6, <2>1, <3>2
    <3> QED
      BY <1>6, <3>1, <3>2
  <2> QED
    BY <1>2, <2>1 DEF SilentWhileBanned
<1>9. \A b \in banned : now < b.until => b.until <= bans'[b.user]
  BY <1>4, <1>5, RoomRecords
<1> QED
  BY <1>2, <1>4, <1>6, <1>7, <1>8, <1>9 DEF RoomInv

\* Every step of a room keeps the invariant.
LEMMA NextRoomInv == RoomInv /\ [RoomNext]_roomVars => RoomInv'
<1> SUFFICES ASSUME RoomInv, [RoomNext]_roomVars
             PROVE  RoomInv'
  BY SMT, Z3
<1>1. ASSUME UNCHANGED <<now, bans, banned, sent>>
      PROVE  RoomInv'
  BY <1>1 DEF RoomInv, SilentWhileBanned
<1>2. ASSUME NEW u \in Users, NEW text \in Texts, RefuseRoomMessage(u, text)
      PROVE  RoomInv'
  <2>1. bans' = [bans EXCEPT ![u] = 0] /\ UNCHANGED <<now, banned, sent>>
    BY <1>2 DEF RefuseRoomMessage
  <2>2. /\ bans' \in [Users -> Nat] /\ \A v \in Users \ {u} : bans'[v] = bans[v]
    BY <2>1 DEF RoomInv
  <2>3. \A b \in banned : b.user = u => ~(now < b.until)
    BY <1>2, BanForgotten DEF RefuseRoomMessage
  <2>4. \A b \in banned : now < b.until => b.until <= bans'[b.user]
    BY <2>2, <2>3, RoomRecords
  <2> QED
    BY <2>1, <2>2, <2>4 DEF RoomInv, SilentWhileBanned
<1>3. ASSUME NEW u \in Users, NEW text \in Texts, AutomodBan(u, text)
      PROVE  RoomInv'
  BY <1>3, BanKeeps DEF AutomodBan
<1>4. ASSUME NEW t \in Users, NEW u \in Users, StartVotekick(t, u)
      PROVE  RoomInv'
  BY <1>1, <1>4 DEF StartVotekick
<1>5. ASSUME NEW t \in Users, NEW u \in Users, VoteKick(t, u)
      PROVE  RoomInv'
  <2>1. \/ Ban(t, "kick") /\ UNCHANGED <<now, sent>>
        \/ UNCHANGED <<now, bans, banned, sent>>
    BY <1>5 DEF VoteKick
  <2> QED
    BY <1>1, <2>1, BanKeeps
<1>6. ASSUME Wait
      PROVE  RoomInv'
  <2>1. PICK step \in Steps : now' = now + step
    BY <1>6 DEF Wait
  <2>2. now \in Nat \ {0} /\ step \in Nat /\ now' \in Nat \ {0} /\ now <= now'
    BY SMT, Z3, <2>1, RoomsAssumption DEF RoomInv
  <2>3. UNCHANGED <<bans, banned, sent>>
    BY <1>6 DEF Wait
  <2>4. ASSUME NEW b \in banned
        PROVE  b.from <= now' /\ (now' < b.until => b.until <= bans[b.user])
    <3>1. b.from \in Nat /\ b.until \in Nat /\ b.from <= now
          /\ (now < b.until => b.until <= bans[b.user])
      BY RoomRecords
    <3> QED
      BY SMT, Z3, <2>2, <3>1
  <2>5. ASSUME NEW i \in DOMAIN sent
        PROVE  sent[i].at <= now'
    <3>1. sent[i].at \in Nat /\ sent[i].at <= now
      BY SMT, Z3, RoomRecords
    <3> QED
      BY SMT, Z3, <2>2, <3>1
  <2> QED
    BY <2>2, <2>3, <2>4, <2>5 DEF RoomInv, SilentWhileBanned
<1>7. CASE UNCHANGED roomVars
  BY SMT, Z3, <1>1, <1>7 DEF roomVars
<1> QED
  BY <1>2, <1>3, <1>4, <1>5, <1>6, <1>7, MessageKeeps, RoomsAssumption DEF
       RoomNext


\* A vote against a target is recorded with the time; the other records stay.
VoteGiven(t, u) ==
  /\ voted' \in [Users -> [Users -> Nat]]
  /\ voted'[t][u] = now
  /\ \A s, v \in Users : s # t \/ v # u => voted'[s][v] = voted[s][v]

\* startVotekick and voteKick record the vote.
LEMMA VoteRecorded ==
  ASSUME VotesInv, now \in Nat \ {0}, NEW t \in Users, NEW u \in Users,
         voted' = [voted EXCEPT ![t][u] = now]
  PROVE  VoteGiven(t, u)
<1>1. voted \in [Users -> [Users -> Nat]]
  BY SMT, Z3 DEF VotesInv
<1>2. voted' = [voted EXCEPT ![t] = [voted[t] EXCEPT ![u] = now]]
  BY SMT, Z3
<1>3. voted[t] \in [Users -> Nat]
  BY SMT, Z3, <1>1
<1>4. [voted[t] EXCEPT ![u] = now] \in [Users -> Nat]
  BY SMT, Z3, <1>3
<1> QED
  BY SMT, Z3, <1>1, <1>2, <1>3, <1>4 DEF VoteGiven

\* What the invariant says of a votekick.
LEMMA VotekickRecords ==
  ASSUME VotesInv, NEW t \in Users
  PROVE  /\ votekicks[t].votes \subseteq Users
         /\ votekicks[t].startedAt \in Nat /\ votekicks[t].startedAt <= now
         /\ \A v \in votekicks[t].votes :
              /\ voted[t][v] \in Nat \ {0}
              /\ votekicks[t].startedAt <= voted[t][v]
<1>1. votekicks[t] \in [votes : SUBSET Users, startedAt : Nat]
  BY SMT, Z3 DEF VotesInv
<1>2. votekicks[t].votes \subseteq Users /\ votekicks[t].startedAt \in Nat
  BY SMT, Z3, <1>1
<1> QED
  BY SMT, Z3, <1>2 DEF VotesInv

\* A votekick whose votes were given since it was started takes the place of the
\* target's old one.
LEMMA VotekickReplaced ==
  ASSUME VotesInv, now \in Nat \ {0}, NEW t \in Users, NEW u \in Users,
         NEW all \in SUBSET Users, NEW start \in Nat, start <= now,
         \A v \in all \ {u} : v \in votekicks[t].votes /\ start = votekicks[t].startedAt,
         VoteGiven(t, u), now' = now,
         votekicks' = [votekicks EXCEPT ![t] = [votes |-> all, startedAt |-> start]]
  PROVE  VotesInv'
<1>1. /\ voted' \in [Users -> [Users -> Nat]]
      /\ voted'[t][u] = now
      /\ \A s, v \in Users : s # t \/ v # u => voted'[s][v] = voted[s][v]
  BY SMT, Z3 DEF VoteGiven
<1>2. /\ votekicks' \in [Users -> [votes : SUBSET Users, startedAt : Nat]]
      /\ votekicks'[t].votes = all /\ votekicks'[t].startedAt = start
      /\ \A s \in Users \ {t} : votekicks'[s] = votekicks[s]
  BY SMT, Z3 DEF VotesInv
<1>3. ASSUME NEW v \in all
      PROVE  voted'[t][v] # 0 /\ start <= voted'[t][v]
  <2>1. CASE v = u
    BY SMT, Z3, <1>1, <2>1
  <2>2. CASE v # u
    <3>1. v \in votekicks[t].votes /\ start = votekicks[t].startedAt
      BY SMT, Z3, <2>2
    <3>2. voted[t][v] \in Nat \ {0} /\ start <= voted[t][v]
      BY SMT, Z3, <3>1, VotekickRecords
    <3> QED
      BY SMT, Z3, <1>1, <2>2, <3>2
  <2> QED
    BY SMT, Z3, <2>1, <2>2
<1>4. ASSUME NEW s \in Users, s # t, NEW v \in votekicks[s].votes
      PROVE  voted'[s][v] # 0 /\ votekicks[s].startedAt <= voted'[s][v]
  <2>1. v \in Users /\ voted[s][v] \in Nat \ {0} /\ votekicks[s].startedAt <= voted[s][v]
    BY SMT, Z3, VotekickRecords
  <2> QED
    BY SMT, Z3, <1>1, <1>4, <2>1
<1>5. \A s \in Users : votekicks'[s].startedAt <= now'
  BY SMT, Z3, <1>2 DEF VotesInv
<1>6. \A s \in Users : \A v \in votekicks'[s].votes :
         voted'[s][v] # 0 /\ votekicks'[s].startedAt <= voted'[s][v]
  BY SMT, Z3, <1>2, <1>3, <1>4
<1> QED
  BY SMT, Z3, <1>1, <1>2, <1>5, <1>6 DEF VotesInv

\* Every step of a room keeps the votes.
LEMMA NextVotesInv == RoomInv /\ VotesInv /\ [RoomNext]_roomVars => VotesInv'
<1> SUFFICES ASSUME RoomInv, VotesInv, [RoomNext]_roomVars
             PROVE  VotesInv'
  BY SMT, Z3
<1>0. now \in Nat \ {0}
  BY SMT, Z3 DEF RoomInv
<1>1. ASSUME UNCHANGED <<now, votekicks, voted>>
      PROVE  VotesInv'
  BY SMT, Z3, <1>1 DEF VotesInv
<1>2. ASSUME NEW u \in Users, NEW text \in Texts,
             \/ SendRoomMessage(u, text)
             \/ RefuseRoomMessage(u, text)
             \/ AutomodBan(u, text)
      PROVE  VotesInv'
  BY SMT, Z3, <1>1, <1>2 DEF SendRoomMessage, RefuseRoomMessage, AutomodBan
<1>3. ASSUME NEW t \in Users, NEW u \in Users, StartVotekick(t, u)
      PROVE  VotesInv'
  <2>1. PICK all : all = {u}
    OBVIOUS
  <2>2. /\ voted' = [voted EXCEPT ![t][u] = now] /\ now' = now
        /\ votekicks' = [votekicks EXCEPT ![t] = [votes |-> all, startedAt |-> now]]
    BY SMT, Z3, <1>3, <2>1 DEF StartVotekick
  <2>3. /\ all \in SUBSET Users /\ now \in Nat /\ now <= now
        /\ \A v \in all \ {u} : v \in votekicks[t].votes /\ now = votekicks[t].startedAt
    BY SMT, Z3, <1>0, <2>1
  <2>4. VoteGiven(t, u)
    BY <1>0, <2>2, VoteRecorded
  <2> QED
    BY <1>0, <2>2, <2>3, <2>4, VotekickReplaced
<1>4. ASSUME NEW t \in Users, NEW u \in Users, VoteKick(t, u)
      PROVE  VotesInv'
  <2>1. PICK all : all = votekicks[t].votes \union {u}
    OBVIOUS
  <2>2. all \in SUBSET Users /\ votekicks[t].startedAt \in Nat
        /\ votekicks[t].startedAt <= now
    BY <2>1, VotekickRecords
  <2>3. VoteGiven(t, u) /\ now' = now
    <3>1. voted' = [voted EXCEPT ![t][u] = now] /\ now' = now
      BY <1>4 DEF VoteKick
    <3> QED
      BY <1>0, <3>1, VoteRecorded
  <2>4. CASE Cardinality(all) >= VOTES_NEEDED
    <3>1. votekicks' = [votekicks EXCEPT ![t] = [votes |-> {}, startedAt |-> 0]]
      BY <1>4, <2>1, <2>4 DEF VoteKick
    <3>2. PICK none : none = {}
      OBVIOUS
    <3>3. votekicks' = [votekicks EXCEPT ![t] = [votes |-> none, startedAt |-> 0]]
      BY <3>1, <3>2
    <3>4. /\ none \in SUBSET Users /\ 0 \in Nat /\ 0 <= now
          /\ \A v \in none \ {u} : v \in votekicks[t].votes /\ 0 = votekicks[t].startedAt
      BY SMT, Z3, <1>0, <3>2
    <3> QED
      BY <1>0, <2>3, <3>3, <3>4, VotekickReplaced
  <2>5. CASE ~(Cardinality(all) >= VOTES_NEEDED)
    <3>1. votekicks' = [votekicks EXCEPT ![t].votes = all]
      BY <1>4, <2>1, <2>5 DEF VoteKick
    <3>2. votekicks[t] \in [votes : SUBSET Users, startedAt : Nat]
      BY SMT, Z3 DEF VotesInv
    <3>3. [votekicks[t] EXCEPT !.votes = all]
            = [votes |-> all, startedAt |-> votekicks[t].startedAt]
      BY SMT, Z3, <3>2
    <3>4. votekicks' = [votekicks EXCEPT
                          ![t] = [votes |-> all, startedAt |-> votekicks[t].startedAt]]
      BY <3>1, <3>3
    <3>5. \A v \in all \ {u} : /\ v \in votekicks[t].votes
                               /\ votekicks[t].startedAt = votekicks[t].startedAt
      BY SMT, Z3, <2>1
    <3> QED
      BY <1>0, <2>2, <2>3, <3>4, <3>5, VotekickReplaced
  <2> QED
    BY <2>4, <2>5
<1>5. ASSUME Wait
      PROVE  VotesInv'
  <2>1. PICK step \in Steps : now' = now + step
    BY SMT, Z3, <1>5 DEF Wait
  <2>2. now' \in Nat /\ now <= now' /\ UNCHANGED <<votekicks, voted>>
    BY SMT, Z3, <1>0, <1>5, <2>1, RoomsAssumption DEF Wait
  <2>3. \A t \in Users : votekicks[t].startedAt <= now'
    BY SMT, Z3, <1>0, <2>2, VotekickRecords
  <2> QED
    BY SMT, Z3, <2>2, <2>3 DEF VotesInv
<1>6. CASE UNCHANGED roomVars
  BY SMT, Z3, <1>1, <1>6 DEF roomVars
<1> QED
  BY <1>2, <1>3, <1>4, <1>5, <1>6, RoomsAssumption DEF RoomNext

\* A kick takes three users whose votes are less than five minutes old.
LEMMA KickNeedsThree ==
  RoomInv /\ VotesInv /\ [RoomNext]_roomVars => KickNeedsThreeStep
<1> SUFFICES ASSUME RoomInv, VotesInv, [RoomNext]_roomVars, NEW t \in Users, Kicks(t)
             PROVE  Cardinality({v \in Users : /\ voted'[t][v] # 0
                                   /\ now < voted'[t][v] + VOTEKICK_WINDOW_MS})
                      >= VOTES_NEEDED
  BY DEF KickNeedsThreeStep
<1>0. now \in Nat \ {0}
  BY DEF RoomInv
<1>1. PICK b \in banned' \ banned : b.user = t /\ b.why = "kick"
  BY DEF Kicks
<1>2. ASSUME NEW u \in Users, NEW text \in Texts, AutomodBan(u, text)
      PROVE  FALSE
  <2>1. b = [user |-> u, from |-> now, until |-> now + SPAM_BAN_MS, why |-> "spam"]
    BY <1>1, <1>2 DEF AutomodBan, Ban
  <2>2. b.why = "spam"
    BY <2>1
  <2> QED
    BY <1>1, <2>2
<1>3. PICK target \in Users, u \in Users : VoteKick(target, u)
  BY <1>1, <1>2, RoomsAssumption DEF RoomNext, roomVars, SendRoomMessage,
       RefuseRoomMessage, StartVotekick, Wait
<1>4. PICK all : all = votekicks[target].votes \union {u}
  OBVIOUS
<1>5. Ban(target, "kick") /\ Cardinality(all) >= VOTES_NEEDED
  BY <1>1, <1>3, <1>4 DEF VoteKick
<1>6. target = t
  <2>1. b = [user |-> target, from |-> now, until |-> now + SPAM_BAN_MS, why |-> "kick"]
    BY <1>1, <1>5 DEF Ban
  <2>2. b.user = target
    BY <2>1
  <2> QED
    BY <1>1, <2>2
<1>7. PICK late : late = {v \in Users : /\ voted'[t][v] # 0
                                      /\ now < voted'[t][v] + VOTEKICK_WINDOW_MS}
  OBVIOUS
<1>8. /\ now < votekicks[t].startedAt + VOTEKICK_WINDOW_MS
      /\ voted' = [voted EXCEPT ![t][u] = now]
  BY <1>3, <1>6 DEF VoteKick, Votekick
<1>9. /\ voted'[t][u] = now
      /\ \A v \in Users : v # u => voted'[t][v] = voted[t][v]
  <2>1. voted' = [voted EXCEPT ![t][u] = now]
    BY <1>8
  <2>2. VoteGiven(t, u)
    BY <1>0, <2>1, VoteRecorded
  <2> QED
    BY <2>2 DEF VoteGiven
<1>10. VOTEKICK_WINDOW_MS \in Nat \ {0}
  BY SMT, Z3 DEF VOTEKICK_WINDOW_MS
<1>11. ASSUME NEW v \in all
       PROVE  v \in late
  <2>1. CASE v = u
    BY SMT, Z3, <1>0, <1>7, <1>9, <1>10, <2>1
  <2>2. CASE v # u
    <3>1. /\ v \in Users /\ voted[t][v] \in Nat \ {0}
          /\ votekicks[t].startedAt \in Nat /\ votekicks[t].startedAt <= voted[t][v]
      BY <1>4, <1>6, <2>2, VotekickRecords
    <3>2. voted'[t][v] = voted[t][v]
      BY <1>9, <2>2, <3>1
    <3>3. now < voted[t][v] + VOTEKICK_WINDOW_MS
      BY SMT, Z3, <1>0, <1>8, <1>10, <3>1
    <3> QED
      BY <1>7, <3>1, <3>2, <3>3
  <2> QED
    BY <2>1, <2>2
<1>12. late \subseteq Users /\ IsFiniteSet(late)
  BY <1>7, RoomsAssumption, FS_Subset
<1>13. Cardinality(all) <= Cardinality(late)
       /\ Cardinality(all) \in Nat /\ Cardinality(late) \in Nat
  <2>1. all \subseteq late
    BY <1>11
  <2>2. IsFiniteSet(all) /\ Cardinality(all) <= Cardinality(late)
    BY <1>12, <2>1, FS_Subset
  <2> QED
    BY <1>12, <2>2, FS_CardinalityType
<1>14. Cardinality(late) >= VOTES_NEEDED
  BY SMT, Z3, <1>5, <1>13 DEF VOTES_NEEDED
<1> QED
  BY <1>7, <1>14

\* Moderation is neither escaped nor forced, for any users, texts, rate limit and
\* clock: who is banned sends nothing until the ban ends, although a later ban
\* replaces it and checkCooldown forgets it when it is over, and voteKick bans
\* nobody without three voters of the last five minutes.
THEOREM ModerationIsKept == RoomSpec => ModerationHolds
<1>1. RoomInit => RoomInv /\ VotesInv
  <2> SUFFICES ASSUME RoomInit
               PROVE  RoomInv /\ VotesInv
    BY SMT, Z3
  <2>1. RoomInv
    BY SMT, Z3 DEF RoomInit, RoomInv, SilentWhileBanned
  <2>2. VotesInv
    BY SMT, Z3 DEF RoomInit, VotesInv
  <2> QED
    BY <2>1, <2>2
<1>2. RoomInv => SilentWhileBanned
  BY DEF RoomInv
<1> QED
  BY <1>1, <1>2, NextRoomInv, NextVotesInv, KickNeedsThree, PTL
     DEF RoomSpec, ModerationHolds

----------------------------------------------------------------------------
(* The screen: the status of the module's client.                           *)

\* The inductive invariant: what the screen promises, and the domain of link.
TuiInv ==
  /\ link \in [Calls -> {"idle", "opening", "up", "down", "stopped"}]
  /\ client \in Calls \cup {NoClient}
  /\ LiveClientShown

\* Every step of connectDev, of a client's events and of the user preserves
\* the invariant.
LEMMA NextTuiInv == TuiInv /\ [TuiNext]_tuiVars => TuiInv'
<1>. SUFFICES ASSUME TuiInv, [TuiNext]_tuiVars PROVE TuiInv'
  BY SMT, Z3
<1>. USE TuiAssumption DEF TuiInv, LiveClientShown, Current
<1>1. ASSUME NEW c \in Calls, ConnectDev(c) PROVE TuiInv'
  BY <1>1 DEF ConnectDev
<1>2. ASSUME NEW c \in Calls, ConnectResolves(c) PROVE TuiInv'
  BY <1>2 DEF ConnectResolves, EnterRooms
<1>3. ASSUME NEW c \in Calls, NEW refused \in BOOLEAN, ConnectRejects(c, refused)
      PROVE  TuiInv'
  BY <1>3 DEF ConnectRejects, Stopped
<1>4. ASSUME NEW c \in Calls, NEW outcome \in BOOLEAN,
             PublishSettles(c, outcome)
      PROVE  TuiInv'
  BY <1>4 DEF PublishSettles, EnterRooms
<1>5. ASSUME NEW c \in Calls, ConnectionLost(c) PROVE TuiInv'
  BY <1>5 DEF ConnectionLost
<1>6. ASSUME NEW c \in Calls, Reconnected(c) PROVE TuiInv'
  BY <1>6 DEF Reconnected
<1>7. ASSUME NEW c \in Calls, AuthFailed(c) PROVE TuiInv'
  BY <1>7 DEF AuthFailed, Stopped
<1>8. ASSUME DisconnectDev PROVE TuiInv'
  BY <1>8 DEF DisconnectDev, Stopped
<1>9. ASSUME UNCHANGED <<client, link, connStatus>> PROVE TuiInv'
  BY <1>9
<1>10. ASSUME NEW c \in Calls,
              UpkeepFailed(c) \/ \E peer \in Contacts : PresenceChanges(c, peer)
       PROVE  TuiInv'
  BY <1>9, <1>10 DEF UpkeepFailed, PresenceChanges
<1>11. ASSUME NEW m \in OwnTexts,
              \/ SendDevMessage(m) \/ ReceiptArrives(m)
              \/ \E queued \in BOOLEAN : SendSettles(m, queued)
       PROVE  TuiInv'
  BY <1>9, <1>11 DEF SendDevMessage, ReceiptArrives, SendSettles
<1>12. ASSUME UNCHANGED tuiVars PROVE TuiInv'
  BY <1>9, <1>12 DEF tuiVars
<1>. QED
  BY <1>1, <1>2, <1>3, <1>4, <1>5, <1>6, <1>7, <1>8, <1>10, <1>11, <1>12 DEF
       TuiNext

\* While the module's client is authenticated the screen says connected,
\* however many calls of connectDev overlap: the handlers' `client !== active`
\* tests keep the events of the others off the screen.
THEOREM LiveClientIsShown == TuiSpec => []LiveClientShown
<1>1. TuiInit => TuiInv
  BY SMT, Z3, TuiAssumption DEF TuiInit, TuiInv, LiveClientShown, Current
<1>2. TuiInv => LiveClientShown
  BY DEF TuiInv
<1>. QED
  BY <1>1, <1>2, NextTuiInv, PTL DEF TuiSpec

----------------------------------------------------------------------------
(* The relay connection.                                                    *)

Slots == [stage : Stages, current : BOOLEAN] \cup {Null}

IsUnderWay(slot) == slot # Null /\ slot.current

\* The inductive invariant, for an application that calls connect() only while
\* nothing is under way: a timer, an attempt or a socket is, never two of them,
\* so disconnect() reaches all there is.
ConnectionInv ==
  /\ armed \in BOOLEAN /\ timers = IF armed THEN 1 ELSE 0
  /\ connecting \in [Attempts -> Slots]
  /\ ws \in WebSockets \cup {Null}
  /\ online => ws # Null
  /\ armed => ws = Null
  /\ \A a \in Attempts : IsUnderWay(connecting[a]) =>
       /\ ~armed /\ ws = Null
       /\ \A b \in Attempts : IsUnderWay(connecting[b]) => b = a
  /\ intentionalClose =>
       ~armed /\ ws = Null /\ \A a \in Attempts : ~IsUnderWay(connecting[a])

\* No attempt that was superseded is under way.
LEMMA SupersededRests ==
  ASSUME ConnectionInv
  PROVE  /\ Superseded \in [Attempts -> Slots]
         /\ \A a \in Attempts : ~IsUnderWay(Superseded[a])
<1>1. \A slot \in Slots : slot # Null =>
        /\ [slot EXCEPT !.current = FALSE] \in [stage : Stages, current : BOOLEAN]
        /\ [slot EXCEPT !.current = FALSE].current = FALSE
  BY DEF Slots
<1>. QED
  BY <1>1 DEF Superseded, ConnectionInv, Slots, IsUnderWay

\* An attempt that ends leaves the others.
LEMMA SettledRests ==
  ASSUME ConnectionInv, NEW a \in Attempts
  PROVE  /\ Settled(a) \in [Attempts -> Slots] /\ ~IsUnderWay(Settled(a)[a])
         /\ \A b \in Attempts : b # a => Settled(a)[b] = connecting[b]
BY DEF Settled, ConnectionInv, Slots, IsUnderWay

\* What a step may leave under way: nothing, a socket, one attempt, or a timer.
Idle == ~armed' /\ ws' = Null /\ \A a \in Attempts : ~IsUnderWay(connecting'[a])

\* One of them keeps the invariant.
LEMMA OneUnderWay ==
  ASSUME armed' \in BOOLEAN, timers' = IF armed' THEN 1 ELSE 0,
         connecting' \in [Attempts -> Slots], ws' \in WebSockets \cup {Null},
         online' => ws' # Null,
         \/ Idle
         \/ /\ ~intentionalClose' /\ ~armed'
            /\ \A a \in Attempts : ~IsUnderWay(connecting'[a])
         \/ /\ ~intentionalClose' /\ ~armed' /\ ws' = Null
            /\ \E a \in Attempts : \A b \in Attempts :
                 IsUnderWay(connecting'[b]) => b = a
         \/ /\ ~intentionalClose' /\ ws' = Null
            /\ \A a \in Attempts : ~IsUnderWay(connecting'[a])
  PROVE  ConnectionInv'
BY DEF ConnectionInv, Idle

\* disconnect() leaves nothing under way.
LEMMA DisconnectKeeps ==
  ASSUME ConnectionInv, NEW remaining, DisconnectEffects(remaining),
         remaining \in [Attempts -> Slots],
         \A a \in Attempts : ~IsUnderWay(remaining[a])
  PROVE  ConnectionInv'
<1>1. /\ intentionalClose' = TRUE /\ connecting' = remaining /\ armed' = FALSE
      /\ timers' = (IF armed THEN timers - 1 ELSE timers)
      /\ ws' = Null /\ online' = FALSE
  BY DEF DisconnectEffects
<1>2. timers' = 0
  BY SMT, Z3, <1>1 DEF ConnectionInv
<1>. QED
  BY <1>1, <1>2, OneUnderWay DEF Idle

\* The end of _connect.
LEMMA OpenSocketEnds ==
  ASSUME ConnectionInv, FreshSocket \/ OpenSocket
  PROVE  ws' \in WebSockets \cup {Null} /\ (ws # Null => ws' # Null)
BY ConnectionAssumption DEF FreshSocket, OpenSocket, ConnectionInv

\* _connect, called when nothing else is under way.
LEMMA StartConnectKeeps ==
  ASSUME ConnectionInv, StartConnect, armed' = FALSE, timers' = 0, ws = Null, ~online',
         ~intentionalClose'
  PROVE  ConnectionInv'
<1>1. /\ Superseded \in [Attempts -> Slots]
      /\ \A a \in Attempts : ~IsUnderWay(Superseded[a])
  BY SupersededRests
<1>2. armed' \in BOOLEAN /\ timers' = IF armed' THEN 1 ELSE 0
  OBVIOUS
<1>3. CASE Renews \/ Publishes
  <2>1. PICK a \in Attempts, slot \in Slots :
          connecting' = [Superseded EXCEPT ![a] = slot] /\ ws' = ws
    BY <1>3 DEF StartConnect, Slots, Stages
  <2>2. /\ connecting' \in [Attempts -> Slots]
        /\ \A b \in Attempts : IsUnderWay(connecting'[b]) => b = a
    BY <1>1, <2>1
  <2>. QED
    BY <1>2, <2>1, <2>2, OneUnderWay
<1>4. CASE ~(Renews \/ Publishes)
  <2>1. connecting' = Superseded /\ OpenSocket
    BY <1>4 DEF StartConnect
  <2>2. ws' \in WebSockets \cup {Null}
    BY <2>1, OpenSocketEnds
  <2>. QED
    BY <1>1, <1>2, <2>1, <2>2, OneUnderWay
<1>. QED
  BY <1>3, <1>4

\* An attempt that settles, with a socket if it was the current one.
LEMMA SettleKeeps ==
  ASSUME ConnectionInv, NEW a \in Attempts, connecting[a] # Null,
         connecting' = Settled(a),
         UNCHANGED <<online, timers, armed, intentionalClose>>,
         ws' = ws \/ (connecting[a].current /\ (FreshSocket \/ OpenSocket))
  PROVE  ConnectionInv'
<1>1. /\ connecting' \in [Attempts -> Slots] /\ ~IsUnderWay(connecting'[a])
      /\ \A b \in Attempts : b # a => connecting'[b] = connecting[b]
  BY SettledRests
<1>2. CASE ws' = ws
  BY <1>1, <1>2 DEF ConnectionInv
<1>3. CASE connecting[a].current /\ (FreshSocket \/ OpenSocket)
  <2>1. IsUnderWay(connecting[a])
    BY <1>3 DEF IsUnderWay
  <2>2. /\ ~armed /\ ws = Null /\ ~intentionalClose
        /\ \A b \in Attempts : ~IsUnderWay(connecting'[b])
    BY <1>1, <2>1 DEF ConnectionInv
  <2>3. armed' \in BOOLEAN /\ timers' = IF armed' THEN 1 ELSE 0
    BY DEF ConnectionInv
  <2>4. ws' \in WebSockets \cup {Null}
    BY <1>3, OpenSocketEnds
  <2>5. online' => ws' # Null
    BY <2>2 DEF ConnectionInv
  <2>. QED
    BY <1>1, <2>2, <2>3, <2>4, <2>5, OneUnderWay
<1>. QED
  BY <1>2, <1>3

\* onclose of the client's own socket, or of one that was replaced.
LEMMA SocketCloseKeeps ==
  ASSUME ConnectionInv, NEW s \in WebSockets, NEW refused \in BOOLEAN,
         SocketClose(s, refused)
  PROVE  ConnectionInv'
<1>1. connecting' = connecting /\ intentionalClose' = intentionalClose
  BY DEF SocketClose
<1>2. CASE UNCHANGED <<online, ws, timers, armed>>
  BY <1>1, <1>2 DEF ConnectionInv
<1>3. CASE ws = s /\ online' = FALSE /\ ws' = Null
  <2>1. armed = FALSE /\ \A a \in Attempts : ~IsUnderWay(connecting[a])
    BY <1>3, ConnectionAssumption DEF ConnectionInv
  <2>0. timers = 0
    BY <2>1 DEF ConnectionInv
  <2>2. ~intentionalClose
    BY <1>3, ConnectionAssumption DEF ConnectionInv
  <2>3. connecting' \in [Attempts -> Slots]
    BY <1>1 DEF ConnectionInv
  <2>4. CASE UNCHANGED <<timers, armed>>
    BY <1>1, <1>3, <2>0, <2>1, <2>3, <2>4, OneUnderWay DEF Idle
  <2>5. CASE timers' = timers + 1 /\ armed' = TRUE
    <3>1. timers' = 1
      BY SMT, Z3, <2>0, <2>5
    <3>. QED
      BY <1>1, <1>3, <2>1, <2>2, <2>3, <2>5, <3>1, OneUnderWay
  <2>. QED
    BY <1>3, <2>4, <2>5 DEF SocketClose, ScheduleReconnect
<1>. QED
  BY <1>2, <1>3 DEF SocketClose

\* Every step keeps at most one thing under way.
LEMMA NextConnectionInv ==
  ASSUME ~EagerCaller, ConnectionInv, [ConnectionNext]_connectionVars
  PROVE  ConnectionInv'
<1>1. /\ Superseded \in [Attempts -> Slots]
      /\ \A a \in Attempts : ~IsUnderWay(Superseded[a])
  BY SupersededRests
<1>2. CASE Connect
  <2>1. ~online /\ ~UnderWay /\ StartConnect /\ intentionalClose' = FALSE
        /\ UNCHANGED <<online, timers, armed>>
    BY <1>2 DEF Connect
  <2>2. ~(timers > 0) /\ ws = Null
    BY <2>1 DEF UnderWay
  <2>3. armed' = FALSE /\ timers' = 0
    BY SMT, Z3, <2>1, <2>2 DEF ConnectionInv
  <2>. QED
    BY <2>1, <2>2, <2>3, StartConnectKeeps
<1>3. CASE Disconnect \/ Close \/ RenewalFailed
  BY <1>1, <1>3, DisconnectKeeps DEF Disconnect, Close, RenewalFailed
<1>4. ASSUME NEW a \in Attempts, EnsureDone(a) PROVE ConnectionInv'
  <2>1. /\ connecting[a] # Null
        /\ UNCHANGED <<online, timers, armed, intentionalClose>>
    BY <1>4 DEF EnsureDone, InFlight
  <2>2. CASE connecting[a].current /\ Publishes
    <3>1. connecting' = [connecting EXCEPT ![a].stage = "publish"] /\ ws' = ws
      BY <1>4, <2>2 DEF EnsureDone
    <3>2. \A slot \in Slots : slot # Null =>
            /\ [slot EXCEPT !.stage = "publish"] \in Slots
            /\ [slot EXCEPT !.stage = "publish"].current = slot.current
      BY DEF Slots, Stages
    <3>3. /\ connecting' \in [Attempts -> Slots]
          /\ \A b \in Attempts :
               IsUnderWay(connecting'[b]) => IsUnderWay(connecting[b])
      BY <2>1, <3>1, <3>2 DEF ConnectionInv, IsUnderWay
    <3>. QED
      BY <2>1, <3>1, <3>3 DEF ConnectionInv
  <2>3. CASE ~(connecting[a].current /\ Publishes)
    <3>1. /\ connecting' = Settled(a)
          /\ ws' = ws \/ (connecting[a].current /\ FreshSocket)
      BY <1>4, <2>3 DEF EnsureDone
    <3>. QED
      BY <2>1, <3>1, SettleKeeps
  <2>. QED
    BY <2>2, <2>3
<1>5. ASSUME NEW a \in Attempts, EnsureFailed(a) PROVE ConnectionInv'
  <2>1. connecting[a] # Null
    BY <1>5 DEF EnsureFailed, InFlight
  <2>2. CASE connecting[a].current
    <3>1. DisconnectEffects([Superseded EXCEPT ![a] = Null])
      BY <1>5, <2>2 DEF EnsureFailed
    <3>2. /\ [Superseded EXCEPT ![a] = Null] \in [Attempts -> Slots]
          /\ \A b \in Attempts : ~IsUnderWay([Superseded EXCEPT ![a] = Null][b])
      BY <1>1 DEF Slots, IsUnderWay
    <3>. QED
      BY <3>1, <3>2, DisconnectKeeps
  <2>3. CASE ~connecting[a].current
    <3>1. /\ connecting' = Settled(a) /\ ws' = ws
          /\ UNCHANGED <<online, timers, armed, intentionalClose>>
      BY <1>5, <2>3 DEF EnsureFailed
    <3>. QED
      BY <2>1, <3>1, SettleKeeps
  <2>. QED
    BY <2>2, <2>3
<1>6. ASSUME NEW a \in Attempts, PublishDone(a) \/ PublishFailed(a)
      PROVE  ConnectionInv'
  <2>1. /\ connecting[a] # Null /\ connecting' = Settled(a)
        /\ UNCHANGED <<online, timers, armed, intentionalClose>>
        /\ ws' = ws \/ (connecting[a].current /\ OpenSocket)
    BY <1>6 DEF PublishDone, PublishFailed, InFlight
  <2>. QED
    BY <2>1, SettleKeeps
<1>7. CASE RenewalDone \/ Expire \/ UNCHANGED connectionVars
  <2>1. UNCHANGED <<online, ws, connecting, timers, armed, intentionalClose>>
    BY <1>7 DEF RenewalDone, Expire, connectionVars
  <2>. QED
    BY <2>1 DEF ConnectionInv
<1>8. ASSUME NEW s \in WebSockets, Authenticated(s) PROVE ConnectionInv'
  BY <1>8, ConnectionAssumption DEF Authenticated, ConnectionInv
<1>9. ASSUME NEW s \in WebSockets, HandshakeTimeout(s) PROVE ConnectionInv'
  BY <1>9 DEF HandshakeTimeout, ConnectionInv
<1>10. ASSUME NEW isArmed \in BOOLEAN, TimerFires(isArmed) PROVE ConnectionInv'
  <2>1. armed
    BY SMT, Z3, <1>10 DEF TimerFires, ConnectionInv
  <2>2. /\ armed' = FALSE /\ timers' = timers - 1
        /\ UNCHANGED <<online, intentionalClose>>
    BY <1>10 DEF TimerFires
  <2>3. timers' = 0
    BY SMT, Z3, <2>1, <2>2 DEF ConnectionInv
  <2>4. ws = Null /\ ~online /\ ~intentionalClose
    BY <2>1 DEF ConnectionInv
  <2>5. CASE closed
    <3>1. connecting' = Superseded /\ ws' = ws
      BY <1>10, <2>5 DEF TimerFires
    <3>. QED
      BY <1>1, <2>2, <2>3, <2>4, <3>1, OneUnderWay DEF Idle
  <2>6. CASE ~closed
    <3>1. StartConnect
      BY <1>10, <2>6 DEF TimerFires
    <3>. QED
      BY <2>2, <2>3, <2>4, <3>1, StartConnectKeeps
  <2>. QED
    BY <2>5, <2>6
<1>. QED
  BY <1>2, <1>3, <1>4, <1>5, <1>6, <1>7, <1>8, <1>9, <1>10, SocketCloseKeeps DEF
       ConnectionNext

\* After disconnect() or close() no timer, no attempt suspended at an await and
\* no socket brings the client online again, if the application never called
\* connect() while one was under way (_scheduleReconnect forgets a timer).
THEOREM DisconnectIsFinal ==
  ASSUME ~EagerCaller
  PROVE  ConnectionSpec => []NoReconnectAfterDisconnect
<1>1. ConnectionInit => ConnectionInv
  BY DEF ConnectionInit, ConnectionInv, Slots, IsUnderWay
<1>2. ConnectionInv /\ [ConnectionNext]_connectionVars => ConnectionInv'
  BY NextConnectionInv
<1>3. ConnectionInv => NoReconnectAfterDisconnect
  BY DEF ConnectionInv, NoReconnectAfterDisconnect
<1>. QED
  BY <1>1, <1>2, <1>3, PTL DEF ConnectionSpec
=============================================================================
