------------------------- MODULE DirectMessagesProofs -------------------------
(***************************************************************************)
(* Proofs about direct messages, between devices with a device store       *)
(* (DirectMessages) and without one (PlainMessages), for any peers,        *)
(* messages, limits, losses and crashes.                                   *)
(***************************************************************************)
EXTENDS DirectMessages, PlainMessages, FiniteSetTheorems, TLAPS

\* The backend of every leaf that names none, with a second run of more time.
USE Zenon, ZenonT(20)

----------------------------------------------------------------------------
(* The delivery contract of devices with a store.                           *)

\* What is on its way has been queued, and what is acknowledged is stored.
DeliveryInv ==
  /\ queue \in [Messages -> {"none", "pending", "delivered"}]
  /\ inbox \in [Messages -> {"none", "live", "expired"}]
  /\ shown \in [Messages -> Nat] /\ confirmed \in [Messages -> Nat]
  /\ DOMAIN envelopes = Messages
  /\ \A m \in Messages :
       /\ IsPending(m) => envelopes[m].message = m
       /\ inbox[m] # "none" => queue[m] # "none"
       /\ queue[m] = "delivered" => inbox[m] # "none"
  /\ \A packet \in network :
       /\ packet.message \in Messages /\ packet.type \in {"dm", "receipt"}
       /\ packet.type = "dm" => queue[packet.message] # "none"
       /\ packet.type = "receipt" => inbox[packet.message] # "none"
  /\ ConfirmedOnce

Kept ==
  DeliveryInv' /\ [Contract!ContractNext]_Contract!contractVars

\* The two kinds of packet.
LEMMA PacketKinds ==
  /\ \A m : ReceiptPacket(m).type = "receipt" /\ ReceiptPacket(m).message = m
  /\ \A e : DmPacket(e).type = "dm" /\ DmPacket(e).message = e.message
BY DEF ReceiptPacket, DmPacket

\* A message moves from one phase of its life to another.
LEMMA PhaseMoves ==
  ASSUME NEW m \in Messages, NEW from, NEW to, Phase(m) = from, Phase(m)' = to,
         \A o \in Messages \ {m} : Phase(o)' = Phase(o)
  PROVE  Contract!Move(m, from, to)
BY DEF Contract!Move

\* A step that moves no message.
LEMMA PhasesKept ==
  ASSUME \A o \in Messages : Phase(o)' = Phase(o), UNCHANGED shown
  PROVE  UNCHANGED Contract!contractVars
BY DEF Contract!contractVars

\* A step that touches no queue item and no inbox entry, and adds copies of
\* pending messages to the network.
LEMMA RecordsUntouched ==
  ASSUME DeliveryInv, UNCHANGED <<queue, inbox, envelopes, shown, confirmed>>,
         \A packet \in network' :
           \/ packet \in network
           \/ \E m \in Messages : IsPending(m) /\ packet = DmPacket(envelopes[m])
  PROVE  Kept
<1>1. \A o \in Messages : Phase(o)' = Phase(o)
  BY DEF Phase
<1>2. \A packet \in network' :
        /\ packet.message \in Messages /\ packet.type \in {"dm", "receipt"}
        /\ packet.type = "dm" => queue[packet.message] # "none"
        /\ packet.type = "receipt" => inbox[packet.message] # "none"
  <2> TAKE packet \in network'
  <2>1. CASE packet \in network
    BY <2>1 DEF DeliveryInv
  <2>2. ASSUME NEW m \in Messages, IsPending(m), packet = DmPacket(envelopes[m])
        PROVE  /\ packet.message = m /\ packet.type = "dm"
               /\ queue[m] # "none"
    BY SMT, Z3, <2>2, PacketKinds DEF DeliveryInv, IsPending
  <2> QED
    BY <2>1, <2>2
<1>3. DeliveryInv'
  BY <1>2 DEF DeliveryInv, ConfirmedOnce, IsPending
<1> QED
  BY <1>1, <1>3, PhasesKept DEF Kept

\* sendDirectMessage queues its message.
LEMMA SendKept ==
  ASSUME DeliveryInv, NEW m \in Messages, SendDirectMessage(m)
  PROVE  Kept
<1>1. PICK envelope :
        /\ queue[m] = "none" /\ queue' = [queue EXCEPT ![m] = "pending"]
        /\ envelopes' = [envelopes EXCEPT ![m] = envelope]
        /\ envelope.message = m
        /\ network' \subseteq network \cup {DmPacket(envelope)}
        /\ UNCHANGED <<inbox, shown, confirmed>>
  <2> DEFINE out == Outgoing(Sender[m], Recipient[m])
             envelope == [message |-> m, prefix |-> out.prefix,
                          blob |-> Seal(out.session).blob]
  <2>1. /\ queue[m] = "none" /\ queue' = [queue EXCEPT ![m] = "pending"]
        /\ envelopes' = [envelopes EXCEPT ![m] = envelope]
        /\ network' \subseteq network \cup {DmPacket(envelope)}
        /\ UNCHANGED <<inbox, shown, confirmed>>
    BY DEF SendDirectMessage, CommitSend
  <2>2. envelope.message = m
    BY SMT, Z3
  <2> HIDE DEF envelope
  <2> QED
    BY <2>1, <2>2
<1>2. inbox[m] = "none" /\ queue'[m] = "pending" /\ envelopes'[m] = envelope
  BY <1>1 DEF DeliveryInv
<1>3. \A packet \in network' :
        /\ packet.message \in Messages /\ packet.type \in {"dm", "receipt"}
        /\ packet.type = "dm" => queue'[packet.message] # "none"
        /\ packet.type = "receipt" => inbox'[packet.message] # "none"
  <2> TAKE packet \in network'
  <2>1. CASE packet \in network
    BY <1>1, <2>1 DEF DeliveryInv
  <2>2. CASE packet = DmPacket(envelope)
    BY <1>1, <1>2, <2>2, PacketKinds
  <2> QED
    BY <1>1, <2>1, <2>2
<1>4. DeliveryInv'
  BY <1>1, <1>2, <1>3 DEF DeliveryInv, ConfirmedOnce, IsPending
<1>5. Contract!Enqueue(m)
  <2>1. Phase(m) = "unsent" /\ Phase(m)' = "queued"
    BY <1>1, <1>2 DEF Phase
  <2>2. \A o \in Messages \ {m} : Phase(o)' = Phase(o)
    BY <1>1 DEF Phase, DeliveryInv
  <2> QED
    BY <1>1, <2>1, <2>2, PhaseMoves DEF Contract!Enqueue
<1> QED
  BY <1>4, <1>5 DEF Kept, Contract!ContractNext

\* retain gives up what is delivered or read, and nothing else.
LEMMA RetentionKeeps ==
  ASSUME DeliveryInv, NEW p, NEW compacted \in SUBSET Compactable(p)
  PROVE  /\ InboxRetained(p, compacted) \in [Messages -> {"none", "live", "expired"}]
         /\ \A m \in Messages :
              /\ InboxRetained(p, compacted)[m] = "none" <=> inbox[m] = "none"
              /\ IsPending(m) =>
                   EnvelopesRetained(p, compacted)[m] = envelopes[m]
         /\ DOMAIN EnvelopesRetained(p, compacted) = Messages
<1>1. ASSUME NEW m \in compacted
      PROVE  /\ Recipient[m] = p => inbox[m] = "live"
             /\ Sender[m] = p => ~IsPending(m)
  BY <1>1, RoutesAssumption DEF Compactable, IsPending
<1>2. \A m \in Messages : InboxRetained(p, compacted)[m] =
        IF Recipient[m] = p /\ m \in compacted THEN "expired" ELSE inbox[m]
  BY DEF InboxRetained
<1>3. \A m \in Messages : EnvelopesRetained(p, compacted)[m] =
        IF Sender[m] = p /\ m \in compacted THEN None ELSE envelopes[m]
  BY DEF EnvelopesRetained
<1>4. InboxRetained(p, compacted) \in [Messages -> {"none", "live", "expired"}]
  BY DEF InboxRetained, DeliveryInv
<1>5. DOMAIN EnvelopesRetained(p, compacted) = Messages
  BY DEF EnvelopesRetained
<1> QED
  BY <1>1, <1>2, <1>3, <1>4, <1>5

\* A retry that is acknowledged again, and a packet that is dropped.
LEMMA NotReceivedKept ==
  ASSUME DeliveryInv, NEW packet \in network,
         NEW compacted \in SUBSET Compactable(Recipient[packet.message]),
         \/ AcknowledgeAgain(packet, compacted)
         \/ DropDirectMessage(packet, compacted)
  PROVE  Kept
<1> DEFINE p == Recipient[packet.message]
<1>1. /\ inbox' = InboxRetained(p, compacted)
      /\ envelopes' = EnvelopesRetained(p, compacted)
      /\ UNCHANGED <<queue, shown, confirmed>>
      /\ \A k \in network' :
           \/ k \in network
           \/ k = ReceiptPacket(packet.message) /\ inbox[packet.message] # "none"
  BY DEF AcknowledgeAgain, DropDirectMessage, HasIncoming
<1>2. /\ inbox' \in [Messages -> {"none", "live", "expired"}]
      /\ DOMAIN envelopes' = Messages
      /\ \A m \in Messages : /\ inbox'[m] = "none" <=> inbox[m] = "none"
                             /\ IsPending(m) => envelopes'[m] = envelopes[m]
  BY SMT, Z3, <1>1, RetentionKeeps
<1>3. \A k \in network' :
        /\ k.message \in Messages /\ k.type \in {"dm", "receipt"}
        /\ k.type = "dm" => queue'[k.message] # "none"
        /\ k.type = "receipt" => inbox'[k.message] # "none"
  <2> TAKE k \in network'
  <2>1. CASE k \in network
    BY <1>1, <1>2, <2>1 DEF DeliveryInv
  <2>2. CASE k = ReceiptPacket(packet.message) /\ inbox[packet.message] # "none"
    <3>1. packet.message \in Messages
      BY DEF DeliveryInv
    <3> QED
      BY <1>2, <2>2, <3>1, PacketKinds
  <2> QED
    BY <1>1, <2>1, <2>2
<1>4. DeliveryInv'
  BY SMT, Z3, <1>1, <1>2, <1>3 DEF DeliveryInv, ConfirmedOnce, IsPending
<1>5. \A o \in Messages : Phase(o)' = Phase(o)
  BY <1>1, <1>2 DEF Phase
<1> QED
  BY <1>1, <1>4, <1>5, PhasesKept DEF Kept

\* A message is stored, and shown unless the process dies.
LEMMA ReceiveKept ==
  ASSUME DeliveryInv, NEW packet \in network,
         NEW compacted \in SUBSET Compactable(Recipient[packet.message]),
         \/ ReceiveDirectMessage(packet, compacted)
         \/ ReceiveThenCrash(packet, compacted)
  PROVE  Kept
<1> DEFINE p == Recipient[packet.message]
           m == packet.message
<1>1. /\ inbox' = [InboxRetained(p, compacted) EXCEPT ![m] = "live"]
      /\ envelopes' = EnvelopesRetained(p, compacted)
      /\ UNCHANGED <<queue, confirmed>>
      /\ shown' = shown \/ shown' = [shown EXCEPT ![m] = @ + 1]
      /\ network' \subseteq network \cup {ReceiptPacket(m)}
      /\ inbox[m] = "none" /\ packet.type = "dm"
  BY DEF ReceiveDirectMessage, ReceiveThenCrash, CommitReceive, HasIncoming,
       Arrives
<1>2. m \in Messages /\ queue[m] = "pending"
  BY <1>1 DEF DeliveryInv
<1>3. /\ inbox' \in [Messages -> {"none", "live", "expired"}]
      /\ DOMAIN envelopes' = Messages /\ inbox'[m] = "live"
      /\ \A o \in Messages \ {m} : inbox'[o] = "none" <=> inbox[o] = "none"
      /\ \A o \in Messages : IsPending(o) => envelopes'[o] = envelopes[o]
  BY SMT, Z3, <1>1, <1>2, RetentionKeeps
<1>4. \A k \in network' :
        /\ k.message \in Messages /\ k.type \in {"dm", "receipt"}
        /\ k.type = "dm" => queue'[k.message] # "none"
        /\ k.type = "receipt" => inbox'[k.message] # "none"
  <2> TAKE k \in network'
  <2>1. CASE k \in network
    BY <1>1, <1>3, <2>1 DEF DeliveryInv
  <2>2. CASE k = ReceiptPacket(m)
    BY <1>2, <1>3, <2>2, PacketKinds
  <2> QED
    BY <1>1, <2>1, <2>2
<1>5. shown' \in [Messages -> Nat]
  BY SMT, Z3, <1>1, <1>2 DEF DeliveryInv
<1> HIDE DEF m
<1>6. DeliveryInv'
  BY SMT, Z3, <1>1, <1>2, <1>3, <1>4, <1>5 DEF DeliveryInv, ConfirmedOnce,
       IsPending
<1>7. Contract!Move(m, "queued", "stored")
  <2>1. Phase(m) = "queued" /\ Phase(m)' = "stored"
    BY <1>1, <1>2, <1>3 DEF Phase
  <2>2. \A o \in Messages \ {m} : Phase(o)' = Phase(o)
    BY <1>1, <1>3 DEF Phase
  <2> QED
    BY <1>2, <2>1, <2>2, PhaseMoves
<1>8. Contract!Store(m) \/ Contract!StoreAndShow(m)
  BY <1>1, <1>7 DEF Contract!Store, Contract!StoreAndShow
<1> QED
  BY <1>2, <1>6, <1>8 DEF Kept, Contract!ContractNext

\* A receipt discharges a message that is still pending.
LEMMA ReceiptKept ==
  ASSUME DeliveryInv, NEW packet \in network, HandleReceipt(packet)
  PROVE  Kept
<1> DEFINE m == packet.message
<1>1. /\ network' \subseteq network /\ UNCHANGED <<envelopes, inbox, shown>>
      /\ IF IsPending(m)
         THEN /\ queue' = [queue EXCEPT ![m] = "delivered"]
              /\ confirmed' = [confirmed EXCEPT ![m] = @ + 1]
         ELSE UNCHANGED <<queue, confirmed>>
      /\ packet.type = "receipt"
  BY DEF HandleReceipt, Arrives
<1>2. m \in Messages /\ inbox[m] # "none"
  BY <1>1 DEF DeliveryInv
<1> HIDE DEF m
<1>3. CASE ~IsPending(m)
  BY <1>1, <1>3, RecordsUntouched
<1>4. CASE IsPending(m)
  <2>1. /\ queue[m] = "pending" /\ queue'[m] = "delivered"
        /\ confirmed[m] = 0 /\ confirmed'[m] = 1
        /\ \A o \in Messages \ {m} : queue'[o] = queue[o]
                                     /\ confirmed'[o] = confirmed[o]
    BY SMT, Z3, <1>1, <1>2, <1>4 DEF DeliveryInv, ConfirmedOnce, IsPending
  <2>2. /\ queue' \in [Messages -> {"none", "pending", "delivered"}]
        /\ confirmed' \in [Messages -> Nat]
    BY SMT, Z3, <1>1, <1>2, <1>4 DEF DeliveryInv
  <2>3. ConfirmedOnce'
    BY SMT, Z3, <2>1 DEF DeliveryInv, ConfirmedOnce
  <2>4. DeliveryInv'
    BY SMT, Z3, <1>1, <1>2, <2>1, <2>2, <2>3 DEF DeliveryInv, IsPending
  <2>5. Phase(m) = "stored" /\ Phase(m)' = "discharged"
    BY <1>1, <1>2, <2>1 DEF Phase
  <2>6. \A o \in Messages \ {m} : Phase(o)' = Phase(o)
    BY <1>1, <2>1 DEF Phase
  <2>7. Contract!Discharge(m)
    BY <1>1, <1>2, <2>5, <2>6, PhaseMoves DEF Contract!Discharge
  <2> QED
    BY <1>2, <2>4, <2>7 DEF Kept, Contract!ContractNext
<1> QED
  BY <1>3, <1>4

\* One step of either device or of the relay.
LEMMA DmStep == DeliveryInv /\ [DmNext]_dmVars => Kept
<1> SUFFICES ASSUME DeliveryInv, [DmNext]_dmVars
             PROVE  Kept
  BY SMT, Z3
<1>1. ASSUME UNCHANGED <<durable, shown, confirmed>>, network' \subseteq network
      PROVE  Kept
  BY <1>1, RecordsUntouched DEF durable
<1>2. ASSUME NEW p \in Peers, NEW q \in Peers, FetchBundle(p, q)
      PROVE  Kept
  BY <1>1, <1>2 DEF FetchBundle
<1>3. ASSUME NEW p \in Peers, RefreshBundle(p) \/ Crash(p)
      PROVE  Kept
  BY <1>1, <1>3 DEF RefreshBundle, Crash
<1>4. ASSUME NEW p \in Peers, NEW due \in SUBSET PendingOf(p),
             ProcessQueue(p, due) \/ Connect(p, due)
      PROVE  Kept
  <2>1. /\ UNCHANGED <<queue, inbox, envelopes, shown, confirmed>>
        /\ network' = network \cup {DmPacket(envelopes[m]) : m \in due}
    BY <1>4 DEF ProcessQueue, Connect, durable
  <2>2. \A m \in due : m \in Messages /\ IsPending(m)
    BY DEF PendingOf
  <2> QED
    BY <2>1, <2>2, RecordsUntouched
<1>5. ASSUME NEW packet \in network, Lose(packet)
      PROVE  Kept
  BY <1>1, <1>5 DEF Lose
<1>6. ASSUME NEW packet \in network, Handle(packet)
      PROVE  Kept
  BY <1>5, <1>6, NotReceivedKept, ReceiveKept, ReceiptKept DEF Handle
<1>7. CASE UNCHANGED dmVars
  BY <1>1, <1>7 DEF dmVars
<1> QED
  BY <1>2, <1>3, <1>4, <1>6, <1>7, SendKept DEF DmNext

\* What is on its way was queued, and what is acknowledged is stored.
LEMMA DeliveryInvariant == DmSpec => []DeliveryInv
<1>1. DmInit => DeliveryInv
  BY SMT, Z3 DEF DmInit, DeliveryInv, ConfirmedOnce, IsPending
<1>2. DeliveryInv /\ [DmNext]_dmVars => DeliveryInv'
  BY DmStep DEF Kept
<1> QED
  BY <1>1, <1>2, PTL DEF DmSpec

\* verified_delivery_receipt is emitted once per message and exactly for those
\* the queue has discharged (QueueManager's receipt handler).
THEOREM ReceiptsConfirmOnce == DmSpec => []ConfirmedOnce
<1>1. DeliveryInv => ConfirmedOnce
  BY DEF DeliveryInv
<1> QED
  BY <1>1, DeliveryInvariant, PTL

\* A subset of a bounded set, and one more element.
LEMMA Bounded ==
  ASSUME NEW S, S \subseteq Messages, NEW T, NEW n \in Nat
  PROVE  /\ T \subseteq S /\ Cardinality(S) <= n => Cardinality(T) <= n
         /\ \A m \in Messages :
              T \subseteq S \cup {m} /\ Cardinality(S) < n => Cardinality(T) <= n
<1>1. IsFiniteSet(S) /\ Cardinality(S) \in Nat
  BY LimitsAssumption, FS_Subset, FS_CardinalityType
<1>2. ASSUME T \subseteq S, Cardinality(S) <= n
      PROVE  Cardinality(T) <= n
  <2>1. IsFiniteSet(T) /\ Cardinality(T) <= Cardinality(S)
    BY <1>1, <1>2, FS_Subset
  <2>2. Cardinality(T) \in Nat
    BY <2>1, FS_CardinalityType
  <2> QED
    BY SMT, Z3, <1>1, <1>2, <2>1, <2>2
<1>3. ASSUME NEW m \in Messages, T \subseteq S \cup {m}, Cardinality(S) < n
      PROVE  Cardinality(T) <= n
  <2>1. /\ IsFiniteSet(S \cup {m})
        /\ Cardinality(S \cup {m}) = IF m \in S THEN Cardinality(S)
                                     ELSE Cardinality(S) + 1
    BY <1>1, FS_AddElement
  <2>2. Cardinality(S \cup {m}) \in Nat /\ Cardinality(S \cup {m}) <= n
    BY SMT, Z3, <1>1, <1>3, <2>1
  <2>3. IsFiniteSet(T) /\ Cardinality(T) <= Cardinality(S \cup {m})
    BY <1>3, <2>1, FS_Subset
  <2>4. Cardinality(T) \in Nat
    BY <2>3, FS_CardinalityType
  <2> QED
    BY SMT, Z3, <2>2, <2>3, <2>4
<1> QED
  BY <1>2, <1>3

LiveFrom(p, q) == {m \in LiveInbox(p, {}) : Sender[m] = q}

\* The sets the limits count are sets of messages.
LEMMA CountedSets ==
  ASSUME NEW p, NEW q
  PROVE  /\ LiveInbox(p, {}) \subseteq Messages /\ LiveFrom(p, q) \subseteq Messages
         /\ PendingOf(p) \subseteq Messages /\ PendingTo(p, q) \subseteq Messages
BY DEF LiveInbox, LiveFrom, PendingOf, PendingTo

\* A step that stores and queues nothing keeps the limits.
LEMMA NothingAdded ==
  ASSUME WithinResources,
         \A m \in Messages : /\ inbox'[m] = "live" => inbox[m] = "live"
                             /\ IsPending(m)' => IsPending(m)
  PROVE  WithinResources'
<1> SUFFICES ASSUME Limited, NEW p \in Peers, NEW q \in Peers
             PROVE  /\ Cardinality(LiveInbox(p, {})') <= MaxInbox
                    /\ Cardinality(LiveFrom(p, q)') <= MaxInboxPerPeer
                    /\ Cardinality(PendingOf(p)') <= MaxQueued
                    /\ Cardinality(PendingTo(p, q)') <= MaxQueuedPerPeer
  BY DEF WithinResources, LiveFrom
<1>1. /\ LiveInbox(p, {})' \subseteq LiveInbox(p, {})
      /\ LiveFrom(p, q)' \subseteq LiveFrom(p, q)
      /\ PendingOf(p)' \subseteq PendingOf(p)
      /\ PendingTo(p, q)' \subseteq PendingTo(p, q)
  BY DEF LiveInbox, LiveFrom, PendingOf, PendingTo
<1>2. /\ Cardinality(LiveInbox(p, {})) <= MaxInbox
      /\ Cardinality(LiveFrom(p, q)) <= MaxInboxPerPeer
      /\ Cardinality(PendingOf(p)) <= MaxQueued
      /\ Cardinality(PendingTo(p, q)) <= MaxQueuedPerPeer
  BY DEF WithinResources, LiveFrom
<1> QED
  BY SMT, Z3, <1>1, <1>2, CountedSets, Bounded, LimitsAssumption

\* commitSend checks the room of the queue, commitReceive that of the inbox.
LEMMA LimitsStep ==
  DeliveryInv /\ WithinResources /\ [DmNext]_dmVars => WithinResources'
<1> SUFFICES ASSUME DeliveryInv, WithinResources, [DmNext]_dmVars
             PROVE  WithinResources'
  BY SMT, Z3
<1>1. ASSUME UNCHANGED <<queue, inbox>>
      PROVE  WithinResources'
  BY <1>1, NothingAdded DEF IsPending
<1>2. ASSUME NEW p \in Peers, NEW q \in Peers,
             FetchBundle(p, q) \/ RefreshBundle(p) \/ Crash(p)
      PROVE  WithinResources'
  BY <1>1, <1>2 DEF FetchBundle, RefreshBundle, Crash, durable
<1>3. ASSUME NEW p \in Peers, NEW due,
             ProcessQueue(p, due) \/ Connect(p, due)
      PROVE  WithinResources'
  BY <1>1, <1>3 DEF ProcessQueue, Connect, durable
<1>4. ASSUME NEW m \in Messages, SendDirectMessage(m)
      PROVE  WithinResources'
  <2>1. /\ CanEnqueue(Sender[m], Recipient[m])
        /\ queue' = [queue EXCEPT ![m] = "pending"] /\ UNCHANGED inbox
    BY <1>4 DEF SendDirectMessage, CommitSend
  <2>2. \A o \in Messages : IsPending(o)' <=> (o = m \/ IsPending(o))
    BY <2>1 DEF DeliveryInv, IsPending
  <2> SUFFICES ASSUME Limited, NEW p \in Peers, NEW q \in Peers
               PROVE  /\ Cardinality(LiveInbox(p, {})') <= MaxInbox
                      /\ Cardinality(LiveFrom(p, q)') <= MaxInboxPerPeer
                      /\ Cardinality(PendingOf(p)') <= MaxQueued
                      /\ Cardinality(PendingTo(p, q)') <= MaxQueuedPerPeer
    BY DEF WithinResources, LiveFrom
  <2>3. /\ LiveInbox(p, {})' = LiveInbox(p, {})
        /\ LiveFrom(p, q)' = LiveFrom(p, q)
        /\ Cardinality(LiveInbox(p, {})) <= MaxInbox
        /\ Cardinality(LiveFrom(p, q)) <= MaxInboxPerPeer
        /\ Cardinality(PendingOf(p)) <= MaxQueued
        /\ Cardinality(PendingTo(p, q)) <= MaxQueuedPerPeer
    BY <2>1 DEF WithinResources, LiveInbox, LiveFrom
  <2>4. Cardinality(PendingOf(p)') <= MaxQueued
    <3>1. CASE p = Sender[m]
      <4>1. Cardinality(PendingOf(p)) < MaxQueued
        BY <2>1, <3>1 DEF CanEnqueue
      <4>2. PendingOf(p)' \subseteq PendingOf(p) \cup {m}
        BY <2>2 DEF PendingOf
      <4> QED
        BY <4>1, <4>2, CountedSets, Bounded, LimitsAssumption
    <3>2. CASE p # Sender[m]
      <4>1. PendingOf(p)' \subseteq PendingOf(p)
        BY <2>2, <3>2 DEF PendingOf
      <4> QED
        BY <2>3, <4>1, CountedSets, Bounded, LimitsAssumption
    <3> QED
      BY <3>1, <3>2
  <2>5. Cardinality(PendingTo(p, q)') <= MaxQueuedPerPeer
    <3>1. CASE p = Sender[m] /\ q = Recipient[m]
      <4>1. Cardinality(PendingTo(p, q)) < MaxQueuedPerPeer
        BY <2>1, <3>1 DEF CanEnqueue
      <4>2. PendingTo(p, q)' \subseteq PendingTo(p, q) \cup {m}
        BY <2>2 DEF PendingTo
      <4> QED
        BY <4>1, <4>2, CountedSets, Bounded, LimitsAssumption
    <3>2. CASE ~(p = Sender[m] /\ q = Recipient[m])
      <4>1. PendingTo(p, q)' \subseteq PendingTo(p, q)
        BY <2>2, <3>2 DEF PendingTo
      <4> QED
        BY <2>3, <4>1, CountedSets, Bounded, LimitsAssumption
    <3> QED
      BY <3>1, <3>2
  <2> QED
    BY <2>3, <2>4, <2>5
<1>5. ASSUME NEW packet \in network,
             NEW compacted \in SUBSET Compactable(Recipient[packet.message]),
             \/ AcknowledgeAgain(packet, compacted)
             \/ DropDirectMessage(packet, compacted)
      PROVE  WithinResources'
  <2>1. /\ inbox' = InboxRetained(Recipient[packet.message], compacted)
        /\ UNCHANGED queue
    BY <1>5 DEF AcknowledgeAgain, DropDirectMessage
  <2>2. \A m \in Messages : inbox'[m] = "live" => inbox[m] = "live"
    BY <2>1 DEF InboxRetained
  <2> QED
    BY <2>1, <2>2, NothingAdded DEF IsPending
<1>6. ASSUME NEW packet \in network,
             NEW compacted \in SUBSET Compactable(Recipient[packet.message]),
             \/ ReceiveDirectMessage(packet, compacted)
             \/ ReceiveThenCrash(packet, compacted)
      PROVE  WithinResources'
  <2>1. PICK m \in Messages : m = packet.message
    BY DEF DeliveryInv
  <2>2. /\ HasRoom(Recipient[m], Sender[m], compacted)
        /\ inbox' = [InboxRetained(Recipient[m], compacted) EXCEPT ![m] = "live"]
        /\ UNCHANGED queue
    BY <1>6, <2>1 DEF ReceiveDirectMessage, ReceiveThenCrash, CommitReceive,
         CanReceive
  <2>3. \A o \in Messages \ {m} :
          inbox'[o] = "live" =>
            inbox[o] = "live" /\ (Recipient[o] = Recipient[m] => o \notin compacted)
    BY <2>2 DEF InboxRetained
  <2> SUFFICES ASSUME Limited, NEW p \in Peers, NEW q \in Peers
               PROVE  /\ Cardinality(LiveInbox(p, {})') <= MaxInbox
                      /\ Cardinality(LiveFrom(p, q)') <= MaxInboxPerPeer
                      /\ Cardinality(PendingOf(p)') <= MaxQueued
                      /\ Cardinality(PendingTo(p, q)') <= MaxQueuedPerPeer
    BY DEF WithinResources, LiveFrom
  <2>4. /\ PendingOf(p)' = PendingOf(p) /\ PendingTo(p, q)' = PendingTo(p, q)
        /\ Cardinality(LiveInbox(p, {})) <= MaxInbox
        /\ Cardinality(LiveFrom(p, q)) <= MaxInboxPerPeer
        /\ Cardinality(PendingOf(p)) <= MaxQueued
        /\ Cardinality(PendingTo(p, q)) <= MaxQueuedPerPeer
    BY <2>2 DEF WithinResources, LiveFrom, PendingOf, PendingTo, IsPending
  <2>5. CASE p = Recipient[m]
    <3>1. PICK live : live = LiveInbox(p, compacted)
      BY SMT, Z3
    <3>2. PICK from : from = {o \in live : Sender[o] = Sender[m]}
      OBVIOUS
    <3>3. /\ Cardinality(live) < MaxInbox /\ Cardinality(from) < MaxInboxPerPeer
          /\ live \subseteq Messages /\ from \subseteq Messages
      BY <2>2, <2>5, <3>1, <3>2 DEF HasRoom, LiveInbox
    <3>4. LiveInbox(p, {})' \subseteq live \cup {m}
      BY <2>3, <2>5, <3>1 DEF LiveInbox
    <3>5. Cardinality(LiveInbox(p, {})') <= MaxInbox
      BY <3>3, <3>4, Bounded, LimitsAssumption
    <3>6. Cardinality(LiveFrom(p, q)') <= MaxInboxPerPeer
      <4>1. CASE q = Sender[m]
        <5>1. LiveFrom(p, q)' \subseteq from \cup {m}
          BY <3>2, <3>4, <4>1 DEF LiveFrom
        <5> QED
          BY <3>3, <5>1, Bounded, LimitsAssumption
      <4>2. CASE q # Sender[m]
        <5>1. LiveFrom(p, q)' \subseteq LiveFrom(p, q)
          BY <2>3, <4>2 DEF LiveFrom, LiveInbox
        <5> QED
          BY <2>4, <5>1, CountedSets, Bounded, LimitsAssumption
      <4> QED
        BY <4>1, <4>2
    <3> QED
      BY <2>4, <3>5, <3>6
  <2>6. CASE p # Recipient[m]
    <3>1. /\ LiveInbox(p, {})' \subseteq LiveInbox(p, {})
          /\ LiveFrom(p, q)' \subseteq LiveFrom(p, q)
      BY <2>3, <2>6 DEF LiveInbox, LiveFrom
    <3> QED
      BY <2>4, <3>1, CountedSets, Bounded, LimitsAssumption
  <2> QED
    BY <2>5, <2>6
<1>7. ASSUME NEW packet \in network, HandleReceipt(packet)
      PROVE  WithinResources'
  <2>1. /\ UNCHANGED inbox /\ packet.message \in Messages
        /\ UNCHANGED queue \/ queue' = [queue EXCEPT ![packet.message] = "delivered"]
    BY <1>7 DEF HandleReceipt, DeliveryInv
  <2>2. \A m \in Messages : IsPending(m)' => IsPending(m)
    BY <2>1 DEF IsPending, DeliveryInv
  <2> QED
    BY <2>1, <2>2, NothingAdded
<1>8. ASSUME NEW packet \in network, Lose(packet)
      PROVE  WithinResources'
  BY <1>1, <1>8 DEF Lose, durable
<1>9. CASE UNCHANGED dmVars
  BY <1>1, <1>9 DEF dmVars, durable
<1> QED
  BY <1>2, <1>3, <1>4, <1>5, <1>6, <1>7, <1>8, <1>9 DEF DmNext, Handle

\* Clients with a device store implement the delivery contract, and their
\* inbox and queue stay within the configured limits (sendDirectMessage,
\* handleAuthorizedDirectMessage, commitReceive, QueueManager).
THEOREM DevicesKeepContract == DmSpec => DeliveryContract
<1>1. DmInit => WithinResources
  <2> SUFFICES ASSUME DmInit
               PROVE  \A p, q \in Peers :
                        /\ LiveInbox(p, {}) = {} /\ LiveFrom(p, q) = {}
                        /\ PendingOf(p) = {} /\ PendingTo(p, q) = {}
    BY SMT, Z3, FS_EmptySet, LimitsAssumption DEF WithinResources, LiveFrom
  <2> QED
    BY DEF DmInit, LiveInbox, LiveFrom, PendingOf, PendingTo, IsPending
<1>2. DmInit => Contract!ContractInit
  BY DEF DmInit, Contract!ContractInit, Phase
<1>3. DeliveryInv /\ [DmNext]_dmVars
        => [Contract!ContractNext]_Contract!contractVars
  BY DmStep DEF Kept
<1>4. DmSpec => Contract!ContractSpec
  BY <1>2, <1>3, DeliveryInvariant, PTL DEF DmSpec, Contract!ContractSpec
<1>5. DmSpec => []WithinResources
  BY <1>1, LimitsStep, DeliveryInvariant, PTL DEF DmSpec
<1> QED
  BY <1>4, <1>5, PTL DEF DeliveryContract

----------------------------------------------------------------------------
(* Message keys.                                                            *)

Live(p, q) == sessions[p][q] # None

\* A key pair that was generated, and whose sending chain, if it will have
\* one, has been derived.
Born(k) == \E p \in Peers : \E i \in 0 .. fresh[p] - 1 : k = Pair(p, i)

Started(k) ==
  /\ Born(k)
  /\ \A p, q \in Peers :
       Live(p, q) /\ sessions[p][q].CKs = NoKey => sessions[p][q].DHs # k

\* A chain key was derived from started pairs, a message key from a chain.
IsChain(ck) ==
  ck = <<"ck", ck[2], ck[3]>> /\ \A k \in ck[3] : Started(k)

IsMessageKey(mk) ==
  mk = MessageKey(mk[2], mk[3]) /\ mk[3] \in Nat /\ IsChain(mk[2])

RatchetFields ==
  {"DHs", "DHr", "RK", "CKs", "CKr", "Ns", "Nr", "PN", "skipped"}

GoodRatchet(s) ==
  /\ DOMAIN s = RatchetFields
  /\ Born(s.DHs) /\ s.Ns \in Nat
  /\ s.CKs # NoKey => IsChain(s.CKs)
  /\ s.DHr # NoKey => Started(s.DHr)

HasEnvelope(m) == IsPending(m) \/ envelopes[m] # None

\* No two sessions have a pair or a sending chain in common.
SessionsInv ==
  /\ fresh \in [Peers -> Nat]
  /\ DOMAIN sessions = Peers /\ \A p \in Peers : DOMAIN sessions[p] = Peers
  /\ \A p, q \in Peers : Live(p, q) => GoodRatchet(sessions[p][q])
  /\ \A p, q, r, u \in Peers :
       Live(p, q) /\ Live(r, u) /\ <<p, q>> # <<r, u>> =>
         /\ sessions[p][q].DHs # sessions[r][u].DHs
         /\ \/ sessions[p][q].CKs = NoKey
            \/ sessions[p][q].CKs # sessions[r][u].CKs

\* A chain has sealed messages below its counter only.
Below(mk) ==
  \A p, q \in Peers : Live(p, q) /\ mk[2] = sessions[p][q].CKs =>
    mk[3] < sessions[p][q].Ns

GoodBlob(blob) == IsMessageKey(blob.mk) /\ Below(blob.mk) /\ Started(blob.dh)

EnvelopesInv ==
  /\ \A m \in Messages : HasEnvelope(m) => GoodBlob(envelopes[m].blob)
  /\ \A m, o \in Messages : HasEnvelope(m) /\ HasEnvelope(o) /\ m # o =>
       envelopes[m].blob.mk # envelopes[o].blob.mk

PacketsInv ==
  \A packet \in network : packet.type = "dm" =>
    Started(packet.envelope.blob.dh)

KeyInv == SessionsInv /\ EnvelopesInv /\ PacketsInv

\* What a step may make of a session: it goes on with its chain, waits with a
\* new pair, or opens a chain with a pair that has none.
NewPair(p, n, k) == \E i \in fresh[p] .. fresh[p] + n - 1 : k = Pair(p, i)

Continues(p, q, t) ==
  /\ Live(p, q)
  /\ t.DHs = sessions[p][q].DHs /\ t.CKs = sessions[p][q].CKs
  /\ t.Ns >= sessions[p][q].Ns

Waits(p, n, t) == NewPair(p, n, t.DHs) /\ t.CKs = NoKey

OpensChain(p, q, n, t) ==
  /\ \/ NewPair(p, n, t.DHs)
     \/ /\ Live(p, q) /\ t.DHs = sessions[p][q].DHs
        /\ sessions[p][q].CKs = NoKey
  /\ t.CKs = <<"ck", t.CKs[2], t.CKs[3]>> /\ t.DHs \in t.CKs[3]
  /\ \A k \in t.CKs[3] \ {t.DHs} : Started(k)

Advances(p, q, n, t) ==
  /\ DOMAIN t = RatchetFields /\ t.Ns \in Nat
  /\ t.DHr # NoKey => Started(t.DHr)
  /\ Continues(p, q, t) \/ Waits(p, n, t) \/ OpensChain(p, q, n, t)

\* The step that writes it, after generating n pairs.
SessionBecomes(p, q, n, t) ==
  /\ sessions' = [sessions EXCEPT ![p][q] = t]
  /\ fresh' = [fresh EXCEPT ![p] = @ + n]

\* A pair yet to be generated is not one of the pairs there are.
LEMMA NewPairs ==
  ASSUME KeyInv, NEW p \in Peers, NEW n \in Nat, NEW k, NewPair(p, n, k)
  PROVE  ~Born(k)
<1> SUFFICES ASSUME Born(k) PROVE FALSE
  BY SMT, Z3
<1>1. PICK i \in fresh[p] .. fresh[p] + n - 1 : k = Pair(p, i)
  BY DEF NewPair
<1>2. PICK r \in Peers : \E j \in 0 .. fresh[r] - 1 : k = Pair(r, j)
  BY DEF Born
<1>3. PICK j \in 0 .. fresh[r] - 1 : k = Pair(r, j)
  BY <1>2
<1>4. p = r /\ i = j
  BY SMT, Z3, <1>1, <1>3 DEF Pair
<1> QED
  BY SMT, Z3, <1>1, <1>3, <1>4 DEF KeyInv, SessionsInv

\* The pair that opens a chain was not started.
LEMMA OpenersNotStarted ==
  ASSUME KeyInv, NEW p \in Peers, NEW q \in Peers, NEW n \in Nat, NEW t,
         OpensChain(p, q, n, t)
  PROVE  ~Started(t.DHs)
BY NewPairs DEF OpensChain, Started

\* No chain there is, and none a message was sealed under, is the new one.
LEMMA OpensNewChain ==
  ASSUME KeyInv, NEW p \in Peers, NEW q \in Peers, NEW n \in Nat, NEW t,
         OpensChain(p, q, n, t), NEW ck, IsChain(ck)
  PROVE  ck # t.CKs
BY OpenersNotStarted DEF OpensChain, IsChain

\* The sessions after a step of one of them.
LEMMA SessionsAfter ==
  ASSUME KeyInv, NEW p \in Peers, NEW q \in Peers, NEW n \in Nat, NEW t,
         SessionBecomes(p, q, n, t)
  PROVE  /\ DOMAIN sessions' = Peers /\ \A r \in Peers : DOMAIN sessions'[r] = Peers
         /\ fresh' \in [Peers -> Nat]
         /\ sessions'[p][q] = t
         /\ \A r, u \in Peers :
              <<r, u>> # <<p, q>> => sessions'[r][u] = sessions[r][u]
         /\ \A k : Born(k) \/ NewPair(p, n, k) => Born(k)'
<1>1. fresh' \in [Peers -> Nat] /\ \A r \in Peers : fresh'[r] >= fresh[r]
      /\ fresh'[p] = fresh[p] + n /\ fresh \in [Peers -> Nat]
  BY SMT, Z3 DEF KeyInv, SessionsInv, SessionBecomes
<1>2. /\ DOMAIN sessions' = Peers /\ \A r \in Peers : DOMAIN sessions'[r] = Peers
      /\ sessions'[p][q] = t
      /\ \A r, u \in Peers :
           <<r, u>> # <<p, q>> => sessions'[r][u] = sessions[r][u]
  BY DEF KeyInv, SessionsInv, SessionBecomes
<1>3. ASSUME NEW k, Born(k)
      PROVE  Born(k)'
  <2>1. PICK r \in Peers : \E i \in 0 .. fresh[r] - 1 : k = Pair(r, i)
    BY <1>3 DEF Born
  <2>2. PICK i \in 0 .. fresh[r] - 1 : k = Pair(r, i)
    BY <2>1
  <2>3. i \in 0 .. fresh'[r] - 1
    BY SMT, Z3, <1>1, <2>2
  <2> QED
    BY <2>2, <2>3 DEF Born, Pair
<1>4. ASSUME NEW k, NewPair(p, n, k)
      PROVE  Born(k)'
  <2>1. PICK i \in fresh[p] .. fresh[p] + n - 1 : k = Pair(p, i)
    BY <1>4 DEF NewPair
  <2>2. i \in 0 .. fresh'[p] - 1
    BY SMT, Z3, <1>1, <2>1
  <2> QED
    BY <2>1, <2>2 DEF Born, Pair
<1> QED
  BY <1>1, <1>2, <1>3, <1>4

\* What is started stays started, and so do the chains of started pairs.
LEMMA StartedStays ==
  ASSUME KeyInv, NEW p \in Peers, NEW q \in Peers, NEW n \in Nat, NEW t,
         SessionBecomes(p, q, n, t), Advances(p, q, n, t)
  PROVE  /\ \A k : Started(k) => Started(k)'
         /\ \A ck : IsChain(ck) => IsChain(ck)'
         /\ \A mk : IsMessageKey(mk) => IsMessageKey(mk)'
<1>1. /\ sessions'[p][q] = t
      /\ \A r, u \in Peers :
           <<r, u>> # <<p, q>> => sessions'[r][u] = sessions[r][u]
      /\ \A k : Born(k) => Born(k)'
  BY SMT, Z3, SessionsAfter
<1>2. ASSUME NEW k, Started(k)
      PROVE  Started(k)'
  <2>1. Born(k)'
    BY <1>1, <1>2 DEF Started
  <2>2. ASSUME t.CKs = NoKey
        PROVE  t.DHs # k
    <3>1. CASE Continues(p, q, t)
      BY <1>2, <2>2, <3>1 DEF Continues, Started
    <3>2. CASE Waits(p, n, t)
      BY <1>2, <3>2, NewPairs DEF Waits, Started
    <3>3. CASE OpensChain(p, q, n, t)
      BY SMT, Z3, <2>2, <3>3 DEF OpensChain, NoKey
    <3> QED
      BY <3>1, <3>2, <3>3 DEF Advances
  <2>3. ASSUME NEW r \in Peers, NEW u \in Peers, Live(r, u)',
               sessions'[r][u].CKs = NoKey
        PROVE  sessions'[r][u].DHs # k
    BY SMT, Z3, <1>1, <1>2, <2>2, <2>3 DEF Started, Live
  <2> QED
    BY <2>1, <2>3 DEF Started
<1>3. ASSUME NEW ck, IsChain(ck)
      PROVE  IsChain(ck)'
  BY <1>2, <1>3 DEF IsChain
<1>4. ASSUME NEW mk, IsMessageKey(mk)
      PROVE  IsMessageKey(mk)'
  BY <1>3, <1>4 DEF IsMessageKey, MessageKey
<1> QED
  BY <1>2, <1>3, <1>4

\* The session after the step is a good one, with a pair and a chain that no
\* other session has.
LEMMA RatchetAfter ==
  ASSUME KeyInv, NEW p \in Peers, NEW q \in Peers, NEW n \in Nat, NEW t,
         SessionBecomes(p, q, n, t), Advances(p, q, n, t)
  PROVE  /\ GoodRatchet(t)'
         /\ t.CKs # NoKey => Started(t.DHs)'
         /\ \A r, u \in Peers : Live(r, u) /\ <<r, u>> # <<p, q>> =>
              /\ t.DHs # sessions[r][u].DHs
              /\ t.CKs = NoKey \/ t.CKs # sessions[r][u].CKs
<1>1. /\ sessions'[p][q] = t
      /\ \A r, u \in Peers :
           <<r, u>> # <<p, q>> => sessions'[r][u] = sessions[r][u]
      /\ \A k : Born(k) \/ NewPair(p, n, k) => Born(k)'
  BY SMT, Z3, SessionsAfter
<1>2. ASSUME NEW r \in Peers, NEW u \in Peers, Live(r, u), <<r, u>> # <<p, q>>
      PROVE  /\ t.DHs # sessions[r][u].DHs
             /\ t.CKs = NoKey \/ t.CKs # sessions[r][u].CKs
  <2>1. GoodRatchet(sessions[r][u])
    BY <1>2 DEF KeyInv, SessionsInv
  <2>2. NewPair(p, n, t.DHs) => t.DHs # sessions[r][u].DHs
    BY <2>1, NewPairs DEF GoodRatchet
  <2>3. Live(p, q) /\ t.DHs = sessions[p][q].DHs => t.DHs # sessions[r][u].DHs
    BY SMT, Z3, <1>2 DEF KeyInv, SessionsInv
  <2>4. CASE Continues(p, q, t)
    BY SMT, Z3, <1>2, <2>3, <2>4 DEF Continues, KeyInv, SessionsInv
  <2>5. CASE Waits(p, n, t)
    BY <2>2, <2>5 DEF Waits
  <2>6. CASE OpensChain(p, q, n, t)
    <3>1. t.DHs # sessions[r][u].DHs
      BY <2>2, <2>3, <2>6 DEF OpensChain
    <3>2. t.CKs # NoKey
      BY SMT, Z3, <2>6 DEF OpensChain, NoKey
    <3>3. t.CKs # sessions[r][u].CKs
      BY <2>1, <2>6, <3>2, OpensNewChain DEF GoodRatchet
    <3> QED
      BY <3>1, <3>3
  <2> QED
    BY <2>4, <2>5, <2>6 DEF Advances
<1>3. Born(t.DHs)'
  <2>1. CASE Live(p, q) /\ t.DHs = sessions[p][q].DHs
    BY <1>1, <2>1 DEF KeyInv, SessionsInv, GoodRatchet
  <2>2. CASE NewPair(p, n, t.DHs)
    BY <1>1, <2>2
  <2> QED
    BY <2>1, <2>2 DEF Advances, Continues, Waits, OpensChain
<1>4. ASSUME t.CKs # NoKey
      PROVE  Started(t.DHs)'
  <2>1. ASSUME NEW r \in Peers, NEW u \in Peers, Live(r, u)',
               sessions'[r][u].CKs = NoKey
        PROVE  sessions'[r][u].DHs # t.DHs
    BY SMT, Z3, <1>1, <1>2, <1>4, <2>1 DEF Live
  <2> QED
    BY <1>3, <2>1 DEF Started
<1>5. t.CKs # NoKey => IsChain(t.CKs)'
  <2>1. CASE Continues(p, q, t)
    BY <2>1, StartedStays DEF Continues, KeyInv, SessionsInv, GoodRatchet
  <2>2. CASE OpensChain(p, q, n, t)
    <3>1. t.CKs # NoKey
      BY SMT, Z3, <2>2 DEF OpensChain, NoKey
    <3>2. \A k \in t.CKs[3] : Started(k)'
      BY <1>4, <2>2, <3>1, StartedStays DEF OpensChain
    <3> QED
      BY <2>2, <3>2 DEF OpensChain, IsChain
  <2> QED
    BY <2>1, <2>2 DEF Advances, Waits
<1>6. t.DHr # NoKey => Started(t.DHr)'
  BY StartedStays DEF Advances
<1>7. GoodRatchet(t)'
  BY <1>3, <1>5, <1>6 DEF GoodRatchet, Advances
<1> QED
  BY <1>2, <1>4, <1>7
\* The sessions stay good, and the keys there are stay below the counters.
LEMMA KeysAfter ==
  ASSUME KeyInv, NEW p \in Peers, NEW q \in Peers, NEW n \in Nat, NEW t,
         SessionBecomes(p, q, n, t), Advances(p, q, n, t)
  PROVE  /\ SessionsInv'
         /\ \A mk : IsMessageKey(mk) /\ Below(mk) => Below(mk)'
<1>1. /\ DOMAIN sessions' = Peers /\ \A r \in Peers : DOMAIN sessions'[r] = Peers
      /\ fresh' \in [Peers -> Nat]
      /\ sessions'[p][q] = t
      /\ \A r, u \in Peers :
           <<r, u>> # <<p, q>> => sessions'[r][u] = sessions[r][u]
      /\ \A k : Born(k) => Born(k)'
  BY SMT, Z3, SessionsAfter
<1>2. /\ GoodRatchet(t)'
      /\ \A r, u \in Peers : Live(r, u) /\ <<r, u>> # <<p, q>> =>
           /\ t.DHs # sessions[r][u].DHs
           /\ t.CKs = NoKey \/ t.CKs # sessions[r][u].CKs
  BY SMT, Z3, RatchetAfter
<1>3. ASSUME NEW r \in Peers, NEW u \in Peers, Live(r, u)'
      PROVE  GoodRatchet(sessions[r][u])'
  <2>1. PICK s : s = sessions'[r][u]
    BY SMT, Z3
  <2>2. ASSUME <<r, u>> = <<p, q>>
        PROVE  GoodRatchet(s)'
    BY <1>1, <1>2, <2>1, <2>2
  <2>3. ASSUME <<r, u>> # <<p, q>>
        PROVE  GoodRatchet(s)'
    <3>1. GoodRatchet(sessions[r][u]) /\ s = sessions[r][u]
      BY <1>1, <1>3, <2>1, <2>3 DEF Live, KeyInv, SessionsInv
    <3>2. GoodRatchet(s)
      BY <3>1
    <3> QED
      BY <1>1, <3>2, StartedStays DEF GoodRatchet
  <2>4. GoodRatchet(s)'
    BY <2>2, <2>3
  <2> QED
    BY SMT, Z3, <2>1, <2>4 DEF GoodRatchet, IsChain, Started, Born, Live
<1>4. ASSUME NEW a \in Peers, NEW b \in Peers, NEW r \in Peers, NEW u \in Peers,
             Live(a, b)', Live(r, u)', <<a, b>> # <<r, u>>
      PROVE  /\ sessions'[a][b].DHs # sessions'[r][u].DHs
             /\ \/ sessions'[a][b].CKs = NoKey
                \/ sessions'[a][b].CKs # sessions'[r][u].CKs
  <2>1. CASE <<a, b>> = <<p, q>>
    BY SMT, Z3, <1>1, <1>2, <1>4, <2>1 DEF Live
  <2>2. CASE <<r, u>> = <<p, q>>
    BY SMT, Z3, <1>1, <1>2, <1>4, <2>2 DEF Live
  <2>3. CASE <<a, b>> # <<p, q>> /\ <<r, u>> # <<p, q>>
    BY SMT, Z3, <1>1, <1>4, <2>3 DEF Live, KeyInv, SessionsInv
  <2> QED
    BY <2>1, <2>2, <2>3
<1>5. SessionsInv'
  BY SMT, Z3, <1>1, <1>3, <1>4 DEF SessionsInv
<1>6. ASSUME NEW mk, IsMessageKey(mk), Below(mk), mk[2] = t.CKs
      PROVE  mk[3] < t.Ns
  <2>1. IsChain(mk[2]) /\ mk[3] \in Nat
    BY <1>6 DEF IsMessageKey
  <2>2. CASE Continues(p, q, t)
    <3>1. mk[3] < sessions[p][q].Ns
      BY <1>6, <2>2 DEF Continues, Below
    <3>2. sessions[p][q].Ns \in Nat /\ t.Ns \in Nat /\ t.Ns >= sessions[p][q].Ns
      BY <2>2 DEF Continues, KeyInv, SessionsInv, GoodRatchet, Advances
    <3> QED
      BY SMT, Z3, <2>1, <3>1, <3>2
  <2>3. CASE Waits(p, n, t)
    BY SMT, Z3, <1>6, <2>1, <2>3 DEF Waits, IsChain, NoKey
  <2>4. CASE OpensChain(p, q, n, t)
    BY <1>6, <2>1, <2>4, OpensNewChain
  <2> QED
    BY <2>2, <2>3, <2>4 DEF Advances
<1>7. ASSUME NEW mk, IsMessageKey(mk), Below(mk)
      PROVE  Below(mk)'
  BY SMT, Z3, <1>1, <1>6, <1>7 DEF Below, Live
<1> QED
  BY <1>5, <1>7


----------------------------------------------------------------------------
(* What the ratchet's operations do to the sending side.                    *)

\* seal advances the counter of the sending chain, which a responder opens
\* with the pair it was created with.
LEMMA SealFields ==
  ASSUME NEW s, DOMAIN s = RatchetFields, s.Ns \in Nat,
         NEW sealed, sealed = Seal(s)
  PROVE  /\ DOMAIN sealed.state = RatchetFields
         /\ sealed.state.DHs = s.DHs /\ sealed.state.DHr = s.DHr
         /\ sealed.state.Ns = s.Ns + 1
         /\ sealed.state.CKs = IF s.CKs # NoKey THEN s.CKs
                               ELSE <<"ck", s.RK, {s.DHs, s.DHr}>>
         /\ sealed.blob.dh = s.DHs
         /\ sealed.blob.mk = MessageKey(sealed.state.CKs, s.Ns)
<1>1. PICK ready : ready = EnsureSendingChain(s)
  BY SMT, Z3
<1>2. /\ DOMAIN ready = RatchetFields
      /\ ready.DHs = s.DHs /\ ready.DHr = s.DHr /\ ready.Ns = s.Ns
      /\ ready.CKs = IF s.CKs # NoKey THEN s.CKs
                     ELSE <<"ck", s.RK, {s.DHs, s.DHr}>>
  BY <1>1 DEF EnsureSendingChain, KdfRk, Dh, RatchetFields
<1>3. /\ sealed.state = [ready EXCEPT !.Ns = @ + 1]
      /\ sealed.blob = [dh |-> ready.DHs, pn |-> ready.PN, n |-> ready.Ns,
                        mk |-> MessageKey(ready.CKs, ready.Ns)]
  BY <1>1 DEF Seal
<1>4. /\ DOMAIN sealed.state = RatchetFields
      /\ sealed.state.DHs = ready.DHs /\ sealed.state.DHr = ready.DHr
      /\ sealed.state.Ns = ready.Ns + 1 /\ sealed.state.CKs = ready.CKs
  BY <1>2, <1>3 DEF RatchetFields
<1> QED
  BY SMT, Z3, <1>2, <1>3, <1>4

\* skipMessageKeys leaves the sending side alone.
LEMMA SkipFields ==
  ASSUME NEW s, DOMAIN s = RatchetFields, NEW until, NEW dh,
         NEW t, t = SkipMessageKeys(s, until, dh)
  PROVE  /\ DOMAIN t = RatchetFields
         /\ t.DHs = s.DHs /\ t.DHr = s.DHr /\ t.Ns = s.Ns /\ t.CKs = s.CKs
BY DEF SkipMessageKeys, RatchetFields

SameSide(s, t) ==
  /\ DOMAIN t = RatchetFields
  /\ t.DHs = s.DHs /\ t.Ns = s.Ns /\ t.CKs = s.CKs

\* open keeps the sending side, or replaces it by a chain with a new pair.
LEMMA OpenFields ==
  ASSUME NEW s, DOMAIN s = RatchetFields, NEW blob, NEW pair,
         NEW t, t = Opened(s, blob, pair)
  PROVE  \/ SameSide(s, t) /\ t.DHr \in {s.DHr, blob.dh}
         \/ /\ ~IsFirstReceive(s) /\ DOMAIN t = RatchetFields
            /\ t.DHs = pair /\ t.DHr = blob.dh /\ t.Ns = 0
            /\ t.CKs = <<"ck", t.CKs[2], {pair, blob.dh}>>
<1>1. PICK turned : turned = Turned(s, blob, pair)
  BY SMT, Z3
<1>2. CASE SkippedFor(s, blob) # {}
  BY <1>2 DEF Opened, SameSide, RatchetFields
<1>3. PICK u : u = SkipMessageKeys(turned, blob.n, blob.dh)
  BY SMT, Z3
<1>4. ASSUME SkippedFor(s, blob) = {}, DOMAIN turned = RatchetFields
      PROVE  SameSide(turned, t) /\ t.DHr = turned.DHr
  <2>1. /\ DOMAIN u = RatchetFields /\ u.DHs = turned.DHs /\ u.DHr = turned.DHr
        /\ u.Ns = turned.Ns /\ u.CKs = turned.CKs
    BY SMT, Z3, <1>3, <1>4, SkipFields
  <2>2. t = [u EXCEPT !.Nr = @ + 1]
    BY <1>1, <1>3, <1>4 DEF Opened
  <2> QED
    BY <2>1, <2>2 DEF SameSide, RatchetFields
<1>5. CASE SkippedFor(s, blob) = {} /\ s.DHr = blob.dh
  <2>1. turned = s
    BY <1>1, <1>5 DEF Turned
  <2> QED
    BY <1>4, <1>5, <2>1
<1>6. CASE /\ SkippedFor(s, blob) = {} /\ s.DHr # blob.dh
           /\ IsFirstReceive(s)
  <2>1. turned = BootstrapReceive(s, blob.dh)
    BY <1>1, <1>6 DEF Turned
  <2>2. SameSide(s, turned) /\ turned.DHr = blob.dh
    BY <2>1 DEF BootstrapReceive, SameSide, RatchetFields
  <2> QED
    BY <1>4, <1>6, <2>2 DEF SameSide
<1>7. CASE /\ SkippedFor(s, blob) = {} /\ s.DHr # blob.dh
           /\ ~IsFirstReceive(s)
  <2>1. PICK v : v = SkipMessageKeys(s, blob.pn, s.DHr)
    BY SMT, Z3
  <2>2. turned = DhRatchet(v, blob.dh, pair)
    BY <1>1, <1>7, <2>1 DEF Turned
  <2>3. PICK rk : /\ turned.DHs = pair /\ turned.DHr = blob.dh /\ turned.Ns = 0
                  /\ turned.CKs = <<"ck", rk, {pair, blob.dh}>>
                  /\ DOMAIN turned = RatchetFields
    BY <2>2 DEF DhRatchet, KdfRk, Dh, RatchetFields
  <2> QED
    BY SMT, Z3, <1>4, <1>7, <2>3 DEF SameSide
<1> QED
  BY <1>2, <1>5, <1>6,
       <1>7----------------------------------------------------------------------------
(* The steps keep the keys apart.                                           *)

\* A good blob after the step, in the queue.
LEMMA BlobInQueue ==
  ASSUME NEW m \in Messages, NEW b, b = envelopes'[m].blob, GoodBlob(b)'
  PROVE  GoodBlob(envelopes[m].blob)'
BY SMT, Z3 DEF GoodBlob, IsMessageKey, MessageKey, IsChain, Below, Started,
     Born, Live

\* A step that seals nothing keeps the envelopes.
LEMMA EnvelopesAfter ==
  ASSUME KeyInv,
         \A b : GoodBlob(b) => GoodBlob(b)',
         \A m \in Messages : HasEnvelope(m)' =>
           HasEnvelope(m) /\ envelopes'[m] = envelopes[m]
  PROVE  EnvelopesInv'
<1>1. ASSUME NEW m \in Messages, HasEnvelope(m)'
      PROVE  GoodBlob(envelopes[m].blob)'
  <2>1. HasEnvelope(m) /\ envelopes'[m] = envelopes[m]
    BY <1>1
  <2>2. PICK b : b = envelopes[m].blob
    BY SMT, Z3
  <2>3. GoodBlob(b)
    BY <2>1, <2>2 DEF KeyInv, EnvelopesInv
  <2> QED
    BY <2>1, <2>2, <2>3, BlobInQueue
<1>2. ASSUME NEW m \in Messages, NEW o \in Messages, HasEnvelope(m)',
             HasEnvelope(o)', m # o
      PROVE  envelopes'[m].blob.mk # envelopes'[o].blob.mk
  BY <1>2 DEF KeyInv, EnvelopesInv
<1> QED
  BY <1>1, <1>2 DEF EnvelopesInv

\* A session that goes on keeps the blobs good.
LEMMA BlobsAfter ==
  ASSUME KeyInv, NEW p \in Peers, NEW q \in Peers, NEW n \in Nat, NEW t,
         SessionBecomes(p, q, n, t), Advances(p, q, n, t)
  PROVE  \A b : GoodBlob(b) => GoodBlob(b)'
BY KeysAfter, StartedStays DEF GoodBlob

\* The session a message is sealed with may go on: it exists, or it is new.
LEMMA SendAdvances ==
  ASSUME KeyInv, NEW p \in Peers, NEW q \in Peers,
         NEW s, NEW n, s = Outgoing(p, q).session, n = Outgoing(p, q).keys,
         CanSeal(s), NEW sealed, sealed = Seal(s)
  PROVE  /\ n \in Nat /\ DOMAIN s = RatchetFields /\ s.Ns \in Nat
         /\ Advances(p, q, n, sealed.state) /\ sealed.state.CKs # NoKey
         /\ \/ Live(p, q) /\ s = sessions[p][q] /\ s.CKs # NoKey
            \/ OpensChain(p, q, n, sealed.state)
<1>1. PICK t : t = sealed.state
  BY SMT, Z3
<1>2. CASE sessions[p][q] # None
  <2>1. s = sessions[p][q] /\ n = 0 /\ Live(p, q) /\ GoodRatchet(s)
    BY <1>2 DEF Outgoing, Live, KeyInv, SessionsInv
  <2>2. DOMAIN s = RatchetFields /\ s.Ns \in Nat
    BY <2>1 DEF GoodRatchet
  <2>3. /\ DOMAIN t = RatchetFields /\ t.DHs = s.DHs /\ t.DHr = s.DHr
        /\ t.Ns = s.Ns + 1
        /\ t.CKs = IF s.CKs # NoKey THEN s.CKs
                   ELSE <<"ck", s.RK, {s.DHs, s.DHr}>>
    BY SMT, Z3, <1>1, <2>2, SealFields
  <2>4. t.Ns \in Nat /\ (t.DHr # NoKey => Started(t.DHr))
    BY SMT, Z3, <2>1, <2>2, <2>3 DEF GoodRatchet
  <2>5. CASE s.CKs # NoKey
    <3>1. Continues(p, q, t)
      BY SMT, Z3, <2>1, <2>2, <2>3, <2>5 DEF Continues
    <3> QED
      BY SMT, Z3, <1>1, <2>1, <2>2, <2>3, <2>4, <2>5, <3>1 DEF Advances
  <2>6. CASE s.CKs = NoKey
    <3>1. s.DHr # NoKey
      BY <2>6 DEF CanSeal
    <3>2. t.CKs = <<"ck", s.RK, {s.DHs, s.DHr}>>
      BY <2>3, <2>6
    <3>3. OpensChain(p, q, n, t)
      BY SMT, Z3, <2>1, <2>3, <2>4, <2>6, <3>1, <3>2 DEF OpensChain
    <3>4. t.CKs # NoKey
      BY SMT, Z3, <3>2 DEF NoKey
    <3> QED
      BY SMT, Z3, <1>1, <2>1, <2>2, <2>3, <2>4, <3>3, <3>4 DEF Advances
  <2> QED
    BY <2>5, <2>6
<1>3. CASE sessions[p][q] = None
  <2>1. PICK pair, sk : /\ pair = Pair(p, fresh[p] + 1)
                        /\ s = InitInitiator(sk, pair) /\ n = 2
    BY <1>3 DEF Outgoing
  <2>2. /\ DOMAIN s = RatchetFields /\ s.Ns = 0 /\ s.DHs = pair
        /\ s.DHr = NoKey /\ s.CKs = <<"ck", sk, {pair}>>
    BY SMT, Z3, <2>1 DEF InitInitiator, KdfRk, RatchetFields
  <2>3. s.CKs # NoKey
    BY SMT, Z3, <2>2 DEF NoKey
  <2>4. /\ DOMAIN t = RatchetFields /\ t.DHs = pair /\ t.DHr = NoKey
        /\ t.Ns = 1 /\ t.CKs = <<"ck", sk, {pair}>>
    <3>1. s.Ns \in Nat /\ s.Ns + 1 = 1
      BY SMT, Z3, <2>2
    <3>2. /\ DOMAIN t = RatchetFields /\ t.DHs = s.DHs /\ t.DHr = s.DHr
          /\ t.Ns = s.Ns + 1
          /\ t.CKs = IF s.CKs # NoKey THEN s.CKs
                     ELSE <<"ck", s.RK, {s.DHs, s.DHr}>>
      <4>1. DOMAIN s = RatchetFields /\ s.Ns \in Nat
        BY <2>2, <3>1
      <4> QED
        BY SMT, Z3, <1>1, <4>1, SealFields
    <3> QED
      BY <2>2, <2>3, <3>1, <3>2
  <2>5. NewPair(p, n, pair)
    <3>1. fresh[p] \in Nat
      BY DEF KeyInv, SessionsInv
    <3>2. fresh[p] + 1 \in fresh[p] .. fresh[p] + n - 1
      BY SMT, Z3, <2>1, <3>1
    <3> QED
      BY <2>1, <3>2 DEF NewPair
  <2>6. OpensChain(p, q, n, t)
    BY SMT, Z3, <2>4, <2>5 DEF OpensChain
  <2>7. t.CKs # NoKey
    BY SMT, Z3, <2>4 DEF NoKey
  <2> QED
    BY SMT, Z3, <1>1, <2>1, <2>2, <2>4, <2>6, <2>7 DEF Advances
<1> QED
  BY <1>2, <1>3

\* sendDirectMessage seals under a key no message has.
LEMMA SendKeyInv ==
  ASSUME DeliveryInv, KeyInv, NEW m \in Messages, SendDirectMessage(m)
  PROVE  KeyInv'
<1>1. PICK p \in Peers, q \in Peers : p = Sender[m] /\ q = Recipient[m]
  BY RoutesAssumption
<1>2. PICK s, n : s = Outgoing(p, q).session /\ n = Outgoing(p, q).keys
  BY SMT, Z3
<1>3. PICK sealed : sealed = Seal(s)
  BY SMT, Z3
<1>4. PICK t, b : t = sealed.state /\ b = sealed.blob
  BY SMT, Z3
<1>5. PICK e : e = [message |-> m, prefix |-> Outgoing(p, q).prefix, blob |-> b]
  OBVIOUS
<1>6. /\ CanSeal(s) /\ SessionBecomes(p, q, n, t)
      /\ queue' = [queue EXCEPT ![m] = "pending"]
      /\ envelopes' = [envelopes EXCEPT ![m] = e]
      /\ network' \subseteq network \cup {DmPacket(e)}
  BY <1>1, <1>2, <1>3, <1>4, <1>5 DEF SendDirectMessage, CommitSend,
       SessionBecomes
<1>7. /\ n \in Nat /\ DOMAIN s = RatchetFields /\ s.Ns \in Nat
      /\ Advances(p, q, n, t) /\ t.CKs # NoKey
      /\ \/ Live(p, q) /\ s = sessions[p][q] /\ s.CKs # NoKey
         \/ OpensChain(p, q, n, t)
  BY <1>2, <1>3, <1>4, <1>6, SendAdvances
<1>8. /\ t.Ns = s.Ns + 1 /\ b.dh = t.DHs /\ b.mk = MessageKey(t.CKs, s.Ns)
      /\ s.CKs # NoKey => t.CKs = s.CKs
  <2>1. /\ t.Ns = s.Ns + 1 /\ t.DHs = s.DHs
        /\ t.CKs = IF s.CKs # NoKey THEN s.CKs
                   ELSE <<"ck", s.RK, {s.DHs, s.DHr}>>
    BY <1>3, <1>4, <1>7, SealFields
  <2>2. b.dh = s.DHs /\ b.mk = MessageKey(t.CKs, s.Ns)
    BY <1>3, <1>4, <1>7, SealFields
  <2> QED
    BY <2>1, <2>2
<1>9. /\ SessionsInv' /\ \A x : GoodBlob(x) => GoodBlob(x)'
      /\ \A k : Started(k) => Started(k)'
      /\ GoodRatchet(t)' /\ Started(t.DHs)'
      /\ \A r, u \in Peers : Live(r, u) /\ <<r, u>> # <<p, q>> =>
           t.CKs # sessions[r][u].CKs
  BY SMT, Z3, <1>6, <1>7, KeysAfter, BlobsAfter, StartedStays, RatchetAfter
<1>10. /\ sessions'[p][q] = t
       /\ \A r, u \in Peers :
            <<r, u>> # <<p, q>> => sessions'[r][u] = sessions[r][u]
  BY SMT, Z3, <1>6, <1>7, SessionsAfter
<1>11. GoodBlob(b)'
  <2>1. b.mk[2] = t.CKs /\ b.mk[3] = s.Ns /\ b.mk = MessageKey(b.mk[2], b.mk[3])
    BY SMT, Z3, <1>8 DEF MessageKey
  <2>2. IsMessageKey(b.mk)'
    BY <1>7, <1>9, <2>1 DEF IsMessageKey, GoodRatchet, MessageKey
  <2>3. ASSUME NEW r \in Peers, NEW u \in Peers, Live(r, u)',
               b.mk[2] = sessions'[r][u].CKs
        PROVE  b.mk[3] < sessions'[r][u].Ns
    <3>1. CASE <<r, u>> = <<p, q>>
      BY SMT, Z3, <1>7, <1>8, <1>10, <2>1, <3>1
    <3>2. CASE <<r, u>> # <<p, q>>
      BY SMT, Z3, <1>9, <1>10, <2>1, <2>3, <3>2 DEF Live
    <3> QED
      BY <3>1, <3>2
  <2>4. Below(b.mk)'
    BY <2>3 DEF Below
  <2> QED
    BY <1>8, <1>9, <2>2, <2>4 DEF GoodBlob
<1>12. ASSUME NEW x, GoodBlob(x)
       PROVE  x.mk # b.mk
  <2> SUFFICES ASSUME x.mk = b.mk
               PROVE  FALSE
    BY SMT, Z3
  <2>1. x.mk[2] = t.CKs /\ x.mk[3] = s.Ns
    BY SMT, Z3, <1>8 DEF MessageKey
  <2>2. IsChain(t.CKs) /\ Below(x.mk)
    BY <1>12, <2>1 DEF GoodBlob, IsMessageKey
  <2>3. ~OpensChain(p, q, n, t)
    BY <1>7, <2>2, OpensNewChain
  <2>4. Live(p, q) /\ s = sessions[p][q] /\ t.CKs = s.CKs
    BY <1>7, <1>8, <2>3
  <2>5. s.Ns < s.Ns
    BY <2>1, <2>2, <2>4 DEF Below
  <2> QED
    BY SMT, Z3, <1>7, <2>5
<1>13. /\ envelopes'[m] = e /\ e.blob = b
       /\ \A o \in Messages \ {m} : /\ envelopes'[o] = envelopes[o]
                                    /\ HasEnvelope(o)' => HasEnvelope(o)
  BY <1>5, <1>6 DEF DeliveryInv, HasEnvelope, IsPending
<1>14. EnvelopesInv'
  <2>1. ASSUME NEW o \in Messages \ {m}, HasEnvelope(o)'
        PROVE  GoodBlob(envelopes[o].blob) /\ envelopes'[o] = envelopes[o]
    BY <1>13, <2>1 DEF KeyInv, EnvelopesInv
  <2>2. ASSUME NEW o \in Messages, HasEnvelope(o)'
        PROVE  GoodBlob(envelopes[o].blob)'
    <3>1. CASE o = m
      BY <1>11, <1>13, <3>1, BlobInQueue
    <3>2. CASE o # m
      <4>1. PICK x : x = envelopes[o].blob
        BY SMT, Z3
      <4>2. GoodBlob(x)
        BY <2>1, <2>2, <3>2, <4>1
      <4>3. GoodBlob(x)' /\ x = envelopes'[o].blob
        BY <1>9, <2>1, <2>2, <3>2, <4>1, <4>2
      <4> QED
        BY <4>3, BlobInQueue
    <3> QED
      BY <3>1, <3>2
  <2>3. ASSUME NEW o \in Messages \ {m}, HasEnvelope(o)'
        PROVE  envelopes'[o].blob.mk # b.mk
    BY <1>12, <2>1, <2>3
  <2>4. ASSUME NEW o \in Messages, NEW u \in Messages, HasEnvelope(o)',
               HasEnvelope(u)', o # u
        PROVE  envelopes'[o].blob.mk # envelopes'[u].blob.mk
    <3>1. CASE o # m /\ u # m
      BY <1>13, <2>4, <3>1 DEF KeyInv, EnvelopesInv
    <3>2. CASE o = m \/ u = m
      BY <1>13, <2>3, <2>4, <3>2
    <3> QED
      BY <3>1, <3>2
  <2> QED
    BY <2>2, <2>4 DEF EnvelopesInv
<1>15. PacketsInv'
  <2>1. ASSUME NEW packet \in network', packet.type = "dm"
        PROVE  Started(packet.envelope.blob.dh)'
    <3>1. CASE packet \in network
      BY <1>9, <2>1, <3>1 DEF KeyInv, PacketsInv
    <3>2. CASE packet = DmPacket(e)
      <4>1. packet.envelope.blob.dh = t.DHs
        BY <1>8, <1>13, <3>2 DEF DmPacket
      <4> QED
        BY <1>9, <4>1
    <3> QED
      BY <1>6, <2>1, <3>1, <3>2
  <2> QED
    BY <2>1 DEF PacketsInv
<1> QED
  BY <1>9, <1>14, <1>15 DEF KeyInv


\* Retention drops envelopes and changes none.
LEMMA EnvelopesLeft ==
  ASSUME DeliveryInv, NEW p, NEW compacted \in SUBSET Compactable(p),
         envelopes' = EnvelopesRetained(p, compacted), UNCHANGED queue
  PROVE  \A m \in Messages : HasEnvelope(m)' =>
           HasEnvelope(m) /\ envelopes'[m] = envelopes[m]
<1> SUFFICES ASSUME NEW m \in Messages, HasEnvelope(m)'
             PROVE  HasEnvelope(m) /\ envelopes'[m] = envelopes[m]
  BY SMT, Z3
<1>1. CASE IsPending(m)
  BY SMT, Z3, <1>1, RetentionKeeps DEF HasEnvelope
<1>2. CASE ~IsPending(m)
  <2>1. envelopes'[m] # None
    BY <1>2 DEF HasEnvelope, IsPending
  <2>2. envelopes'[m] = envelopes[m]
    BY <2>1 DEF EnvelopesRetained
  <2> QED
    BY <2>1, <2>2 DEF HasEnvelope
<1> QED
  BY <1>1, <1>2

\* A step that touches no session, generates no pair and seals nothing, and
\* sends again what is pending.
LEMMA KeysUntouched ==
  ASSUME KeyInv, UNCHANGED <<sessions, fresh>>,
         \A m \in Messages : HasEnvelope(m)' =>
           HasEnvelope(m) /\ envelopes'[m] = envelopes[m],
         \A packet \in network' :
           \/ packet \in network
           \/ packet.type # "dm"
           \/ \E m \in Messages : IsPending(m) /\ packet = DmPacket(envelopes[m])
  PROVE  KeyInv'
<1>1. \A k : Started(k) => Started(k)'
  BY DEF Started, Born, Live
<1>2. \A ck : IsChain(ck) => IsChain(ck)'
  BY <1>1 DEF IsChain
<1>3. \A b : GoodBlob(b) => GoodBlob(b)'
  BY <1>1, <1>2 DEF GoodBlob, IsMessageKey, Below, Live
<1>4. SessionsInv'
  <2>1. ASSUME NEW s, GoodRatchet(s)
        PROVE  GoodRatchet(s)'
    BY <1>1, <1>2, <2>1 DEF GoodRatchet, Born
  <2>2. PICK ss : ss = sessions /\ ss = sessions'
    BY SMT, Z3
  <2>3. ASSUME NEW p \in Peers, NEW q \in Peers, Live(p, q)'
        PROVE  GoodRatchet(sessions[p][q])'
    <3>1. GoodRatchet(ss[p][q])
      BY <2>2, <2>3 DEF KeyInv, SessionsInv, Live
    <3>2. PICK s : s = ss[p][q]
      BY SMT, Z3
    <3>3. GoodRatchet(s)'
      BY <2>1, <3>1, <3>2
    <3>4. sessions'[p][q] = s
      BY <2>2, <3>2
    <3> QED
      BY <3>3, <3>4 DEF GoodRatchet, Born, Started, IsChain, Live
  <2> QED
    BY SMT, Z3, <2>3 DEF KeyInv, SessionsInv, Live
<1>5. EnvelopesInv'
  BY <1>3, EnvelopesAfter
<1>6. PacketsInv'
  <2>1. ASSUME NEW packet \in network', packet.type = "dm"
        PROVE  Started(packet.envelope.blob.dh)
    <3>1. CASE packet \in network
      BY <2>1, <3>1 DEF KeyInv, PacketsInv
    <3>2. ASSUME NEW m \in Messages, IsPending(m), packet = DmPacket(envelopes[m])
          PROVE  Started(packet.envelope.blob.dh)
      BY <3>2 DEF KeyInv, EnvelopesInv, HasEnvelope, GoodBlob, DmPacket
    <3> QED
      BY <2>1, <3>1, <3>2
  <2> QED
    BY <1>1, <2>1 DEF PacketsInv
<1> QED
  BY <1>4, <1>5, <1>6 DEF KeyInv

\* What a packet leaves of the session it is opened with.
LEMMA ReceiveAdvances ==
  ASSUME KeyInv, NEW p \in Peers, NEW q \in Peers, NEW envelope,
         Started(envelope.blob.dh), NEW t,
         t = Opened(Staged(p, q, envelope), envelope.blob, Pair(p, fresh[p]))
  PROVE  Advances(p, q, 1, t)
<1>1. PICK s, pair, b : /\ s = Staged(p, q, envelope) /\ pair = Pair(p, fresh[p])
                        /\ b = envelope.blob
  BY SMT, Z3
<1>2. t = Opened(s, b, pair) /\ Started(b.dh)
  BY <1>1
<1>3. NewPair(p, 1, pair)
  <2>1. fresh[p] \in Nat
    BY DEF KeyInv, SessionsInv
  <2>2. fresh[p] \in fresh[p] .. fresh[p] + 1 - 1
    BY SMT, Z3, <2>1
  <2> QED
    BY <1>1, <2>2 DEF NewPair
<1>4. CASE Live(p, q)
  <2>1. s = sessions[p][q] /\ GoodRatchet(s)
    BY <1>1, <1>4 DEF Staged, Live, KeyInv, SessionsInv
  <2>2. DOMAIN s = RatchetFields /\ s.Ns \in Nat
    BY <2>1 DEF GoodRatchet
  <2>3. CASE SameSide(s, t) /\ t.DHr \in {s.DHr, b.dh}
    <3>1. Continues(p, q, t)
      BY SMT, Z3, <1>4, <2>1, <2>2, <2>3 DEF Continues, SameSide
    <3>2. t.DHr # NoKey => Started(t.DHr)
      BY <1>2, <2>1, <2>3 DEF GoodRatchet
    <3> QED
      BY <2>2, <2>3, <3>1, <3>2 DEF Advances, SameSide
  <2>4. CASE /\ DOMAIN t = RatchetFields /\ t.DHs = pair /\ t.DHr = b.dh
             /\ t.Ns = 0 /\ t.CKs = <<"ck", t.CKs[2], {pair, b.dh}>>
    <3>1. PICK rk : t.CKs = <<"ck", rk, {pair, b.dh}>>
      BY <2>4
    <3>2. t.CKs[3] = {pair, b.dh} /\ t.CKs = <<"ck", t.CKs[2], t.CKs[3]>>
      BY SMT, Z3, <3>1
    <3>3. OpensChain(p, q, 1, t)
      BY <1>2, <1>3, <2>4, <3>2 DEF OpensChain
    <3> QED
      BY SMT, Z3, <1>2, <2>4, <3>3 DEF Advances
  <2> QED
    BY SMT, Z3, <1>2, <2>2, <2>3, <2>4, OpenFields
<1>5. CASE ~Live(p, q)
  <2>1. /\ DOMAIN s = RatchetFields /\ s.DHs = pair /\ s.DHr = NoKey
        /\ s.CKs = NoKey /\ s.CKr = NoKey /\ s.Ns = 0
    BY <1>1, <1>5 DEF Staged, Live, InitResponder, RatchetFields
  <2>2. IsFirstReceive(s)
    BY <2>1 DEF IsFirstReceive
  <2>3. SameSide(s, t) /\ t.DHr \in {s.DHr, b.dh}
    BY <1>2, <2>1, <2>2, OpenFields
  <2>4. Waits(p, 1, t)
    BY <1>3, <2>1, <2>3 DEF Waits, SameSide
  <2>5. t.DHr # NoKey => Started(t.DHr)
    BY <1>2, <2>1, <2>3
  <2> QED
    BY SMT, Z3, <2>1, <2>3, <2>4, <2>5 DEF Advances, SameSide
<1> QED
  BY <1>4, <1>5


\* commitReceive seals nothing.
LEMMA ReceiveKeyInv ==
  ASSUME DeliveryInv, KeyInv, NEW packet \in network, packet.type = "dm",
         NEW compacted \in SUBSET Compactable(Recipient[packet.message]),
         CommitReceive(packet.message, packet.envelope, compacted),
         network' \subseteq network \cup {ReceiptPacket(packet.message)}
  PROVE  KeyInv'
<1>1. packet.message \in Messages
  BY DEF DeliveryInv
<1>2. PICK p \in Peers, q \in Peers :
        p = Recipient[packet.message] /\ q = Sender[packet.message]
  BY <1>1, RoutesAssumption
<1>3. PICK e, t : /\ e = packet.envelope
                  /\ t = Opened(Staged(p, q, e), e.blob, Pair(p, fresh[p]))
  BY SMT, Z3
<1>4. /\ SessionBecomes(p, q, 1, t)
      /\ envelopes' = EnvelopesRetained(p, compacted) /\ UNCHANGED queue
  BY <1>2, <1>3 DEF CommitReceive, SessionBecomes
<1>5. Advances(p, q, 1, t)
  <2>1. Started(e.blob.dh)
    BY <1>3 DEF KeyInv, PacketsInv
  <2> QED
    BY <1>3, <2>1, ReceiveAdvances
<1>6. /\ SessionsInv' /\ \A b : GoodBlob(b) => GoodBlob(b)'
      /\ \A k : Started(k) => Started(k)'
  BY <1>4, <1>5, KeysAfter, BlobsAfter, StartedStays
<1>7. EnvelopesInv'
  <2>1. compacted \in SUBSET Compactable(p)
    BY <1>2
  <2> QED
    BY <1>4, <1>6, <2>1, EnvelopesLeft, EnvelopesAfter
<1>8. PacketsInv'
  BY <1>6, PacketKinds DEF KeyInv, PacketsInv
<1> QED
  BY <1>6, <1>7, <1>8 DEF KeyInv

\* Every step keeps the invariant.
LEMMA NextKeyInv == DeliveryInv /\ KeyInv /\ [DmNext]_dmVars => KeyInv'
<1> SUFFICES ASSUME DeliveryInv, KeyInv, [DmNext]_dmVars
             PROVE  KeyInv'
  BY SMT, Z3
<1>1. ASSUME UNCHANGED <<durable, fresh>>, network' \subseteq network
      PROVE  KeyInv'
  BY <1>1, KeysUntouched DEF durable, HasEnvelope, IsPending
<1>2. ASSUME NEW p \in Peers, NEW q \in Peers, FetchBundle(p, q)
      PROVE  KeyInv'
  BY <1>1, <1>2 DEF FetchBundle
<1>3. ASSUME NEW p \in Peers, RefreshBundle(p) \/ Crash(p)
      PROVE  KeyInv'
  BY <1>1, <1>3 DEF RefreshBundle, Crash
<1>4. ASSUME NEW p \in Peers, NEW due \in SUBSET PendingOf(p),
             ProcessQueue(p, due) \/ Connect(p, due)
      PROVE  KeyInv'
  <2>1. /\ UNCHANGED <<durable, fresh>>
        /\ network' = network \cup {DmPacket(envelopes[m]) : m \in due}
    BY <1>4 DEF ProcessQueue, Connect
  <2>2. \A m \in due : m \in Messages /\ IsPending(m)
    BY <1>4 DEF PendingOf
  <2> QED
    BY <2>1, <2>2, KeysUntouched DEF durable, HasEnvelope, IsPending
<1>5. ASSUME NEW packet \in network,
             NEW compacted \in SUBSET Compactable(Recipient[packet.message]),
             \/ AcknowledgeAgain(packet, compacted)
             \/ DropDirectMessage(packet, compacted)
      PROVE  KeyInv'
  <2>1. /\ UNCHANGED <<sessions, fresh, queue>>
        /\ envelopes' = EnvelopesRetained(Recipient[packet.message], compacted)
        /\ network' \subseteq network \cup {ReceiptPacket(packet.message)}
    BY <1>5 DEF AcknowledgeAgain, DropDirectMessage
  <2>2. \A m \in Messages : HasEnvelope(m)' =>
          HasEnvelope(m) /\ envelopes'[m] = envelopes[m]
    BY <2>1, EnvelopesLeft
  <2>3. ReceiptPacket(packet.message).type # "dm"
    BY PacketKinds
  <2> QED
    BY <2>1, <2>2, <2>3, KeysUntouched
<1>6. ASSUME NEW packet \in network,
             NEW compacted \in SUBSET Compactable(Recipient[packet.message]),
             \/ ReceiveDirectMessage(packet, compacted)
             \/ ReceiveThenCrash(packet, compacted)
      PROVE  KeyInv'
  <2>1. /\ packet.type = "dm"
        /\ CommitReceive(packet.message, packet.envelope, compacted)
        /\ network' \subseteq network \cup {ReceiptPacket(packet.message)}
    BY <1>6 DEF ReceiveDirectMessage, ReceiveThenCrash, Arrives
  <2> QED
    BY <1>6, <2>1, ReceiveKeyInv
<1>7. ASSUME NEW packet \in network, HandleReceipt(packet)
      PROVE  KeyInv'
  <2>1. /\ UNCHANGED <<sessions, fresh, envelopes>> /\ network' \subseteq network
        /\ IF IsPending(packet.message)
           THEN queue' = [queue EXCEPT ![packet.message] = "delivered"]
           ELSE UNCHANGED queue
    BY <1>7 DEF HandleReceipt
  <2>2. \A m \in Messages : HasEnvelope(m)' =>
          HasEnvelope(m) /\ envelopes'[m] = envelopes[m]
    BY <2>1 DEF DeliveryInv, HasEnvelope, IsPending
  <2> QED
    BY <2>1, <2>2, KeysUntouched
<1>8. ASSUME NEW packet \in network, Lose(packet)
      PROVE  KeyInv'
  BY <1>1, <1>8 DEF Lose
<1>9. CASE UNCHANGED dmVars
  BY <1>1, <1>9 DEF dmVars
<1> QED
  BY <1>2, <1>3, <1>4, <1>5, <1>6, <1>7, <1>8, <1>9, SendKeyInv DEF DmNext,
       Handle

\* No two sessions share a sending chain, over every run of the devices.
LEMMA KeyInvariant == DmSpec => []KeyInv
<1>1. DmInit => KeyInv
  <2> SUFFICES ASSUME DmInit PROVE KeyInv
    BY SMT, Z3
  <2>1. \A p, q \in Peers : ~Live(p, q)
    BY DEF DmInit, Live
  <2>2. \A m \in Messages : ~HasEnvelope(m)
    BY DEF DmInit, HasEnvelope, IsPending
  <2>3. SessionsInv
    BY <2>1 DEF DmInit, SessionsInv
  <2>4. EnvelopesInv /\ PacketsInv
    BY <2>2 DEF DmInit, EnvelopesInv, PacketsInv
  <2> QED
    BY <2>3, <2>4 DEF KeyInv
<1> QED
  BY <1>1, NextKeyInv, DeliveryInvariant, PTL DEF DmSpec

\* No two messages are ever sealed under the same message key, whatever is
\* lost, retried, received out of order or cut short by a crash, since the
\* ratchet and the envelope are stored together (commitSend, commitReceive).
THEOREM KeysAreUsedOnce == DmSpec => []KeyUsedOnce
<1>1. KeyInv => KeyUsedOnce
  BY DEF KeyInv, EnvelopesInv, HasEnvelope, KeyUsedOnce
<1> QED
  BY <1>1, KeyInvariant, PTL


----------------------------------------------------------------------------
(* Clients without a device store.                                          *)

\* What the files hold, and what it says of a letter: a letter in the log was
\* queued, and one that was acknowledged or discharged is in the log.
FilesInv ==
  /\ backed \in BOOLEAN /\ torn \in BOOLEAN
  /\ prekeyAge \in Nat /\ handshakes \in Nat
  /\ sendRatchet \in SendRatchets \cup {NoRatchet}
  /\ sendBlob \in SendRatchets \cup {NoRatchet}
  /\ recvRatchet \in RecvRatchets \cup {NoRatchet}
  /\ outbound \in [Letters -> OutboundRows \cup {NoRatchet}]
  /\ events \subseteq Letters /\ receiptsSent \subseteq events
  /\ \A m \in Letters :
       /\ m \in events => outbound[m] # NoRatchet
       /\ outbound[m] # NoRatchet /\ outbound[m].state = "delivered" =>
            m \in events

PlainKept ==
  FilesInv' /\ [PlainDelivery!ContractNext]_PlainDelivery!contractVars

\* What ratchetSeal makes of the sender's session.
LEMMA SealedRow ==
  ASSUME FilesInv
  PROVE  /\ SendingRatchet \in SendRatchets /\ Advanced \in SendRatchets
         /\ Sealed \in OutboundRows /\ Sealed.state = "pending"
         /\ Advanced.handshake = SendingRatchet.handshake
         /\ Advanced.prekeys = SendingRatchet.prekeys
         /\ Advanced.next = SendingRatchet.next + 1
         /\ Sealed.handshake = SendingRatchet.handshake
         /\ Sealed.prekeys = SendingRatchet.prekeys
         /\ Sealed.number = SendingRatchet.next
         /\ Sealed.first = (sendRatchet = NoRatchet)
<1>1. SendingRatchet \in SendRatchets
  BY SMT, Z3 DEF FilesInv, SendingRatchet, SendRatchets
<1>2. PICK s \in SendRatchets : s = SendingRatchet
  BY <1>1
<1>3. Advanced = [s EXCEPT !.next = s.next + 1]
  BY <1>2 DEF Advanced
<1>4. /\ Advanced \in SendRatchets /\ Advanced.handshake = s.handshake
      /\ Advanced.prekeys = s.prekeys /\ Advanced.next = s.next + 1
  BY SMT, Z3, <1>3 DEF SendRatchets
<1>5. Sealed = [handshake |-> s.handshake, prekeys |-> s.prekeys,
                number |-> s.next, first |-> sendRatchet = NoRatchet,
                state |-> "pending"]
  BY <1>2 DEF Sealed
<1>6. Sealed \in OutboundRows
  BY <1>5 DEF OutboundRows, SendRatchets
<1> QED
  BY <1>1, <1>2, <1>4, <1>5, <1>6

\* What open makes of the recipient's session.
LEMMA UnsealedRatchet ==
  ASSUME FilesInv, NEW m \in Letters, Opens(m)
  PROVE  /\ outbound[m] \in OutboundRows /\ outbound[m] # NoRatchet
         /\ Unsealed(m) \in RecvRatchets
         /\ Unsealed(m).handshake = outbound[m].handshake
         /\ Unsealed(m).opened = {outbound[m].number} \cup
              IF recvRatchet = NoRatchet THEN {} ELSE recvRatchet.opened
<1>1. outbound[m] \in OutboundRows /\ outbound[m] # NoRatchet
  BY DEF FilesInv, Opens
<1>2. PICK old : old = IF recvRatchet = NoRatchet THEN {} ELSE recvRatchet.opened
  OBVIOUS
<1>3. old \in SUBSET Nat
  BY <1>2 DEF FilesInv, RecvRatchets
<1>4. outbound[m].handshake \in Nat /\ outbound[m].number \in Nat
  BY <1>1 DEF OutboundRows
<1>5. PICK new \in SUBSET Nat : new = {outbound[m].number} \cup old
  BY <1>3, <1>4
<1>6. Unsealed(m) = [handshake |-> outbound[m].handshake, opened |-> new]
  BY <1>2, <1>5 DEF Unsealed
<1>7. Unsealed(m) \in RecvRatchets
  BY SMT, Z3, <1>4, <1>6 DEF RecvRatchets
<1> QED
  BY SMT, Z3, <1>1, <1>2, <1>5, <1>6, <1>7

\* A session that is loaded again is one of the sessions.
LEMMA LoadedType ==
  ASSUME FilesInv, NEW S, NEW s \in S \cup {NoRatchet}
  PROVE  Loaded(s) \in S \cup {NoRatchet}
BY DEF Loaded

\* A letter moves from one phase of its life to another.
LEMMA PlainMoves ==
  ASSUME NEW m \in Letters, NEW from, NEW to, PlainPhase(m) = from,
         PlainPhase(m)' = to,
         \A o \in Letters \ {m} : PlainPhase(o)' = PlainPhase(o)
  PROVE  PlainDelivery!Move(m, from, to)
BY DEF PlainDelivery!Move

\* sendDirectMessage queues a letter.
LEMMA PlainSendKept ==
  ASSUME FilesInv, NEW m \in Letters, SendPlain(m)
  PROVE  PlainKept
<1>1. /\ outbound[m] = NoRatchet
      /\ sendRatchet' = Advanced /\ sendBlob' = Advanced
      /\ handshakes' = SendingRatchet.handshake
      /\ outbound' = [outbound EXCEPT ![m] = Sealed]
      /\ UNCHANGED <<backed, torn, prekeyAge, recvRatchet, events,
                     receiptsSent, delivered>>
  BY DEF SendPlain, Enqueued, recipientVars
<1>2. /\ Advanced \in SendRatchets /\ Sealed \in OutboundRows
      /\ Sealed.state = "pending" /\ SendingRatchet \in SendRatchets
  BY SealedRow
<1>3. SendingRatchet.handshake \in Nat /\ Sealed # NoRatchet
  BY <1>2, PlainAssumption DEF SendRatchets
<1>4. PICK row : row = Sealed
  BY SMT, Z3
<1>5. /\ outbound' \in [Letters -> OutboundRows \cup {NoRatchet}]
      /\ outbound'[m] = row
      /\ \A o \in Letters \ {m} : outbound'[o] = outbound[o]
  BY <1>1, <1>2, <1>4 DEF FilesInv
<1>6. m \notin events
  BY <1>1 DEF FilesInv
<1>7. FilesInv'
  <2>1. \A o \in Letters :
          /\ o \in events' => outbound'[o] # NoRatchet
          /\ outbound'[o] # NoRatchet /\ outbound'[o].state = "delivered" =>
               o \in events'
    BY <1>1, <1>2, <1>3, <1>4, <1>5 DEF FilesInv
  <2> QED
    BY <1>1, <1>2, <1>3, <1>5, <2>1 DEF FilesInv
<1>8. PlainPhase(m) = "unsent" /\ PlainPhase(m)' = "queued"
  BY <1>1, <1>2, <1>3, <1>4, <1>5, <1>6 DEF PlainPhase
<1>9. \A o \in Letters \ {m} : PlainPhase(o)' = PlainPhase(o)
  BY <1>1, <1>5 DEF PlainPhase
<1>10. PlainDelivery!Enqueue(m)
  BY <1>1, <1>8, <1>9, PlainMoves DEF PlainDelivery!Enqueue
<1> QED
  BY <1>7, <1>10 DEF PlainKept, PlainDelivery!ContractNext

\* A receipt discharges a row, and its letter was logged before it was sent.
LEMMA PlainReceiptKept ==
  ASSUME FilesInv, NEW m \in Letters, ReceiptHandled(m)
  PROVE  PlainKept
<1>1. /\ m \in events /\ outbound[m] # NoRatchet /\ outbound[m].state = "pending"
      /\ outbound' = [outbound EXCEPT ![m].state = "delivered"]
      /\ UNCHANGED <<backed, torn, prekeyAge, handshakes, sendRatchet, sendBlob,
                     recvRatchet, events, receiptsSent, delivered>>
  BY DEF ReceiptHandled, recipientVars, FilesInv
<1>2. PICK row \in OutboundRows : row = outbound[m]
  BY <1>1 DEF FilesInv
<1>3. PICK done : done = [row EXCEPT !.state = "delivered"]
  OBVIOUS
<1>4. done \in OutboundRows /\ done.state = "delivered"
  BY <1>3 DEF OutboundRows
<1>5. outbound' = [outbound EXCEPT ![m] = done]
  BY <1>1, <1>2, <1>3
<1>6. /\ outbound' \in [Letters -> OutboundRows \cup {NoRatchet}]
      /\ outbound'[m] = done /\ done # NoRatchet
      /\ \A o \in Letters \ {m} : outbound'[o] = outbound[o]
  BY <1>4, <1>5, PlainAssumption DEF FilesInv
<1>7. FilesInv'
  BY <1>1, <1>4, <1>6 DEF FilesInv
<1>8. PlainPhase(m) = "stored" /\ PlainPhase(m)' = "discharged"
  BY <1>1, <1>4, <1>6 DEF PlainPhase
<1>9. \A o \in Letters \ {m} : PlainPhase(o)' = PlainPhase(o)
  BY <1>1, <1>6 DEF PlainPhase
<1>10. PlainDelivery!Discharge(m)
  BY <1>1, <1>8, <1>9, PlainMoves DEF PlainDelivery!Discharge
<1> QED
  BY <1>7, <1>10 DEF PlainKept, PlainDelivery!ContractNext


\* A letter that opens is logged, and shown at most once more.
LEMMA PlainReceiveKept ==
  ASSUME FilesInv, NEW m \in Letters, m \notin events, Opens(m),
         events' = Logged(m), receiptsSent' \subseteq receiptsSent \cup {m},
         delivered' = delivered \/ delivered' = [delivered EXCEPT ![m] = @ + 1],
         recvRatchet' \in RecvRatchets \cup {NoRatchet},
         prekeyAge' \in Nat, torn' \in BOOLEAN, UNCHANGED <<backed, senderVars>>
  PROVE  PlainKept
<1>1. outbound[m] # NoRatchet /\ outbound[m].state # "delivered"
  BY DEF Opens, FilesInv
<1>2. events' = events \cup {m} /\ UNCHANGED <<backed, outbound, sendRatchet,
                                               sendBlob, handshakes>>
  BY DEF Logged, senderVars
<1>3. FilesInv'
  BY <1>1, <1>2 DEF FilesInv
<1>4. PlainPhase(m) = "queued" /\ PlainPhase(m)' = "stored"
  BY <1>1, <1>2 DEF PlainPhase
<1>5. \A o \in Letters \ {m} : PlainPhase(o)' = PlainPhase(o)
  BY <1>2 DEF PlainPhase
<1>6. PlainDelivery!Store(m) \/ PlainDelivery!StoreAndShow(m)
  BY <1>4, <1>5, PlainMoves DEF PlainDelivery!Store, PlainDelivery!StoreAndShow
<1> QED
  BY <1>3, <1>6 DEF PlainKept, PlainDelivery!ContractNext

\* A step that touches no row and logs nothing.
LEMMA PlainUntouched ==
  ASSUME FilesInv, UNCHANGED <<backed, outbound, events, delivered>>,
         receiptsSent' \subseteq events, torn' \in BOOLEAN,
         prekeyAge' \in Nat, handshakes' \in Nat,
         sendRatchet' \in SendRatchets \cup {NoRatchet},
         sendBlob' \in SendRatchets \cup {NoRatchet},
         recvRatchet' \in RecvRatchets \cup {NoRatchet}
  PROVE  PlainKept
<1>1. FilesInv'
  BY DEF FilesInv
<1>2. \A o \in Letters : PlainPhase(o)' = PlainPhase(o)
  BY DEF PlainPhase
<1>3. UNCHANGED PlainDelivery!contractVars
  BY <1>2 DEF PlainDelivery!contractVars
<1> QED
  BY <1>1, <1>3 DEF PlainKept

\* One step of either client.
LEMMA PlainStep == FilesInv /\ [PlainNext]_plainVars => PlainKept
<1> SUFFICES ASSUME FilesInv, [PlainNext]_plainVars
             PROVE  PlainKept
  BY SMT, Z3
<1>1. /\ sendRatchet \in SendRatchets \cup {NoRatchet}
      /\ sendBlob \in SendRatchets \cup {NoRatchet}
      /\ recvRatchet \in RecvRatchets \cup {NoRatchet}
      /\ Loaded(sendBlob) \in SendRatchets \cup {NoRatchet}
      /\ Loaded(recvRatchet) \in RecvRatchets \cup {NoRatchet}
      /\ prekeyAge \in Nat /\ prekeyAge + 1 \in Nat /\ handshakes \in Nat
      /\ receiptsSent \subseteq events /\ torn \in BOOLEAN
  BY SMT, Z3, LoadedType DEF FilesInv
<1>2. ASSUME NEW m \in Letters, SendCut(m)
      PROVE  PlainKept
  <2>1. /\ Advanced \in SendRatchets /\ SendingRatchet.handshake \in Nat
        /\ Loaded(Advanced) \in SendRatchets \cup {NoRatchet}
    BY SealedRow, LoadedType DEF SendRatchets
  <2>2. /\ sendBlob' = Advanced /\ sendRatchet' = Loaded(Advanced)
        /\ handshakes' = SendingRatchet.handshake
        /\ torn' = (torn \/ (backed <=> sendRatchet = NoRatchet))
        /\ UNCHANGED <<backed, outbound, prekeyAge, recvRatchet, events,
                       receiptsSent, delivered>>
    BY <1>2 DEF SendCut, recipientVars
  <2>3. torn' \in BOOLEAN
    BY <2>2
  <2> QED
    BY <1>1, <2>1, <2>2, <2>3, PlainUntouched
<1>3. ASSUME NEW m \in Letters, ReceiveAgain(m)
      PROVE  PlainKept
  BY <1>1, <1>3, PlainUntouched DEF ReceiveAgain, senderVars
<1>4. ASSUME NEW m \in Letters, ReceivePlain(m)
      PROVE  PlainKept
  <2>1. Unsealed(m) \in RecvRatchets
    BY <1>4, UnsealedRatchet DEF ReceivePlain
  <2> QED
    BY <1>1, <1>4, <2>1, PlainReceiveKept DEF ReceivePlain
<1>5. ASSUME NEW m \in Letters, NEW logged \in BOOLEAN, ReceiveCut(m, logged)
      PROVE  PlainKept
  <2>1. Loaded(Unsealed(m)) \in RecvRatchets \cup {NoRatchet}
    BY <1>5, UnsealedRatchet, LoadedType DEF ReceiveCut
  <2>2. torn' \in BOOLEAN
    BY <1>5 DEF ReceiveCut
  <2>3. CASE logged
    <3>1. /\ m \notin events /\ Opens(m) /\ events' = Logged(m)
          /\ recvRatchet' = Loaded(Unsealed(m)) /\ prekeyAge' = prekeyAge + 1
          /\ UNCHANGED <<backed, senderVars, receiptsSent, delivered>>
      BY <1>5, <2>3 DEF ReceiveCut
    <3> QED
      BY <1>1, <2>1, <2>2, <3>1, PlainReceiveKept
  <2>4. CASE ~logged
    <3>1. /\ events' = events
          /\ recvRatchet' = Loaded(Unsealed(m)) /\ prekeyAge' = prekeyAge + 1
          /\ UNCHANGED <<backed, senderVars, receiptsSent, delivered>>
      BY <1>5, <2>4 DEF ReceiveCut
    <3> QED
      BY <1>1, <2>1, <2>2, <3>1, PlainUntouched DEF senderVars
  <2> QED
    BY <2>3, <2>4
<1>6. ASSUME SenderRestarts
      PROVE  PlainKept
  <2>1. torn' \in BOOLEAN
    BY <1>6 DEF SenderRestarts
  <2> QED
    BY <1>1, <1>6, <2>1, PlainUntouched DEF SenderRestarts, recipientVars
<1>7. ASSUME RecipientRestarts
      PROVE  PlainKept
  <2>1. torn' \in BOOLEAN
    BY <1>7 DEF RecipientRestarts
  <2> QED
    BY <1>1, <1>7, <2>1, PlainUntouched DEF RecipientRestarts, senderVars
<1>8. CASE UNCHANGED plainVars
  BY <1>1, <1>8, PlainUntouched DEF plainVars
<1> QED
  BY <1>2, <1>3, <1>4, <1>5, <1>6, <1>7, <1>8, PlainSendKept, PlainReceiptKept
       DEF PlainNext

\* The files agree on a letter wherever a process dies.
LEMMA FilesInvariant == PlainSpec => []FilesInv
<1>1. PlainInit => FilesInv
  <2> SUFFICES ASSUME PlainInit PROVE FilesInv
    BY SMT, Z3
  <2>1. backed \in BOOLEAN /\ torn \in BOOLEAN
    BY DEF PlainInit
  <2> QED
    BY <2>1 DEF PlainInit, FilesInv
<1>2. FilesInv /\ [PlainNext]_plainVars => FilesInv'
  BY PlainStep DEF PlainKept
<1> QED
  BY <1>1, <1>2, PTL DEF PlainSpec

\* Clients without a device store implement the same delivery contract, with
\* files written one after the other and processes that die between two
\* writes (sendDirectMessage, handleAuthorizedDirectMessage, QueueManager).
THEOREM PlainClientsKeepContract == PlainSpec => PlainContract
<1>1. PlainInit => PlainDelivery!ContractInit
  BY DEF PlainInit, PlainDelivery!ContractInit, PlainPhase
<1>2. FilesInv /\ [PlainNext]_plainVars
        => [PlainDelivery!ContractNext]_PlainDelivery!contractVars
  BY PlainStep DEF PlainKept
<1> QED
  BY <1>1, <1>2, FilesInvariant, PTL
     DEF PlainSpec, PlainContract, PlainDelivery!ContractSpec


\* Until the files are torn apart, the sender has one handshake, and what is
\* queued was sealed with it under a number of its own.
SenderInv ==
  /\ backed => sendRatchet = sendBlob
  /\ sendRatchet = NoRatchet => \A m \in Letters : outbound[m] = NoRatchet
  /\ sendRatchet # NoRatchet =>
       /\ sendRatchet.handshake > 0 /\ handshakes > 0
       /\ \E m \in Letters : outbound[m] # NoRatchet /\ outbound[m].first
       /\ \A m \in Letters : outbound[m] # NoRatchet =>
            /\ outbound[m].handshake = sendRatchet.handshake
            /\ outbound[m].prekeys = sendRatchet.prekeys
            /\ outbound[m].number < sendRatchet.next
  /\ \A m, o \in Letters :
       outbound[m] # NoRatchet /\ outbound[o] # NoRatchet /\ m # o =>
         outbound[m].number # outbound[o].number

\* The recipient has opened what it has logged, or can open the first message.
RecipientInv ==
  /\ recvRatchet = NoRatchet =>
       /\ events = {}
       /\ sendRatchet # NoRatchet => sendRatchet.prekeys = prekeyAge
  /\ recvRatchet # NoRatchet =>
       /\ sendRatchet # NoRatchet
       /\ recvRatchet.handshake = sendRatchet.handshake
       /\ \A n \in recvRatchet.opened :
            \E m \in events : outbound[m].number = n

RetryInv == ~torn => SenderInv /\ RecipientInv

\* sendDirectMessage, to its end: the letter is sealed under the next number.
LEMMA SendRetryInv ==
  ASSUME FilesInv, SenderInv, RecipientInv, NEW m \in Letters, SendPlain(m)
  PROVE  SenderInv' /\ RecipientInv'
<1>1. PICK s \in SendRatchets, a \in SendRatchets, row \in OutboundRows :
        s = SendingRatchet /\ a = Advanced /\ row = Sealed
  BY SealedRow
<1>2. /\ a.handshake = s.handshake /\ a.prekeys = s.prekeys
      /\ a.next = s.next + 1 /\ s.next \in Nat /\ s.handshake \in Nat
      /\ row.handshake = s.handshake /\ row.prekeys = s.prekeys
      /\ row.number = s.next /\ row.first = (sendRatchet = NoRatchet)
      /\ a # NoRatchet /\ row # NoRatchet
  BY <1>1, SealedRow, PlainAssumption DEF SendRatchets
<1>3. /\ outbound[m] = NoRatchet /\ sendRatchet' = a /\ sendBlob' = a
      /\ handshakes' = s.handshake
      /\ outbound' = [outbound EXCEPT ![m] = row]
      /\ UNCHANGED <<backed, prekeyAge, recvRatchet, events>>
  BY <1>1 DEF SendPlain, Enqueued, recipientVars
<1>4. /\ outbound'[m] = row
      /\ \A o \in Letters \ {m} : outbound'[o] = outbound[o]
  BY <1>3 DEF FilesInv
<1>5. \A o \in Letters : outbound[o] # NoRatchet => outbound[o].number \in Nat
  BY DEF FilesInv, OutboundRows
<1>6. m \notin events /\ events \subseteq Letters
  BY <1>3 DEF FilesInv
<1>7. CASE sendRatchet = NoRatchet
  <2>1. s.handshake = handshakes + 1 /\ s.prekeys = prekeyAge /\ s.next = 0
    BY <1>1, <1>7 DEF SendingRatchet
  <2>2. s.handshake > 0
    BY SMT, Z3, <2>1 DEF FilesInv
  <2>3. recvRatchet = NoRatchet /\ events = {}
    BY <1>7 DEF RecipientInv
  <2>4. \A o \in Letters \ {m} : outbound'[o] = NoRatchet
    BY <1>4, <1>7 DEF SenderInv
  <2>5. row.number < a.next
    BY SMT, Z3, <1>2
  <2>6. row.first
    BY <1>2, <1>7
  <2>7. SenderInv'
    BY SMT, Z3, <1>2, <1>3, <1>4, <2>2, <2>4, <2>5, <2>6 DEF SenderInv
  <2>8. RecipientInv'
    BY <1>2, <1>3, <2>1, <2>3 DEF RecipientInv
  <2> QED
    BY <2>7, <2>8
<1>8. CASE sendRatchet # NoRatchet
  <2>1. s = sendRatchet
    BY <1>1, <1>8 DEF SendingRatchet
  <2>2. \A o \in Letters : outbound[o] # NoRatchet =>
          /\ outbound[o].handshake = s.handshake /\ outbound[o].prekeys = s.prekeys
          /\ outbound[o].number < s.next
    BY <1>8, <2>1 DEF SenderInv
  <2>3. \A o \in Letters : outbound'[o] # NoRatchet =>
          /\ outbound'[o].handshake = a.handshake
          /\ outbound'[o].prekeys = a.prekeys
          /\ outbound'[o].number < a.next
    BY SMT, Z3, <1>2, <1>4, <1>5, <2>2
  <2>4. \A o, u \in Letters :
          outbound'[o] # NoRatchet /\ outbound'[u] # NoRatchet /\ o # u =>
            outbound'[o].number # outbound'[u].number
    BY SMT, Z3, <1>2, <1>4, <1>5, <2>2 DEF SenderInv
  <2>5. \E o \in Letters : outbound'[o] # NoRatchet /\ outbound'[o].first
    BY <1>3, <1>4, <1>8 DEF SenderInv
  <2>6. s.handshake > 0
    <3>1. PICK o \in Letters : outbound[o] # NoRatchet
      BY <1>8 DEF SenderInv
    <3> QED
      BY <1>8, <2>1 DEF SenderInv
  <2>7. SenderInv'
    BY <1>2, <1>3, <2>3, <2>4, <2>5, <2>6 DEF SenderInv
  <2>8. RecipientInv'
    BY SMT, Z3, <1>2, <1>3, <1>4, <1>6, <1>8, <2>1 DEF RecipientInv
  <2> QED
    BY <2>7, <2>8
<1> QED
  BY <1>7, <1>8

\* sendDirectMessage, when the process dies between two of its files.
LEMMA SendCutRetryInv ==
  ASSUME FilesInv, SenderInv, RecipientInv, NEW m \in Letters, SendCut(m), ~torn'
  PROVE  SenderInv' /\ RecipientInv'
<1>1. PICK s \in SendRatchets, a \in SendRatchets :
        s = SendingRatchet /\ a = Advanced
  BY SealedRow
<1>2. /\ a.handshake = s.handshake /\ a.prekeys = s.prekeys
      /\ a.next = s.next + 1 /\ s.next \in Nat /\ s.handshake \in Nat
      /\ a # NoRatchet
  BY <1>1, SealedRow, PlainAssumption DEF SendRatchets
<1>3. /\ sendRatchet' = IF backed THEN a ELSE NoRatchet
      /\ sendBlob' = a /\ handshakes' = s.handshake
      /\ UNCHANGED <<backed, outbound, prekeyAge, recvRatchet, events>>
  BY <1>1 DEF SendCut, Loaded, recipientVars
<1>4. ~(backed <=> sendRatchet = NoRatchet) /\ backed \in BOOLEAN
  BY DEF SendCut, FilesInv
<1>5. CASE ~backed
  <2>1. sendRatchet = NoRatchet /\ sendRatchet' = NoRatchet
    BY <1>3, <1>4, <1>5
  <2> QED
    BY <1>3, <1>5, <2>1 DEF SenderInv, RecipientInv
<1>6. CASE backed
  <2>1. sendRatchet # NoRatchet /\ sendRatchet' = a
    BY <1>3, <1>4, <1>6
  <2>2. s = sendRatchet
    BY <1>1, <2>1 DEF SendingRatchet
  <2>3. \A o \in Letters : outbound[o] # NoRatchet =>
          outbound[o].number \in Nat /\ outbound[o].number < s.next
    BY <2>1, <2>2 DEF SenderInv, FilesInv, OutboundRows
  <2>4. \A o \in Letters : outbound[o] # NoRatchet =>
          outbound[o].number < a.next
    BY SMT, Z3, <1>2, <2>3
  <2>5. SenderInv'
    BY <1>2, <1>3, <2>1, <2>2, <2>4 DEF SenderInv
  <2>6. RecipientInv'
    BY <1>2, <1>3, <2>1, <2>2 DEF RecipientInv
  <2> QED
    BY <2>5, <2>6
<1> QED
  BY <1>4, <1>5, <1>6

\* A receipt discharges a letter that the recipient has logged.
LEMMA ReceiptRetryInv ==
  ASSUME FilesInv, SenderInv, RecipientInv, NEW m \in Letters, ReceiptHandled(m)
  PROVE  SenderInv' /\ RecipientInv'
<1>1. /\ outbound[m] # NoRatchet
      /\ outbound' = [outbound EXCEPT ![m].state = "delivered"]
      /\ UNCHANGED <<backed, sendRatchet, sendBlob, handshakes, prekeyAge,
                     recvRatchet, events>>
  BY DEF ReceiptHandled, recipientVars
<1>2. PICK row \in OutboundRows : row = outbound[m]
  BY <1>1 DEF FilesInv
<1>3. PICK done : done = [row EXCEPT !.state = "delivered"]
  OBVIOUS
<1>4. /\ done \in OutboundRows /\ done.first = row.first
      /\ done.handshake = row.handshake /\ done.prekeys = row.prekeys
      /\ done.number = row.number
  BY <1>3 DEF OutboundRows
<1>5. outbound'[m] = done /\ \A o \in Letters \ {m} : outbound'[o] = outbound[o]
  BY <1>1, <1>2, <1>3 DEF FilesInv
<1>6. \A o \in Letters :
        /\ outbound'[o] = NoRatchet <=> outbound[o] = NoRatchet
        /\ outbound[o] # NoRatchet =>
             /\ outbound'[o].first = outbound[o].first
             /\ outbound'[o].handshake = outbound[o].handshake
             /\ outbound'[o].prekeys = outbound[o].prekeys
             /\ outbound'[o].number = outbound[o].number
  BY <1>1, <1>2, <1>4, <1>5, PlainAssumption
<1>7. SenderInv'
  BY SMT, Z3, <1>1, <1>6 DEF SenderInv
<1>8. RecipientInv'
  BY SMT, Z3, <1>1, <1>6 DEF RecipientInv, FilesInv
<1> QED
  BY <1>7, <1>8

\* A letter that is opened and logged.
LEMMA ReceiveRetryInv ==
  ASSUME FilesInv, SenderInv, RecipientInv, NEW m \in Letters, m \notin events,
         Opens(m), recvRatchet' = Unsealed(m), events' = Logged(m),
         UNCHANGED <<backed, senderVars>>
  PROVE  SenderInv' /\ RecipientInv'
<1>1. SenderInv'
  BY DEF SenderInv, senderVars
<1>2. PICK u \in RecvRatchets : u = Unsealed(m)
  BY UnsealedRatchet
<1>3. /\ u.handshake = outbound[m].handshake /\ u # NoRatchet
      /\ u.opened = {outbound[m].number} \cup
           IF recvRatchet = NoRatchet THEN {} ELSE recvRatchet.opened
  BY <1>2, UnsealedRatchet, PlainAssumption
<1>4. recvRatchet' = u /\ events' = events \cup {m} /\ UNCHANGED <<sendRatchet, outbound>>
  BY <1>2 DEF Logged, senderVars
<1>5. outbound[m] # NoRatchet
  BY DEF Opens
<1>6. sendRatchet # NoRatchet /\ u.handshake = sendRatchet.handshake
  BY <1>3, <1>5 DEF SenderInv
<1>7. \A n \in u.opened : \E o \in events' : outbound[o].number = n
  BY <1>3, <1>4 DEF RecipientInv
<1>8. RecipientInv'
  BY <1>3, <1>4, <1>6, <1>7 DEF RecipientInv
<1> QED
  BY <1>1, <1>8

\* Every step keeps the invariant.
LEMMA NextRetryInv == FilesInv /\ RetryInv /\ [PlainNext]_plainVars => RetryInv'
<1> SUFFICES ASSUME FilesInv, RetryInv, [PlainNext]_plainVars, ~torn'
             PROVE  SenderInv' /\ RecipientInv'
  BY DEF RetryInv
<1>1. ~torn
  BY DEF PlainNext, plainVars, SendPlain, SendCut, ReceiptHandled, ReceiveAgain,
       ReceivePlain, ReceiveCut, SenderRestarts, RecipientRestarts
<1>2. SenderInv /\ RecipientInv
  BY <1>1 DEF RetryInv
<1>3. ASSUME UNCHANGED <<backed, senderVars, prekeyAge, recvRatchet, events>>
      PROVE  SenderInv' /\ RecipientInv'
  BY <1>2, <1>3 DEF SenderInv, RecipientInv, senderVars
<1>4. ASSUME NEW m \in Letters, ReceiveAgain(m)
      PROVE  SenderInv' /\ RecipientInv'
  BY <1>3, <1>4 DEF ReceiveAgain
<1>5. ASSUME NEW m \in Letters, ReceivePlain(m)
      PROVE  SenderInv' /\ RecipientInv'
  BY <1>2, <1>5, ReceiveRetryInv DEF ReceivePlain
<1>6. ASSUME NEW m \in Letters, NEW logged \in BOOLEAN, ReceiveCut(m, logged)
      PROVE  SenderInv' /\ RecipientInv'
  <2>1. logged /\ backed
    BY <1>6 DEF ReceiveCut
  <2>2. /\ m \notin events /\ Opens(m) /\ recvRatchet' = Unsealed(m)
        /\ events' = Logged(m) /\ UNCHANGED <<backed, senderVars>>
    BY <1>6, <2>1 DEF ReceiveCut, Loaded
  <2> QED
    BY <1>2, <2>2, ReceiveRetryInv
<1>7. ASSUME SenderRestarts
      PROVE  SenderInv' /\ RecipientInv'
  <2>1. /\ sendRatchet' = Loaded(sendBlob)
        /\ backed \/ sendRatchet = NoRatchet
        /\ UNCHANGED <<backed, sendBlob, outbound, handshakes, prekeyAge,
                       recvRatchet, events>>
    BY <1>7 DEF SenderRestarts, recipientVars
  <2>2. sendRatchet' = sendRatchet
    BY <1>2, <1>7, <2>1 DEF SenderInv, Loaded, SenderRestarts
  <2> QED
    BY <1>3, <2>1, <2>2 DEF senderVars
<1>8. ASSUME RecipientRestarts
      PROVE  SenderInv' /\ RecipientInv'
  <2>1. /\ recvRatchet' = Loaded(recvRatchet)
        /\ Loaded(recvRatchet) # NoRatchet \/ ~(handshakes > 0)
        /\ UNCHANGED <<backed, sendRatchet, sendBlob, outbound, handshakes, events>>
    BY <1>8 DEF RecipientRestarts, senderVars
  <2>2. SenderInv'
    BY <1>2, <2>1 DEF SenderInv
  <2>3. CASE Loaded(recvRatchet) # NoRatchet
    <3>1. recvRatchet' = recvRatchet /\ recvRatchet # NoRatchet
      BY <2>1, <2>3 DEF Loaded
    <3> QED
      BY <1>2, <2>1, <2>2, <3>1 DEF RecipientInv
  <2>4. CASE ~(handshakes > 0)
    <3>1. sendRatchet = NoRatchet /\ recvRatchet = NoRatchet
      BY <1>2, <2>4 DEF SenderInv, RecipientInv
    <3>2. recvRatchet' = NoRatchet
      BY <2>1, <3>1 DEF Loaded
    <3> QED
      BY <1>2, <2>1, <2>2, <3>1, <3>2 DEF RecipientInv
  <2> QED
    BY <2>1, <2>3, <2>4
<1>9. CASE UNCHANGED plainVars
  BY <1>3, <1>9 DEF plainVars, senderVars
<1> QED
  BY <1>2, <1>4, <1>5, <1>6, <1>7, <1>8, <1>9, SendRetryInv, SendCutRetryInv,
       ReceiptRetryInv DEF PlainNext

\* "there is no silent retry-count cutoff": unless a process died where the
\* files cannot be brought together again, a queued letter can be opened, as
\* it is or after the first message of its session.
THEOREM RetriesWork == PlainSpec => []RetryWorks
<1>1. PlainInit => RetryInv
  BY DEF PlainInit, RetryInv, SenderInv, RecipientInv
<1>2. FilesInv /\ RetryInv => RetryWorks
  <2> SUFFICES ASSUME FilesInv, RetryInv, ~torn, NEW m \in Letters,
                      outbound[m] # NoRatchet, m \notin events
               PROVE  \/ Opens(m)
                      \/ /\ recvRatchet = NoRatchet
                         /\ \E first \in Letters :
                              /\ Opens(first) /\ first \notin events
                              /\ outbound[first].handshake = outbound[m].handshake
    BY DEF RetryWorks
  <2>1. SenderInv /\ RecipientInv
    BY DEF RetryInv
  <2>2. CASE recvRatchet # NoRatchet
    <3>1. recvRatchet.handshake = outbound[m].handshake
      BY <2>1, <2>2 DEF SenderInv, RecipientInv
    <3>2. outbound[m].number \notin recvRatchet.opened
      BY SMT, Z3, <2>1, <2>2 DEF SenderInv, RecipientInv, FilesInv
    <3> QED
      BY <2>2, <3>1, <3>2 DEF Opens
  <2>3. CASE recvRatchet = NoRatchet
    <3>1. sendRatchet # NoRatchet
      BY <2>1 DEF SenderInv
    <3>2. PICK o \in Letters : outbound[o] # NoRatchet /\ outbound[o].first
      BY <2>1, <3>1 DEF SenderInv
    <3>3. /\ outbound[o].handshake = outbound[m].handshake
          /\ outbound[o].prekeys = prekeyAge /\ events = {}
      BY <2>1, <2>3, <3>1, <3>2 DEF SenderInv, RecipientInv
    <3> QED
      BY <2>3, <3>2, <3>3 DEF Opens
  <2> QED
    BY <2>2, <2>3
<1> QED
  BY <1>1, <1>2, NextRetryInv, FilesInvariant, PTL DEF PlainSpec
=============================================================================
