---------------------------- MODULE DirectMessages ----------------------------
(***************************************************************************)
(* Direct messages between persistent clients: dm.ts, persistent-client.ts, *)
(* queue-manager.ts and x3dh.ts of packages/client/src, over a relay that   *)
(* loses packets (it drops what is addressed to a peer that is offline),    *)
(* delivers the copies a sender retries, and, with the direct channel       *)
(* beside it, delivers them in any order.                                   *)
(*                                                                          *)
(* A client's durable state (ratchet sessions, one-time prekeys, outbox,    *)
(* inbox) survives a crash; the cached bundles of its peers do not.  The    *)
(* handlers are synchronous, so one is one action, except that a process    *)
(* may die after its transaction committed and before it acknowledged.      *)
(* The signatures and certificates of packets are taken as valid: a packet  *)
(* that fails them is dropped, which the relay can do as well.              *)
(***************************************************************************)
EXTENDS DoubleRatchet, FiniteSetsExt

CONSTANTS
  Peers,
  Messages,
  Sender,             \* [Messages -> Peers]
  Recipient,          \* [Messages -> Peers]
  Initiators,         \* the peers whose users start conversations
  OneTimeCount,       \* one-time prekeys of a fresh device
  Limited,            \* whether configureLimits was called
  MaxInbox,           \* limits.inbox
  MaxInboxPerPeer,    \* limits.inboxPerPeer
  MaxQueued,          \* limits.pending
  MaxQueuedPerPeer,   \* limits.pendingPerPeer
  MaxCrashes,         \* bound on crashes and disconnections
  None

ASSUME RoutesAssumption ==
  /\ Sender \in [Messages -> Peers]
  /\ Recipient \in [Messages -> Peers]
  /\ \A m \in Messages : Sender[m] # Recipient[m]

ASSUME LimitsAssumption ==
  /\ IsFiniteSet(Messages) /\ OneTimeCount \in Nat /\ MaxCrashes \in Nat
  /\ MaxInbox \in Nat /\ MaxInboxPerPeer \in Nat
  /\ MaxQueued \in Nat /\ MaxQueuedPerPeer \in Nat

VARIABLES
  sessions,   \* ratchet:<session>  [Peers -> [Peers -> ratchet or None]]
  prekeys,    \* prekeys:v1, the one-time ids left  [Peers -> SUBSET Nat]
  queue,      \* queue:<id>, at the sender  "none", "pending", "delivered"
  envelopes,  \* the envelope of the queue item, None once it is compacted
  inbox,      \* inbox:<id>, at the recipient  "none", "live", "expired"
  directory,  \* the bundles presence holds: the one-time id offered, if any
  bundles,    \* prekeys.ts `published`, a process's copies of the directory
  online,
  network,    \* packets on their way
  shown,      \* how often the application was handed a message
  confirmed,  \* how often verified_delivery_receipt was emitted
  fresh,      \* key pairs a peer has generated
  crashes

durable == <<sessions, prekeys, queue, envelopes, inbox>>
dmVars == <<durable, directory, bundles, online, network, shown, confirmed,
            fresh, crashes>>

Pair(p, i) == <<p, i>>

DmPacket(envelope) == [type |-> "dm", message |-> envelope.message,
                       envelope |-> envelope]
ReceiptPacket(m) == [type |-> "receipt", message |-> m]

----------------------------------------------------------------------------
(* Queries on the durable state.                                            *)

IsPending(m) == queue[m] = "pending"

PendingTo(p, q) ==
  {m \in Messages : IsPending(m) /\ Sender[m] = p /\ Recipient[m] = q}

PendingOf(p) == {m \in Messages : IsPending(m) /\ Sender[m] = p}

LiveInbox(p, compacted) ==
  {m \in Messages : /\ Recipient[m] = p
                    /\ inbox[m] = "live"
                    /\ m \notin compacted}

HasIncoming(m) == inbox[m] # "none"

\* exportBundle offers the first one-time key that is left.
ExportBundle(left) == IF left = {} THEN {} ELSE {Min(left)}

Compactable(p) ==
  {m \in Messages :
     /\ Limited
     /\ \/ /\ Sender[m] = p
           /\ queue[m] = "delivered" /\ envelopes[m] # None
        \/ Recipient[m] = p /\ inbox[m] = "live"}

EnvelopesRetained(p, compacted) ==
  [m \in Messages |-> IF Sender[m] = p /\ m \in compacted
                      THEN None ELSE envelopes[m]]

InboxRetained(p, compacted) ==
  [m \in Messages |-> IF Recipient[m] = p /\ m \in compacted
                      THEN "expired" ELSE inbox[m]]

----------------------------------------------------------------------------
(* Sending.                                                                 *)

\* sendDirectMessage, up to its await of the peer's published bundle.
FetchBundle(p, q) ==
  /\ online[p] /\ p # q
  /\ sessions[p][q] = None
  /\ directory[q] # None
  /\ bundles' = [bundles EXCEPT ![p][q] = directory[q]]
  /\ UNCHANGED <<durable, directory, online, network, shown, confirmed, fresh,
                 crashes>>

CanEnqueue(p, q) ==
  Limited => /\ Cardinality(PendingOf(p)) < MaxQueued
             /\ Cardinality(PendingTo(p, q)) < MaxQueuedPerPeer

\* The session sendDirectMessage seals with, read again after the await, and
\* the X3DH prefix that a new one puts before the ciphertext.
Outgoing(p, q) ==
  IF sessions[p][q] # None
  THEN [session |-> sessions[p][q], prefix |-> None, keys |-> 0]
  ELSE [session |-> InitInitiator(Secret(Pair(p, fresh[p]), bundles[p][q]),
                                  Pair(p, fresh[p] + 1)),
        prefix |-> [ephemeral |-> Pair(p, fresh[p]),
                    oneTime |-> bundles[p][q]],
        keys |-> 2]

\* Mutant: the ratchet is written when it is created, not when it advances.
CommitFirstSession(m, session, envelope) ==
  /\ sessions' = [sessions EXCEPT ![Sender[m]][Recipient[m]] =
                    IF @ = None THEN session ELSE @]
  /\ queue' = [queue EXCEPT ![m] = "pending"]
  /\ envelopes' = [envelopes EXCEPT ![m] = envelope]

\* commitSend: the advanced ratchet and the queue item in one transaction.
CommitSend(m, session, envelope) ==
  /\ sessions' = [sessions EXCEPT ![Sender[m]][Recipient[m]] = session]
  /\ queue' = [queue EXCEPT ![m] = "pending"]
  /\ envelopes' = [envelopes EXCEPT ![m] = envelope]

\* The rest of sendDirectMessage: seal, commit, and a first transmission when
\* online.
SendDirectMessage(m) ==
  LET p == Sender[m]
      q == Recipient[m]
      out == Outgoing(p, q)
      sealed == Seal(out.session)
      envelope == [message |-> m, prefix |-> out.prefix, blob |-> sealed.blob]
  IN  /\ queue[m] = "none"
      /\ sessions[p][q] = None => p \in Initiators /\ bundles[p][q] # None
      /\ CanSeal(out.session)
      /\ CanEnqueue(p, q)
      /\ CommitSend(m, sealed.state, envelope)
      /\ fresh' = [fresh EXCEPT ![p] = @ + out.keys]
      /\ network' = IF online[p] THEN network \cup {DmPacket(envelope)}
                    ELSE network
      /\ UNCHANGED <<prekeys, inbox, directory, bundles, online, shown,
                     confirmed, crashes>>

\* processQueue: send again what is pending and due.  Which items are due is
\* a matter of their backoff only, and a presence event flushes them all.
ProcessQueue(p, due) ==
  /\ online[p]
  /\ due # {} /\ due \subseteq PendingOf(p)
  /\ network' = network \cup {DmPacket(envelopes[m]) : m \in due}
  /\ UNCHANGED <<durable, directory, bundles, online, shown, confirmed, fresh,
                 crashes>>

----------------------------------------------------------------------------
(* Receiving.                                                               *)

\* The copy of the ratchet that handleAuthorizedDirectMessage works on: the
\* stored one, or a responder made from the prefix.
CanStage(p, q, envelope) ==
  sessions[p][q] = None =>
    /\ envelope.prefix # None
    /\ envelope.prefix.oneTime \subseteq prekeys[p]

Staged(p, q, envelope) ==
  IF sessions[p][q] # None THEN sessions[p][q]
  ELSE InitResponder(Secret(envelope.prefix.ephemeral,
                            envelope.prefix.oneTime),
                     Pair(p, fresh[p]))

\* commitReceive finds room for one more live message.
HasRoom(p, q, compacted) ==
  LET live == LiveInbox(p, compacted)
  IN  Limited => /\ Cardinality(live) < MaxInbox
                 /\ Cardinality({m \in live : Sender[m] = q}) < MaxInboxPerPeer

CanReceive(m, envelope, compacted) ==
  LET p == Recipient[m]
      q == Sender[m]
  IN  /\ CanStage(p, q, envelope)
      /\ CanOpen(Staged(p, q, envelope), envelope.blob, Pair(p, fresh[p]))
      /\ HasRoom(p, q, compacted)

\* commitReceive: ratchet, consumed one-time key and inbox in one
\* transaction.
CommitReceive(m, envelope, compacted) ==
  LET p == Recipient[m]
      q == Sender[m]
  IN  /\ sessions' = [sessions EXCEPT ![p][q] =
                        Opened(Staged(p, q, envelope), envelope.blob,
                               Pair(p, fresh[p]))]
      /\ prekeys' = [prekeys EXCEPT ![p] =
                       IF sessions[p][q] = None
                       THEN @ \ envelope.prefix.oneTime ELSE @]
      /\ inbox' = [InboxRetained(p, compacted) EXCEPT ![m] = "live"]
      /\ envelopes' = EnvelopesRetained(p, compacted)
      /\ UNCHANGED queue
      /\ fresh' = [fresh EXCEPT ![p] = @ + 1]

Arrives(packet, type) ==
  /\ packet \in network /\ packet.type = type
  /\ online[IF type = "dm" THEN Recipient[packet.message]
            ELSE Sender[packet.message]]

\* Mutant: the deduplication is forgotten, and the retry is shown again.
ShownAgain(packet, compacted) ==
  /\ Arrives(packet, "dm") /\ HasIncoming(packet.message)
  /\ inbox' = InboxRetained(Recipient[packet.message], compacted)
  /\ envelopes' = EnvelopesRetained(Recipient[packet.message], compacted)
  /\ network' = (network \ {packet}) \cup {ReceiptPacket(packet.message)}
  /\ shown' = [shown EXCEPT ![packet.message] = @ + 1]
  /\ UNCHANGED <<sessions, prekeys, queue, directory, bundles, online,
                 confirmed, fresh, crashes>>

\* A signed retry of a stored message is acknowledged again, and no more.
AcknowledgeAgain(packet, compacted) ==
  /\ Arrives(packet, "dm") /\ HasIncoming(packet.message)
  /\ inbox' = InboxRetained(Recipient[packet.message], compacted)
  /\ envelopes' = EnvelopesRetained(Recipient[packet.message], compacted)
  /\ network' = (network \ {packet}) \cup {ReceiptPacket(packet.message)}
  /\ UNCHANGED <<sessions, prekeys, queue, directory, bundles, online, shown,
                 confirmed, fresh, crashes>>

\* No session and no prefix, a one-time key already used, a body that does
\* not open, or a full inbox: dropped without a receipt, nothing committed.
DropDirectMessage(packet, compacted) ==
  /\ Arrives(packet, "dm") /\ ~HasIncoming(packet.message)
  /\ ~CanReceive(packet.message, packet.envelope, compacted)
  /\ inbox' = InboxRetained(Recipient[packet.message], compacted)
  /\ envelopes' = EnvelopesRetained(Recipient[packet.message], compacted)
  /\ network' = network \ {packet}
  /\ UNCHANGED <<sessions, prekeys, queue, directory, bundles, online, shown,
                 confirmed, fresh, crashes>>

\* Stored, acknowledged and handed to the application.
ReceiveDirectMessage(packet, compacted) ==
  LET m == packet.message
  IN  /\ Arrives(packet, "dm") /\ ~HasIncoming(m)
      /\ CanReceive(m, packet.envelope, compacted)
      /\ CommitReceive(m, packet.envelope, compacted)
      /\ network' = (network \ {packet}) \cup {ReceiptPacket(m)}
      /\ shown' = [shown EXCEPT ![m] = @ + 1]
      /\ UNCHANGED <<directory, bundles, online, confirmed, crashes>>

\* The process dies between the commit and the receipt.
ReceiveThenCrash(packet, compacted) ==
  LET m == packet.message
      p == Recipient[m]
  IN  /\ Arrives(packet, "dm") /\ ~HasIncoming(m)
      /\ CanReceive(m, packet.envelope, compacted)
      /\ crashes < MaxCrashes
      /\ CommitReceive(m, packet.envelope, compacted)
      /\ network' = network \ {packet}
      /\ online' = [online EXCEPT ![p] = FALSE]
      /\ bundles' = [bundles EXCEPT ![p] = [q \in Peers |-> None]]
      /\ crashes' = crashes + 1
      /\ UNCHANGED <<directory, shown, confirmed>>

\* Mutant: the handler does not look for a pending item.
ReportsAnyReceipt(packet) ==
  /\ Arrives(packet, "receipt")
  /\ network' = network \ {packet}
  /\ queue' = [queue EXCEPT ![packet.message] = "delivered"]
  /\ confirmed' = [confirmed EXCEPT ![packet.message] = @ + 1]
  /\ UNCHANGED <<sessions, prekeys, envelopes, inbox, directory, bundles,
                 online, shown, fresh, crashes>>

\* QueueManager's receipt handler: only a message still pending is marked
\* delivered and reported.
HandleReceipt(packet) ==
  /\ Arrives(packet, "receipt")
  /\ network' = network \ {packet}
  /\ IF IsPending(packet.message)
     THEN /\ queue' = [queue EXCEPT ![packet.message] = "delivered"]
          /\ confirmed' = [confirmed EXCEPT ![packet.message] = @ + 1]
     ELSE UNCHANGED <<queue, confirmed>>
  /\ UNCHANGED <<sessions, prekeys, envelopes, inbox, directory, bundles,
                 online, shown, fresh, crashes>>

----------------------------------------------------------------------------
(* Connections and the relay.                                               *)

\* _connect publishes the device's bundle, then authenticates; once the relay
\* confirms, the client is online and flushes what is due.
Connect(p, due) ==
  /\ ~online[p]
  /\ online' = [online EXCEPT ![p] = TRUE]
  /\ directory' = [directory EXCEPT ![p] = ExportBundle(prekeys[p])]
  /\ due \subseteq PendingOf(p)
  /\ network' = network \cup {DmPacket(envelopes[m]) : m \in due}
  /\ UNCHANGED <<durable, bundles, shown, confirmed, fresh, crashes>>

\* The refresh that follows the use of a one-time key, whenever it arrives.
RefreshBundle(p) ==
  /\ online[p]
  /\ directory[p] # ExportBundle(prekeys[p])
  /\ directory' = [directory EXCEPT ![p] = ExportBundle(prekeys[p])]
  /\ UNCHANGED <<durable, bundles, online, network, shown, confirmed, fresh,
                 crashes>>

Crash(p) ==
  /\ online[p] /\ crashes < MaxCrashes
  /\ online' = [online EXCEPT ![p] = FALSE]
  /\ bundles' = [bundles EXCEPT ![p] = [q \in Peers |-> None]]
  /\ crashes' = crashes + 1
  /\ UNCHANGED <<durable, directory, network, shown, confirmed, fresh>>

\* The relay drops a packet.
Lose(packet) ==
  /\ packet \in network
  /\ network' = network \ {packet}
  /\ UNCHANGED <<durable, directory, bundles, online, shown, confirmed, fresh,
                 crashes>>

----------------------------------------------------------------------------

DmInit ==
  /\ sessions = [p \in Peers |-> [q \in Peers |-> None]]
  /\ prekeys = [p \in Peers |-> 1 .. OneTimeCount]
  /\ queue = [m \in Messages |-> "none"]
  /\ envelopes = [m \in Messages |-> None]
  /\ inbox = [m \in Messages |-> "none"]
  /\ directory = [p \in Peers |-> None]
  /\ bundles = [p \in Peers |-> [q \in Peers |-> None]]
  /\ online = [p \in Peers |-> FALSE]
  /\ network = {}
  /\ shown = [m \in Messages |-> 0]
  /\ confirmed = [m \in Messages |-> 0]
  /\ fresh = [p \in Peers |-> 0]
  /\ crashes = 0

Handle(packet) ==
  \/ \E compacted \in SUBSET Compactable(Recipient[packet.message]) :
       \/ AcknowledgeAgain(packet, compacted)
       \/ DropDirectMessage(packet, compacted)
       \/ ReceiveDirectMessage(packet, compacted)
       \/ ReceiveThenCrash(packet, compacted)
  \/ HandleReceipt(packet)
  \/ Lose(packet)

DmNext ==
  \/ \E p, q \in Peers : FetchBundle(p, q)
  \/ \E m \in Messages : SendDirectMessage(m)
  \/ \E p \in Peers :
       \/ \E due \in SUBSET PendingOf(p) :
            ProcessQueue(p, due) \/ Connect(p, due)
       \/ RefreshBundle(p)
       \/ Crash(p)
  \/ \E packet \in network : Handle(packet)

DmSpec == DmInit /\ [][DmNext]_dmVars

\* A process comes back and its timers run; the backoff is capped, so every
\* pending item is due again and again; of the copies sent again and again
\* the relay does not lose every one.
Fairness ==
  /\ \A p \in Peers : WF_dmVars(\E due \in SUBSET PendingOf(p) : Connect(p, due))
  /\ \A m \in Messages :
       /\ WF_dmVars(ProcessQueue(Sender[m], {m}))
       /\ SF_dmVars(\E packet \in network :
                      packet.message = m /\ ReceiveDirectMessage(packet, {}))
       /\ SF_dmVars(\E packet \in network :
                      packet.message = m /\ AcknowledgeAgain(packet, {}))
       /\ SF_dmVars(\E packet \in network :
                      packet.message = m /\ HandleReceipt(packet))

DmFairSpec == DmSpec /\ Fairness

----------------------------------------------------------------------------
(* Properties.                                                              *)

\* Types of the durable state, the packets and the counters.  A queue item
\* that is still pending keeps its envelope through every compaction.
DmTypeOK ==
  /\ prekeys \in [Peers -> SUBSET (1 .. OneTimeCount)]
  /\ inbox \in [Messages -> {"none", "live", "expired"}]
  /\ queue \in [Messages -> {"none", "pending", "delivered"}]
  /\ \A m \in Messages : IsPending(m) => envelopes[m] # None
  /\ \A packet \in network : /\ packet.type \in {"dm", "receipt"}
                             /\ packet.message \in Messages
  /\ online \in [Peers -> BOOLEAN]
  /\ confirmed \in [Messages -> Nat]
  /\ crashes \in 0 .. MaxCrashes

\* The abstract state of a message: docs/messaging.md's lifecycle read off the
\* sender's queue and the recipient's inbox.
Phase(m) ==
  IF queue[m] = "none" THEN "unsent"
  ELSE IF queue[m] = "delivered" THEN "discharged"
  ELSE IF inbox[m] # "none" THEN "stored" ELSE "queued"

Contract == INSTANCE DmContract
  WITH phase <- [m \in Messages |-> Phase(m)], shown <- shown

\* The configured limits hold after every commit: live inbox messages and
\* pending envelopes, in total and per peer.
WithinResources ==
  Limited => \A p, q \in Peers :
    /\ Cardinality(LiveInbox(p, {})) <= MaxInbox
    /\ Cardinality({m \in LiveInbox(p, {}) : Sender[m] = q}) <= MaxInboxPerPeer
    /\ Cardinality(PendingOf(p)) <= MaxQueued
    /\ Cardinality(PendingTo(p, q)) <= MaxQueuedPerPeer

\* The clients implement the contract: with lost, repeated and reordered
\* packets and receipts and crashes on both sides, a message is stored and
\* shown at most once, shown only when stored, and discharged from the
\* sender's queue only after it is stored (handleAuthorizedDirectMessage,
\* commitReceive, QueueManager's receipt handler).  The inbox and the queue
\* stay within their limits, which refuse a message but never lose one.
DeliveryContract == Contract!ContractSpec /\ []WithinResources

\* verified_delivery_receipt is emitted once per message, however often its
\* receipt arrives, and exactly for the messages the queue has discharged.
ConfirmedOnce ==
  \A m \in Messages :
    confirmed[m] = IF queue[m] = "delivered" THEN 1 ELSE 0

\* No two messages are sealed under one message key, although sessions are
\* created, advanced by sends and receives in any order, and reloaded after
\* crashes (commitSend writes the ratchet with the queue item).
KeyUsedOnce ==
  \A m1, m2 \in Messages :
    /\ m1 # m2 /\ envelopes[m1] # None /\ envelopes[m2] # None
    => envelopes[m1].blob.mk # envelopes[m2].blob.mk

\* Retransmission until acknowledged: a message that was queued is delivered
\* in the end.
EventuallyDelivered ==
  \A m \in Messages :
    (queue[m] # "none") ~> (queue[m] = "delivered")
=============================================================================
