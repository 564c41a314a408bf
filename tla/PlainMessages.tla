---------------------------- MODULE PlainMessages ----------------------------
(***************************************************************************)
(* Direct messages of clients without an encrypted device store: the       *)
(* branches of packages/client/src/dm.ts taken when persistentState is     *)
(* absent.  The sender's queue is outbound.db (storage/src/queue.ts), the  *)
(* recipient's log is events.db (log.ts), the ratchets are in a map of     *)
(* double-ratchet.ts with an optional file behind it (sessions.ts), and    *)
(* the recipient's prekeys live only in memory.  The files are written one *)
(* after the other, so a process that dies between two writes leaves them  *)
(* apart: each handler has an action for the whole and one for the part    *)
(* that was done.                                                          *)
(*                                                                         *)
(* One side sends and the other receives.  A ratchet is then its handshake *)
(* and a message number; the full ratchet is in DoubleRatchet.  The network *)
(* loses, repeats and reorders: a queued envelope may arrive at any time,  *)
(* any number of times, and so may a receipt.  One-time keys, which matter *)
(* to a second initiator only, and the option directOnly are left out.     *)
(***************************************************************************)
EXTENDS Naturals, FiniteSets

CONSTANTS
  Letters,        \* the messages
  NoRatchet,
  MaxRestarts     \* bound: processes that die, of either side

\* A session of the sender, a row of outbound.db, a session of the recipient.
SendRatchets == [handshake : Nat, prekeys : Nat, next : Nat]
OutboundRows ==
  [handshake : Nat, prekeys : Nat, number : Nat, first : BOOLEAN,
   state : {"pending", "delivered"}]
RecvRatchets == [handshake : Nat, opened : SUBSET Nat]

ASSUME PlainAssumption ==
  /\ MaxRestarts \in Nat
  /\ NoRatchet \notin SendRatchets
  /\ NoRatchet \notin OutboundRows
  /\ NoRatchet \notin RecvRatchets

VARIABLES
  backed,         \* whether setSessionBackend was given a SessionStore
  sendRatchet,    \* the sender's session in memory: handshake, next number
  sendBlob,       \* the same in its SessionStore
  outbound,       \* [Letters -> row of outbound.db or NoRatchet]
  prekeyAge,      \* which prekeys the recipient has, and has published
  recvRatchet,    \* the recipient's session: handshake, numbers opened
  events,         \* events.db: the letters logged
  receiptsSent,
  delivered,      \* [Letters -> how often the application was handed it]
  handshakes,     \* how many the sender has made
  restarts,
  torn            \* a process died where the files were left apart for good

plainVars == <<backed, sendRatchet, sendBlob, outbound, prekeyAge, recvRatchet,
               events, receiptsSent, delivered, handshakes, restarts, torn>>
senderVars == <<sendRatchet, sendBlob, outbound, handshakes>>
recipientVars == <<prekeyAge, recvRatchet, events, receiptsSent, delivered>>

Dies == restarts < MaxRestarts /\ restarts' = restarts + 1

----------------------------------------------------------------------------
(* sendDirectMessage.                                                       *)

\* The session to seal with, a new one under the published bundle if there is
\* none.
SendingRatchet ==
  IF sendRatchet # NoRatchet THEN sendRatchet
  ELSE [handshake |-> handshakes + 1, prekeys |-> prekeyAge, next |-> 0]

\* ratchetSeal: the envelope, with the handshake in front of a first message.
Sealed ==
  [handshake |-> SendingRatchet.handshake, prekeys |-> SendingRatchet.prekeys,
   number |-> SendingRatchet.next, first |-> sendRatchet = NoRatchet,
   state |-> "pending"]

Advanced == [SendingRatchet EXCEPT !.next = @ + 1]

\* enqueue: the row of a letter, sealed now.
Enqueued(m) == [outbound EXCEPT ![m] = Sealed]

\* append: the log with a letter's envelope.
Logged(m) == events \cup {m}

\* What a new process finds of a session.
Loaded(blob) == IF backed THEN blob ELSE NoRatchet

\* saveSession or setSession, then enqueue.
SendPlain(m) ==
  /\ outbound[m] = NoRatchet
  /\ sendRatchet' = Advanced /\ sendBlob' = Advanced
  /\ handshakes' = SendingRatchet.handshake
  /\ outbound' = Enqueued(m)
  /\ UNCHANGED <<backed, recipientVars, restarts, torn>>

\* Mutant: the row is written before the session.
SendCutQueueFirst(m) ==
  /\ outbound[m] = NoRatchet
  /\ Dies
  /\ outbound' = Enqueued(m)
  /\ sendRatchet' = Loaded(sendBlob)
  /\ handshakes' = SendingRatchet.handshake
  /\ UNCHANGED <<backed, sendBlob, recipientVars, torn>>

\* The process dies between the two.  A first message takes the handshake with
\* it: the session that is loaded again never shows it to the recipient.  A
\* later one only skips a number, if the session is in the file.
SendCut(m) ==
  /\ outbound[m] = NoRatchet
  /\ Dies
  /\ sendBlob' = Advanced
  /\ sendRatchet' = Loaded(Advanced)
  /\ handshakes' = SendingRatchet.handshake
  /\ torn' = (torn \/ (backed <=> sendRatchet = NoRatchet))
  /\ UNCHANGED <<backed, outbound, recipientVars>>

\* QueueManager: a receipt discharges a pending row.
ReceiptHandled(m) ==
  /\ m \in receiptsSent /\ outbound[m] # NoRatchet
  /\ outbound[m].state = "pending"
  /\ outbound' = [outbound EXCEPT ![m].state = "delivered"]
  /\ UNCHANGED <<backed, sendRatchet, sendBlob, handshakes, recipientVars,
                 restarts, torn>>

\* Without a file for the sessions, the next send makes a new handshake, which
\* a recipient with a session does not look at.
SenderRestarts ==
  /\ Dies
  /\ sendRatchet' = Loaded(sendBlob)
  /\ torn' = (torn \/ (~backed /\ sendRatchet # NoRatchet))
  /\ UNCHANGED <<backed, sendBlob, outbound, handshakes, recipientVars>>

----------------------------------------------------------------------------
(* handleAuthorizedDirectMessage.                                           *)

\* With a session, the handshake in front of an envelope is skipped; without
\* one it has to be there and to fit the prekeys.
Opens(m) ==
  /\ outbound[m] # NoRatchet
  /\ IF recvRatchet = NoRatchet
     THEN outbound[m].first /\ outbound[m].prekeys = prekeyAge
     ELSE /\ recvRatchet.handshake = outbound[m].handshake
          /\ outbound[m].number \notin recvRatchet.opened

Unsealed(m) ==
  [handshake |-> outbound[m].handshake,
   opened |-> {outbound[m].number} \cup
                IF recvRatchet = NoRatchet THEN {} ELSE recvRatchet.opened]

\* A letter in the log is acknowledged again, without opening it.
ReceiveAgain(m) ==
  /\ m \in events
  /\ receiptsSent' = receiptsSent \cup {m}
  /\ UNCHANGED <<backed, senderVars, prekeyAge, recvRatchet, events, delivered,
                 restarts, torn>>

\* saveSession, persistIncomingMessage, the receipt, the callback.
ReceivePlain(m) ==
  /\ m \notin events /\ Opens(m)
  /\ recvRatchet' = Unsealed(m)
  /\ events' = Logged(m)
  /\ receiptsSent' = receiptsSent \cup {m}
  /\ delivered' = [delivered EXCEPT ![m] = @ + 1]
  /\ UNCHANGED <<backed, senderVars, prekeyAge, restarts, torn>>

\* Mutant: the receipt is sent before the letter is logged.
ReceiveCutAcknowledged(m, logged) ==
  /\ m \notin events /\ Opens(m)
  /\ Dies
  /\ recvRatchet' = Loaded(Unsealed(m))
  /\ receiptsSent' = receiptsSent \cup {m}
  /\ events' = IF logged THEN Logged(m) ELSE events
  /\ prekeyAge' = prekeyAge + 1
  /\ torn' = TRUE
  /\ UNCHANGED <<backed, senderVars, delivered>>

\* The process dies after the session is saved, before or after the letter is
\* logged; a letter logged but not shown is never shown.
ReceiveCut(m, logged) ==
  /\ m \notin events /\ Opens(m)
  /\ Dies
  /\ recvRatchet' = Loaded(Unsealed(m))
  /\ events' = IF logged THEN Logged(m) ELSE events
  /\ prekeyAge' = prekeyAge + 1
  /\ torn' = (torn \/ ~logged \/ ~backed)
  /\ UNCHANGED <<backed, senderVars, receiptsSent, delivered>>

\* The new process makes and publishes new prekeys: a first message that is
\* still queued no longer fits, and only a session in the file saves the rest.
RecipientRestarts ==
  /\ Dies
  /\ recvRatchet' = Loaded(recvRatchet)
  /\ prekeyAge' = prekeyAge + 1
  /\ torn' = (torn \/ (Loaded(recvRatchet) = NoRatchet /\ handshakes > 0))
  /\ UNCHANGED <<backed, senderVars, events, receiptsSent, delivered>>

----------------------------------------------------------------------------

PlainInit ==
  /\ backed \in BOOLEAN
  /\ sendRatchet = NoRatchet /\ sendBlob = NoRatchet
  /\ outbound = [m \in Letters |-> NoRatchet]
  /\ prekeyAge = 1 /\ recvRatchet = NoRatchet
  /\ events = {} /\ receiptsSent = {}
  /\ delivered = [m \in Letters |-> 0]
  /\ handshakes = 0 /\ restarts = 0 /\ torn = FALSE

PlainNext ==
  \/ \E m \in Letters :
       \/ SendPlain(m) \/ SendCut(m) \/ ReceiptHandled(m)
       \/ ReceiveAgain(m) \/ ReceivePlain(m)
       \/ \E logged \in BOOLEAN : ReceiveCut(m, logged)
  \/ SenderRestarts
  \/ RecipientRestarts

PlainSpec == PlainInit /\ [][PlainNext]_plainVars

----------------------------------------------------------------------------
(* Properties.                                                              *)

PlainPhase(m) ==
  IF outbound[m] = NoRatchet THEN "unsent"
  ELSE IF outbound[m].state = "delivered" THEN "discharged"
  ELSE IF m \in events THEN "stored" ELSE "queued"

PlainDelivery == INSTANCE DmContract WITH
  Messages <- Letters,
  phase <- [m \in Letters |-> PlainPhase(m)], shown <- delivered

\* The files of the plain clients keep the delivery contract of the persistent
\* ones, wherever a process dies: a letter is logged and shown at most once,
\* and its row is discharged only when it is logged, for the receipt follows
\* persistIncomingMessage.
PlainContract == PlainDelivery!ContractSpec

\* "there is no silent retry-count cutoff": a retry can succeed.  A letter that
\* is queued and not logged can be opened as it is, or after the first message
\* of its session, unless a process died between setSession and enqueue of a
\* first message or between saveSession and persistIncomingMessage, or once
\* there was a handshake and its session was not in a file.  Elsewhere a
\* restart costs nothing, and in particular uses no message key twice.
RetryWorks ==
  ~torn => \A m \in Letters :
    (outbound[m] # NoRatchet /\ m \notin events) =>
      \/ Opens(m)
      \/ /\ recvRatchet = NoRatchet
         /\ \E first \in Letters : /\ Opens(first) /\ first \notin events
                                   /\ outbound[first].handshake = outbound[m].handshake
=============================================================================
