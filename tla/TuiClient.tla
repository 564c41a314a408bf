------------------------------ MODULE TuiClient ------------------------------
(***************************************************************************)
(* The terminal client's adapter (packages/tui/src/dev-client.ts) and the   *)
(* state it shows (state.ts).  connectDev is split at its awaits of         *)
(* connect() and of publishLocalPrekeys(); the login screen starts another  *)
(* call on every press of return, so several may be suspended at once, each *)
(* with a NexnetClient of its own, while the module's `client` names the    *)
(* latest.  A client's connection is reduced to what its events tell; the   *)
(* detail is in ClientConnection.  connect() settles in the same turn as    *)
(* the socket event that settles it, so the event's handlers and the code   *)
(* after the await are one step.                                            *)
(***************************************************************************)
EXTENDS Naturals, FiniteSets

CONSTANTS
  Calls,        \* calls of connectDev, and the clients they create
  NoClient,
  Contacts,     \* the identities presence events name
  OwnTexts,     \* messages the user types
  Publishing,   \* the calls that are given a presence service
  MaxDrops      \* bound: connections lost

ASSUME TuiAssumption ==
  NoClient \notin Calls /\ Publishing \subseteq Calls /\ MaxDrops \in Nat

VARIABLES
  client,       \* the module's client
  stage,        \* where a call of connectDev stands
  link,         \* "idle", "opening", "up", "down" (reconnecting), "stopped"
  connStatus,
  connProblem,  \* whether a problem is shown
  onlinePeers,
  marked,       \* how an own message is marked
  via,          \* the client that sends it
  drops

tuiVars == <<client, stage, link, connStatus, connProblem, onlinePeers, marked,
             via, drops>>
screenVars == <<marked, via>>

\* An event of a client reaches the screen only while it is the module's.
Current(c) == client = c

Stopped(c) == [link EXCEPT ![c] = "stopped"]

----------------------------------------------------------------------------
(* connectDev.                                                              *)

\* Up to the await of connect(): a new client and its handlers.
ConnectDev(c) ==
  /\ stage[c] = "idle"
  /\ stage' = [stage EXCEPT ![c] = "connecting"]
  /\ link' = [link EXCEPT ![c] = "opening"]
  /\ client' = c
  /\ connStatus' = "connecting"
  /\ connProblem' = FALSE
  /\ onlinePeers' = {}
  /\ UNCHANGED <<screenVars, drops>>

\* What follows the awaits: the status, then the default rooms, which are
\* joined through whatever client the module then names, and throw when there
\* is none or it is offline.
EnterRooms(c, links) ==
  /\ connStatus' = "connected"
  /\ stage' = [stage EXCEPT ![c] =
                 IF client # NoClient /\ links[client] = "up"
                 THEN "done" ELSE "failed"]

\* The relay confirms: the connected event, and connect() resolves.
ConnectResolves(c) ==
  /\ stage[c] = "connecting" /\ link[c] = "opening"
  /\ link' = [link EXCEPT ![c] = "up"]
  /\ connProblem' = IF Current(c) THEN FALSE ELSE connProblem
  /\ IF c \in Publishing
     THEN /\ stage' = [stage EXCEPT ![c] = "publishing"]
          /\ connStatus' = IF Current(c) THEN "connected" ELSE connStatus
     ELSE EnterRooms(c, link')
  /\ UNCHANGED <<client, onlinePeers, screenVars, drops>>

\* connect() rejects: refused for good, closed before the relay confirmed, or
\* superseded by disconnect().  The handler disconnects the module's client,
\* this call's or not, and throws when there is none; a client it does not
\* reach goes on reconnecting unless the relay refused it.
ConnectRejects(c, refused) ==
  /\ stage[c] = "connecting" /\ link[c] \in {"opening", "stopped"}
  /\ LET own == IF refused \/ link[c] = "stopped" \/ Current(c)
                THEN Stopped(c) ELSE [link EXCEPT ![c] = "down"]
     IN  link' = IF client = NoClient THEN own
                 ELSE [own EXCEPT ![client] = "stopped"]
  /\ stage' = [stage EXCEPT ![c] = "failed"]
  /\ client' = NoClient
  /\ connStatus' = IF client = NoClient THEN connStatus ELSE "disconnected"
  /\ connProblem' = (connProblem \/ (refused /\ Current(c)))
  /\ onlinePeers' \in {onlinePeers} \cup {{} : d \in {c} \cap {client}}
  /\ UNCHANGED <<screenVars, drops>>

\* publishLocalPrekeys settles, whatever has become of the connection.
PublishSettles(c, published) ==
  /\ stage[c] = "publishing"
  /\ connProblem' = (connProblem \/ ~published)
  /\ EnterRooms(c, link)
  /\ UNCHANGED <<client, link, onlinePeers, screenVars, drops>>

----------------------------------------------------------------------------
(* Events of a client, after connect() has settled.                         *)

\* Mutant: the handlers do not ask whether the client is the module's.
AnyConnectionLost(c) ==
  /\ link[c] = "up" /\ drops < MaxDrops
  /\ drops' = drops + 1
  /\ link' = [link EXCEPT ![c] = "down"]
  /\ onlinePeers' = {}
  /\ connStatus' = "reconnecting"
  /\ UNCHANGED <<client, stage, connProblem, screenVars>>

\* disconnected, and reconnecting when the next attempt is scheduled.
ConnectionLost(c) ==
  /\ link[c] = "up" /\ drops < MaxDrops
  /\ drops' = drops + 1
  /\ link' = [link EXCEPT ![c] = "down"]
  /\ onlinePeers' = IF Current(c) THEN {} ELSE onlinePeers
  /\ connStatus' = IF Current(c) THEN "reconnecting" ELSE connStatus
  /\ UNCHANGED <<client, stage, connProblem, screenVars>>

\* connected, again.
Reconnected(c) ==
  /\ link[c] = "down"
  /\ link' = [link EXCEPT ![c] = "up"]
  /\ connStatus' = IF Current(c) THEN "connected" ELSE connStatus
  /\ connProblem' = IF Current(c) THEN FALSE ELSE connProblem
  /\ UNCHANGED <<client, stage, onlinePeers, screenVars, drops>>

\* auth_failed: the certificate expired, or a reconnection was refused.  Only
\* the latter was preceded by a disconnected event.
AuthFailed(c) ==
  /\ link[c] \in {"up", "down"}
  /\ link' = Stopped(c)
  /\ onlinePeers' = IF Current(c) /\ link[c] = "down" THEN {} ELSE onlinePeers
  /\ connStatus' = IF Current(c) THEN "disconnected" ELSE connStatus
  /\ connProblem' = (connProblem \/ Current(c))
  /\ UNCHANGED <<client, stage, screenVars, drops>>

\* error: a republication or a renewal failed.
UpkeepFailed(c) ==
  /\ link[c] = "up" /\ Current(c) /\ ~connProblem
  /\ connProblem' = TRUE
  /\ UNCHANGED <<client, stage, link, connStatus, onlinePeers, screenVars,
                 drops>>

\* presence, from any client that is connected.
PresenceChanges(c, peer) ==
  /\ link[c] = "up"
  /\ \/ peer \notin onlinePeers /\ onlinePeers' = onlinePeers \cup {peer}
     \/ peer \in onlinePeers /\ onlinePeers' = onlinePeers \ {peer}
  /\ UNCHANGED <<client, stage, link, connStatus, connProblem, screenVars,
                 drops>>

----------------------------------------------------------------------------
(* Messages and disconnectDev.                                              *)

\* sendDevMessage: shown at once, sent by the client of that moment.
SendDevMessage(m) ==
  /\ client # NoClient /\ marked[m] = "unsent"
  /\ marked' = [marked EXCEPT ![m] = "sending"]
  /\ via' = [via EXCEPT ![m] = client]
  /\ UNCHANGED <<client, stage, link, connStatus, connProblem, onlinePeers,
                 drops>>

\* sendDirectMessage settles: held in the sender's queue, awaiting a receipt,
\* or failed.
SendSettles(m, queued) ==
  /\ marked[m] = "sending"
  /\ marked' = [marked EXCEPT ![m] = IF queued THEN "queued" ELSE "failed"]
  /\ UNCHANGED <<client, stage, link, connStatus, connProblem, onlinePeers,
                 via, drops>>

\* verified_delivery_receipt, from the client whose queue holds the message.
ReceiptArrives(m) ==
  /\ marked[m] = "queued" /\ link[via[m]] = "up"
  /\ marked' = [marked EXCEPT ![m] = "delivered"]
  /\ UNCHANGED <<client, stage, link, connStatus, connProblem, onlinePeers,
                 via, drops>>

DisconnectDev ==
  /\ link' = IF client = NoClient THEN link ELSE Stopped(client)
  /\ client' = NoClient
  /\ connStatus' = "disconnected"
  /\ onlinePeers' = {}
  /\ UNCHANGED <<stage, connProblem, screenVars, drops>>

----------------------------------------------------------------------------

TuiInit ==
  /\ client = NoClient
  /\ stage = [c \in Calls |-> "idle"]
  /\ link = [c \in Calls |-> "idle"]
  /\ connStatus = "disconnected"
  /\ connProblem = FALSE
  /\ onlinePeers = {}
  /\ marked = [m \in OwnTexts |-> "unsent"]
  /\ via = [m \in OwnTexts |-> NoClient]
  /\ drops = 0

TuiNext ==
  \/ \E c \in Calls :
       \/ ConnectDev(c)
       \/ ConnectResolves(c)
       \/ \E outcome \in BOOLEAN :
            ConnectRejects(c, outcome) \/ PublishSettles(c, outcome)
       \/ ConnectionLost(c) \/ Reconnected(c) \/ AuthFailed(c)
       \/ UpkeepFailed(c)
       \/ \E peer \in Contacts : PresenceChanges(c, peer)
  \/ \E m \in OwnTexts :
       \/ SendDevMessage(m)
       \/ \E queued \in BOOLEAN : SendSettles(m, queued)
       \/ ReceiptArrives(m)
  \/ DisconnectDev

TuiSpec == TuiInit /\ [][TuiNext]_tuiVars

----------------------------------------------------------------------------
(* Properties.                                                              *)

\* While the module's client is authenticated the screen says connected,
\* whatever the clients of earlier calls of connectDev go through: their
\* events are recognised as stale (the `client !== active` tests).
LiveClientShown ==
  \A c \in Calls : Current(c) /\ link[c] = "up" => connStatus = "connected"

\* "Status follows the real connection, not the last successful connect": the
\* screen says connected only while the module's client is.  The assignment
\* after the await of publishLocalPrekeys does not look at the connection.
StatusFollowsConnection ==
  connStatus = "connected" => client # NoClient /\ link[client] = "up"
=============================================================================
